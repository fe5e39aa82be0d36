---------------------------- MODULE WindowsProofs ----------------------------
(***************************************************************************)
(* For every set of windows, queue bound and amount of work: the live view  *)
(* of a browser tab is in one window, a window types only into a terminal   *)
(* it may take for its own, and keys keep their order.                      *)
(*                                                                         *)
(* The invariant speaks of a window in the middle of a callback as well as  *)
(* between two: a callback applies packet after packet and key after key,   *)
(* and any send may lose the connection.  Good(v, p, l, x) says what holds  *)
(* of window v with App p and socket l when the callback has come as far as *)
(* its context x says; each operator of a callback is shown to take good    *)
(* windows to good windows, and the step lemmas begin and end with the      *)
(* context of a window at rest.                                             *)
(***************************************************************************)
EXTENDS Windows, FiniteSetTheorems, WellFoundedInduction, TLAPS

(* Types. *)
PageType == [id : Nat \ {0}, browser : BOOLEAN]
Distinct(ts) == \A i, j \in DOMAIN ts : ts[i].id = ts[j].id => i = j
Pages == {ts \in Seq(PageType) : Distinct(ts)}
KeyType == [n : Nat, what : {"text", "new", "close"}]
MessageType ==
    [kind : {"hello", "attach", "browser", "new", "close", "focus", "input"}, tab : Nat, key : Nat]
NoticeType ==
    [kind : {"created", "release", "frame"}, tab : Nat]
    \cup [kind : {"catalog"}, closed : Nat, fallback : Nat, tabs : Pages]
AppType ==
    [life : {"none", "open", "closing", "gone"}, conn : BOOLEAN, timer : BOOLEAN,
     pages : Pages, active : Nat, requested : Nat, initial : BOOLEAN, pending : Nat,
     early : Seq(KeyType), live : SUBSET Nat, views : SUBSET Nat, missed : BOOLEAN]
LinkType == [up : BOOLEAN, ready : BOOLEAN, in : Seq(NoticeType), out : Seq(MessageType)]
UiType == [win : [Window -> AppType], link : [Window -> LinkType]]
TabType == [id : Nat \ {0}, browser : BOOLEAN, owner : Window \cup {None}]
SvcType == [up : BOOLEAN, tabs : Seq(TabType), next : Nat \ {0}, closed : Nat,
            fallback : Nat, due : BOOLEAN]

(* A notice behind position k of a queue tells its window that a terminal    *)
(* is no longer one (Doomed), or no longer the window's (Notified).          *)
Doomed(q, k, id) == \E j \in DOMAIN q : j > k /\ q[j].kind = "catalog" /\ id \notin Terminals(q[j].tabs)
Notified(q, k, id) == \E j \in DOMAIN q : j > k /\ Dispossesses(q[j], id)

(* A terminal that window v has a page for (q[k] being the last notice it     *)
(* applied) is the service's, or v will be told that it is not.              *)
Stands(q, k, id) ==
    /\ id < svc.next
    /\ id \in Terminals(svc.tabs) \/ Doomed(q, k, id) \/ GoneUntold(svc, id)

(* The same of control.                                                      *)
Explained(v, q, k, id) ==
    Controls(svc, v, id) \/ Notified(q, k, id) \/ GoneUntold(svc, id)

(* The parts of Good.  A context x has: at, how many notices of the read are *)
(* applied; in, what the read left; later, the keys to be pressed again; top,*)
(* the last key typed; off, what the callback has suspended; alive, whether  *)
(* the window may not close meanwhile.                                       *)
Browsers(ts) == {ts[i].id : i \in {j \in DOMAIN ts : ts[j].browser}}

(* Views and live terminals are pages.                                       *)
Placed(p) ==
    /\ p.views \subseteq Browsers(p.pages)
    /\ p.live \subseteq Terminals(p.pages)
    /\ ~Alive(p) => p.views = {}

(* A callback may lose the connection, but not make one.                     *)
Bound(p, l, v, x) ==
    /\ p.conn => win[v].conn /\ l.in = x.in
    /\ l.up = link[v].up /\ l.ready = link[v].ready

(* The keys that arrived, those sent, those buffered and those to be pressed *)
(* again ascend in this order, unless a tab the window waits for never came. *)
Ascending(ks) == \A i, j \in DOMAIN ks : i < j => ks[i].n < ks[j].n
Keyed(p, out, last, x) ==
    /\ last <= x.top
    /\ \A i \in Inputs(out) : out[i].key <= x.top
    /\ \A i \in DOMAIN p.early : p.early[i].n <= x.top
    /\ \A m \in x.later : m <= x.top /\ \A i \in DOMAIN p.early : p.early[i].n < m
    /\ Ascending(p.early)
    /\ ~p.missed =>
        /\ InOrder(last, out, p.early)
        /\ \A m \in x.later : last < m /\ \A i \in Inputs(out) : out[i].key < m

(* Once a catalog arrived on this connection: its terminals stand, and the   *)
(* shown one, if live, is claimed or explained.                              *)
Online(p, l) == p.conn /\ l.up /\ ~p.initial
Follows(v, p, l, k) ==
    Online(p, l) => l.ready /\ \A id \in Terminals(p.pages) : Stands(link[v].in, k, id)
Claimed(v, p, l, k) ==
    Online(p, l) /\ ~p.missed /\ p.active \in p.live =>
        (\E i \in DOMAIN l.out : l.out[i] = Focus(p.active)) \/ Explained(v, link[v].in, k, p.active)

(* A window with pages shows one, and keys are buffered only while it shows  *)
(* none: what Drain relies on to press them in order.                        *)
Shown(p) == ~p.missed /\ p.active = NoTab => p.pages = <<>>
Quiet(p) == ~p.missed /\ p.early # <<>> => p.active = NoTab
Good(v, p, l, x) ==
    /\ Placed(p) /\ Bound(p, l, v, x) /\ Keyed(p, l.out, heard[v], x) /\ Follows(v, p, l, x.at)
    /\ "claim" \notin x.off => Claimed(v, p, l, x.at)
    /\ Shown(p)
    /\ "early" \notin x.off => Quiet(p)
    /\ x.alive => Alive(p)

Disjoint(ws) == \A v, w \in Window : v # w => ws[v].views \cap ws[w].views = {}
Rest(v) == [at |-> 0, in |-> link[v].in, later |-> {}, top |-> typed, off |-> {},
            alive |-> Alive(win[v])]

(* The service numbers its tabs without repeats, below next.                 *)
Sound(sv) ==
    /\ sv \in SvcType /\ Distinct(sv.tabs)
    /\ \A i \in DOMAIN sv.tabs : sv.tabs[i].id < sv.next
SvcOK ==
    /\ Sound(svc)
    /\ ~svc.up => \A w \in Window : ~link[w].up

(* What is on its way to a window was true when it was sent, and what is no  *)
(* longer true is corrected behind it.                                       *)
Shows(m) == m.kind \in {"frame", "catalog"}
Arriving(v) ==
    win[v].conn /\ link[v].up =>
        LET q == link[v].in IN
        \A i \in DOMAIN q :
            /\ Shows(q[i]) => link[v].ready
            /\ q[i].kind = "frame" => q[i].tab < svc.next /\ Explained(v, q, i, q[i].tab)
            /\ q[i].kind = "catalog" => \A id \in Terminals(q[i].tabs) : Stands(q, i, id)

(* The inductive invariant.                                                  *)
WindowsInv ==
    /\ Ui \in UiType /\ SvcOK
    /\ typed \in Nat /\ heard \in [Window -> Nat]
    /\ Disjoint(win)
    /\ \A v \in Window : Arriving(v) /\ Good(v, win[v], link[v], Rest(v))

-----------------------------------------------------------------------------
Context ==
    [at : Nat, in : Seq(NoticeType), later : SUBSET Nat, top : Nat,
     off : SUBSET {"claim", "early"}, alive : BOOLEAN]
Cut(p) == [p EXCEPT !.conn = FALSE, !.pending = 0, !.live = {}, !.timer = TRUE]
Shut(l) == [l EXCEPT !.in = <<>>]
Push(l, m) == [l EXCEPT !.out = Append(@, m)]
Without(x, f) == [x EXCEPT !.off = @ \ {f}]

LEMMA CutFields ==
    ASSUME NEW p \in AppType, NEW l \in LinkType
    PROVE  /\ Cut(p) \in AppType /\ Shut(l) \in LinkType
           /\ Cut(p).conn = FALSE /\ Cut(p).live = {}
           /\ Cut(p).life = p.life /\ Cut(p).pages = p.pages /\ Cut(p).active = p.active
           /\ Cut(p).requested = p.requested /\ Cut(p).initial = p.initial
           /\ Cut(p).early = p.early /\ Cut(p).views = p.views /\ Cut(p).missed = p.missed
           /\ Shut(l).in = <<>> /\ Shut(l).out = l.out /\ Shut(l).up = l.up /\ Shut(l).ready = l.ready
<1>1. Cut(p) \in AppType
  BY DEF AppType, Cut
<1>2. Shut(l) \in LinkType
  BY <<>> \in Seq(NoticeType) DEF LinkType, Shut
<1>3. /\ Cut(p).conn = FALSE /\ Cut(p).live = {}
      /\ Cut(p).life = p.life /\ Cut(p).pages = p.pages /\ Cut(p).active = p.active
      /\ Cut(p).requested = p.requested /\ Cut(p).initial = p.initial
      /\ Cut(p).early = p.early /\ Cut(p).views = p.views /\ Cut(p).missed = p.missed
  BY DEF AppType, Cut
<1>4. Shut(l).in = <<>> /\ Shut(l).out = l.out /\ Shut(l).up = l.up /\ Shut(l).ready = l.ready
  BY DEF LinkType, Shut
<1> QED BY <1>1, <1>2, <1>3, <1>4

LEMMA PushFields ==
    ASSUME NEW l \in LinkType, NEW m \in MessageType
    PROVE  /\ Push(l, m) \in LinkType
           /\ Push(l, m).in = l.in /\ Push(l, m).up = l.up /\ Push(l, m).ready = l.ready
           /\ Push(l, m).out = Append(l.out, m)
<1>1. Append(l.out, m) \in Seq(MessageType)
  BY DEF LinkType
<1>2. Push(l, m) \in LinkType
  BY <1>1 DEF LinkType, Push
<1>3. /\ Push(l, m).in = l.in /\ Push(l, m).up = l.up /\ Push(l, m).ready = l.ready
      /\ Push(l, m).out = Append(l.out, m)
  BY DEF LinkType, Push
<1> QED BY <1>2, <1>3

LEMMA CutGood ==
    ASSUME NEW v \in Window, NEW p \in AppType, NEW l \in LinkType, NEW x \in Context,
           Good(v, p, l, x)
    PROVE  Good(v, Cut(p), Shut(l), Without(x, "claim"))
<1> DEFINE q == Cut(p)
          k == Shut(l)
          y == Without(x, "claim")
<1>1. /\ q.conn = FALSE /\ q.live = {} /\ q.life = p.life /\ q.pages = p.pages /\ q.active = p.active
      /\ q.early = p.early /\ q.views = p.views /\ q.missed = p.missed
      /\ k.out = l.out /\ k.up = l.up /\ k.ready = l.ready
  BY CutFields
<1>2. /\ y.at = x.at /\ y.in = x.in /\ y.later = x.later /\ y.top = x.top /\ y.off = x.off \ {"claim"}
      /\ y.alive = x.alive
  BY DEF Context, Without
<1> HIDE DEF q, k, y
<1>3. Placed(q) /\ Bound(q, k, v, y) /\ Follows(v, q, k, y.at) /\ Claimed(v, q, k, y.at) /\ Shown(q)
  BY <1>1, <1>2 DEF Good, Placed, Bound, Follows, Claimed, Online, Shown, Alive
<1>4. Keyed(q, k.out, heard[v], y)
  BY <1>1, <1>2 DEF Good, Keyed, InOrder, Inputs
<1>5. ("early" \notin y.off => Quiet(q)) /\ (y.alive => Alive(q))
  BY <1>1, <1>2 DEF Good, Quiet, Alive
<1> QED BY <1>3, <1>4, <1>5 DEF Good, q, k, y

LEMMA PushGood ==
    ASSUME NEW v \in Window, NEW p \in AppType, NEW l \in LinkType, NEW x \in Context,
           NEW m \in MessageType, m.kind # "input", Good(v, p, l, x)
    PROVE  /\ Good(v, p, Push(l, m), x)
           /\ m = Focus(p.active) => Good(v, p, Push(l, m), Without(x, "claim"))
<1> DEFINE k == Push(l, m)
<1>1. /\ k.out = Append(l.out, m) /\ k.in = l.in /\ k.up = l.up /\ k.ready = l.ready
  BY PushFields
<1>2. l.out \in Seq(MessageType)
  BY DEF LinkType
<1>3. Inputs(k.out) = Inputs(l.out) /\ \A i \in Inputs(l.out) : k.out[i] = l.out[i]
  BY <1>1, <1>2 DEF Inputs
<1>4. \A i \in DOMAIN l.out : i \in DOMAIN k.out /\ k.out[i] = l.out[i]
  BY <1>1, <1>2
<1>5. k.out[Len(l.out) + 1] = m /\ Len(l.out) + 1 \in DOMAIN k.out
  BY <1>1, <1>2
<1> HIDE DEF k
<1>6. Bound(p, k, v, x) /\ Follows(v, p, k, x.at)
  BY <1>1 DEF Good, Bound, Follows, Online
<1>7. Keyed(p, k.out, heard[v], x)
  BY <1>3 DEF Good, Keyed, InOrder
<1>8. Claimed(v, p, l, x.at) => Claimed(v, p, k, x.at)
  BY <1>1, <1>4 DEF Claimed, Online
<1>9. m = Focus(p.active) => Claimed(v, p, k, x.at)
  BY <1>5 DEF Claimed
<1>10. /\ Without(x, "claim").at = x.at /\ Without(x, "claim").off = x.off \ {"claim"}
       /\ Without(x, "claim").alive = x.alive
       /\ Bound(p, k, v, Without(x, "claim")) = Bound(p, k, v, x)
       /\ Keyed(p, k.out, heard[v], Without(x, "claim")) = Keyed(p, k.out, heard[v], x)
  BY DEF Context, Without, Bound, Keyed
<1> QED BY <1>6, <1>7, <1>8, <1>9, <1>10 DEF Good, k

LEMMA WithoutType ==
    ASSUME NEW x \in Context, NEW f
    PROVE  Without(x, f) \in Context
  BY DEF Context, Without

LEMMA Weaken ==
    ASSUME NEW v, NEW p, NEW l, NEW x \in Context, NEW f, Good(v, p, l, Without(x, f))
    PROVE  Good(v, p, l, x)
<1> DEFINE y == Without(x, f)
<1>1. /\ y.at = x.at /\ y.in = x.in /\ y.later = x.later /\ y.top = x.top /\ y.off \subseteq x.off
      /\ y.alive = x.alive
  BY DEF Context, Without
<1>2. Good(v, p, l, y)
  OBVIOUS
<1> HIDE DEF y
<1>3. Bound(p, l, v, x) /\ Keyed(p, l.out, heard[v], x)
  BY <1>1, <1>2 DEF Good, Bound, Keyed
<1> QED BY <1>1, <1>2, <1>3 DEF Good

LEMMA OfflineGood ==
    ASSUME NEW v, NEW p, NEW l, NEW x \in Context, Good(v, p, l, x), ~p.conn
    PROVE  Good(v, p, l, Without(x, "claim"))
<1> DEFINE y == Without(x, "claim")
<1>1. /\ y.at = x.at /\ y.in = x.in /\ y.later = x.later /\ y.top = x.top /\ y.alive = x.alive
      /\ y.off = x.off \ {"claim"}
  BY DEF Context, Without
<1> HIDE DEF y
<1>2. Bound(p, l, v, y) /\ Keyed(p, l.out, heard[v], y)
  BY <1>1 DEF Good, Bound, Keyed
<1>3. Claimed(v, p, l, y.at)
  BY DEF Claimed, Online
<1> QED BY <1>1, <1>2, <1>3 DEF Good, y

(* Fewer keys are still to be pressed.                                       *)
Fewer(x, n) == [x EXCEPT !.later = @ \ {n}]
LEMMA FewerGood ==
    ASSUME NEW v, NEW p, NEW l, NEW x \in Context, NEW n, Good(v, p, l, x)
    PROVE  Fewer(x, n) \in Context /\ Good(v, p, l, Fewer(x, n))
<1> DEFINE y == Fewer(x, n)
<1>1. /\ y.at = x.at /\ y.in = x.in /\ y.later = x.later \ {n} /\ y.top = x.top
      /\ y.alive = x.alive /\ y.off = x.off
  BY DEF Context, Fewer
<1>2. y \in Context
  BY DEF Context, Fewer
<1> HIDE DEF y
<1>3. Bound(p, l, v, y) /\ Keyed(p, l.out, heard[v], y)
  BY <1>1 DEF Good, Bound, Keyed
<1> QED BY <1>1, <1>2, <1>3 DEF Good, y

(* The next key is sent.                                                     *)
LEMMA PushKeyGood ==
    ASSUME NEW v \in Window, NEW p \in AppType, NEW l \in LinkType, NEW x \in Context,
           NEW m \in MessageType, m.kind = "input", Good(v, p, l, x),
           m.key \in x.later, \A n \in x.later : n # m.key => m.key < n,
           p.missed \/ p.early = <<>>
    PROVE  Good(v, p, Push(l, m), Fewer(x, m.key))
<1> DEFINE k == Push(l, m)
          y == Fewer(x, m.key)
          e == Len(l.out) + 1
<1>1. /\ k.out = Append(l.out, m) /\ k.in = l.in /\ k.up = l.up /\ k.ready = l.ready
  BY PushFields
<1>2. l.out \in Seq(MessageType)
  BY DEF LinkType
<1>3. Inputs(k.out) = Inputs(l.out) \cup {e} /\ (\A i \in Inputs(l.out) : k.out[i] = l.out[i] /\ i < e)
      /\ k.out[e] = m
  BY <1>1, <1>2 DEF Inputs
<1>4. \A i \in DOMAIN l.out : i \in DOMAIN k.out /\ k.out[i] = l.out[i]
  BY <1>1, <1>2
<1>5. /\ y.at = x.at /\ y.in = x.in /\ y.later = x.later \ {m.key} /\ y.top = x.top
      /\ y.alive = x.alive /\ y.off = x.off
  BY DEF Context, Fewer
<1>6. m.key \in Nat /\ e \in Nat /\ Inputs(l.out) \subseteq Nat
  BY <1>2 DEF MessageType, Inputs
<1> HIDE DEF k, y, e
<1>7. Bound(p, k, v, y) /\ Follows(v, p, k, y.at)
  BY <1>1, <1>5 DEF Good, Bound, Follows, Online
<1>8. Keyed(p, k.out, heard[v], y)
  <2>1. m.key <= x.top
    BY DEF Good, Keyed
  <2>2. ASSUME ~p.missed
        PROVE  /\ InOrder(heard[v], k.out, p.early)
               /\ \A n \in y.later : heard[v] < n /\ \A i \in Inputs(k.out) : k.out[i].key < n
    <3>1. p.early = <<>> /\ DOMAIN p.early = {}
      BY <2>2
    <3>2. /\ InOrder(heard[v], l.out, p.early)
          /\ \A n \in x.later : heard[v] < n /\ \A i \in Inputs(l.out) : l.out[i].key < n
      BY <2>2 DEF Good, Keyed
    <3>3. InOrder(heard[v], k.out, p.early)
      BY <3>1, <3>2, <1>3, <1>6 DEF InOrder
    <3>4. \A n \in y.later : heard[v] < n /\ \A i \in Inputs(k.out) : k.out[i].key < n
      BY <3>2, <1>3, <1>5
    <3> QED BY <3>3, <3>4
  <2> QED BY <2>1, <2>2, <1>3, <1>5 DEF Good, Keyed
<1>9. Claimed(v, p, l, x.at) => Claimed(v, p, k, y.at)
  BY <1>1, <1>4, <1>5 DEF Claimed, Online
<1> QED BY <1>5, <1>7, <1>8, <1>9 DEF Good, k, y

-----------------------------------------------------------------------------
(* The frontend in the middle of a callback.                                 *)
J(ui, c) ==
    /\ ui \in UiType /\ c \in [Window -> Context]
    /\ Disjoint(ui.win)
    /\ \A v \in Window : Good(v, ui.win[v], ui.link[v], c[v])
At(c, w, x) == [c EXCEPT ![w] = x]

LEMMA OneWindow ==
    ASSUME NEW ui, NEW c, J(ui, c), NEW w \in Window, NEW p \in AppType, NEW l \in LinkType,
           NEW x \in Context, Good(w, p, l, x), p.views \subseteq ui.win[w].views
    PROVE  J([win |-> [ui.win EXCEPT ![w] = p], link |-> [ui.link EXCEPT ![w] = l]], At(c, w, x))
<1> DEFINE ws == [ui.win EXCEPT ![w] = p]
          ls == [ui.link EXCEPT ![w] = l]
          d == At(c, w, x)
<1>1. ui.win \in [Window -> AppType] /\ ui.link \in [Window -> LinkType] /\ c \in [Window -> Context]
  BY DEF J, UiType
<1>2. ws \in [Window -> AppType] /\ ls \in [Window -> LinkType] /\ d \in [Window -> Context]
  BY <1>1 DEF At
<1>3. ws[w] = p /\ ls[w] = l /\ d[w] = x
  BY <1>1 DEF At
<1>4. \A v \in Window : v # w => ws[v] = ui.win[v] /\ ls[v] = ui.link[v] /\ d[v] = c[v]
  BY <1>1 DEF At
<1> HIDE DEF ws, ls, d
<1>5. Disjoint(ws)
  BY <1>3, <1>4 DEF J, Disjoint
<1>6. \A v \in Window : Good(v, ws[v], ls[v], d[v])
  BY <1>3, <1>4 DEF J
<1>7. [win |-> ws, link |-> ls] \in UiType
  BY <1>2 DEF UiType
<1>8. J([win |-> ws, link |-> ls], d)
  BY <1>2, <1>5, <1>6, <1>7 DEF J
<1> QED BY <1>8 DEF ws, ls, d

LEMMA OneApp ==
    ASSUME NEW ui, NEW c, J(ui, c), NEW w \in Window, NEW p \in AppType,
           NEW x \in Context, Good(w, p, ui.link[w], x), p.views \subseteq ui.win[w].views
    PROVE  J(With(ui, w, p), At(c, w, x))
<1>1. ui.link \in [Window -> LinkType]
  BY DEF J, UiType
<1>2. [ui.link EXCEPT ![w] = ui.link[w]] = ui.link /\ ui.link[w] \in LinkType
  BY <1>1
<1> QED BY <1>2, OneWindow DEF With

LEMMA Same ==
    ASSUME NEW ui, NEW c, J(ui, c), NEW w \in Window
    PROVE  /\ ui.win[w] \in AppType /\ ui.link[w] \in LinkType /\ c[w] \in Context
           /\ Good(w, ui.win[w], ui.link[w], c[w]) /\ At(c, w, c[w]) = c
  BY DEF J, UiType, At

LEMMA LostIs ==
    ASSUME NEW ui, NEW w
    PROVE  Lost(ui, w) = [win |-> [ui.win EXCEPT ![w] = Cut(ui.win[w])],
                          link |-> [ui.link EXCEPT ![w] = Shut(ui.link[w])]]
  BY DEF Lost, Cut, Shut

LEMMA LostKeeps ==
    ASSUME NEW ui, NEW c, J(ui, c), NEW w \in Window
    PROVE  J(Lost(ui, w), At(c, w, Without(c[w], "claim"))) /\ J(Lost(ui, w), c)
<1> DEFINE p == ui.win[w]
          l == ui.link[w]
<1>1. /\ p \in AppType /\ l \in LinkType /\ c[w] \in Context /\ Good(w, p, l, c[w])
      /\ At(c, w, c[w]) = c
  BY Same
<1> HIDE DEF p, l
<1>2. Cut(p) \in AppType /\ Shut(l) \in LinkType /\ Cut(p).views = p.views
  BY <1>1, CutFields
<1>3. Good(w, Cut(p), Shut(l), Without(c[w], "claim"))
  BY <1>1, CutGood
<1>4. Good(w, Cut(p), Shut(l), c[w])
  BY <1>1, <1>3, Weaken
<1>5. Without(c[w], "claim") \in Context
  BY <1>1, WithoutType
<1>6. Cut(p).views \subseteq ui.win[w].views
  BY <1>2 DEF p
<1> DEFINE u == [win |-> [ui.win EXCEPT ![w] = Cut(p)], link |-> [ui.link EXCEPT ![w] = Shut(l)]]
<1>7. Lost(ui, w) = u
  BY LostIs DEF p, l
<1>8. J(u, At(c, w, Without(c[w], "claim")))
  BY <1>2, <1>3, <1>5, <1>6, OneWindow
<1>9. J(u, At(c, w, c[w]))
  BY <1>1, <1>2, <1>4, <1>6, OneWindow
<1> QED BY <1>1, <1>7, <1>8, <1>9

LEMMA OfflineKeeps ==
    ASSUME NEW ui, NEW c, J(ui, c), NEW w \in Window, ~ui.win[w].conn
    PROVE  J(ui, At(c, w, Without(c[w], "claim")))
<1> DEFINE x == Without(c[w], "claim")
<1>1. x \in Context /\ Good(w, ui.win[w], ui.link[w], x)
  BY Same, OfflineGood, WithoutType
<1> HIDE DEF x
<1>2. ui.win[w] \in AppType /\ ui.win \in [Window -> AppType] /\ ui = [win |-> ui.win, link |-> ui.link]
  BY DEF J, UiType
<1>3. [ui.win EXCEPT ![w] = ui.win[w]] = ui.win
  BY <1>2
<1>4. With(ui, w, ui.win[w]) = ui
  BY <1>2, <1>3 DEF With
<1>5. J(With(ui, w, ui.win[w]), At(c, w, x))
  BY <1>1, <1>2, OneApp
<1> QED BY <1>4, <1>5 DEF x

LEMMA FewerKeeps ==
    ASSUME NEW ui, NEW c, J(ui, c), NEW w \in Window, NEW n
    PROVE  J(ui, At(c, w, Fewer(c[w], n)))
<1> DEFINE x == Fewer(c[w], n)
<1>1. x \in Context /\ Good(w, ui.win[w], ui.link[w], x)
  BY Same, FewerGood
<1> HIDE DEF x
<1>2. ui.win[w] \in AppType /\ ui.win \in [Window -> AppType] /\ ui = [win |-> ui.win, link |-> ui.link]
  BY DEF J, UiType
<1>3. [ui.win EXCEPT ![w] = ui.win[w]] = ui.win
  BY <1>2
<1>4. With(ui, w, ui.win[w]) = ui
  BY <1>2, <1>3 DEF With
<1>5. J(With(ui, w, ui.win[w]), At(c, w, x))
  BY <1>1, <1>2, OneApp
<1> QED BY <1>4, <1>5 DEF x

(* A packet is queued, or the connection is lost.                            *)
Pushed(ui, w, m) ==
    [win |-> ui.win, link |-> [ui.link EXCEPT ![w] = Push(ui.link[w], m)]]
LEMMA SendIs ==
    ASSUME NEW ui, NEW w, NEW m
    PROVE  Send(ui, w, m) = IF ~ui.win[w].conn THEN ui
                            ELSE IF ui.link[w].up /\ Len(ui.link[w].out) < OutBound
                            THEN Pushed(ui, w, m) ELSE Lost(ui, w)
  BY DEF Send, Pushed, Push

LEMMA PushedKeeps ==
    ASSUME NEW ui, NEW c, J(ui, c), NEW w \in Window, NEW m \in MessageType, NEW x \in Context,
           Good(w, ui.win[w], Push(ui.link[w], m), x)
    PROVE  J(Pushed(ui, w, m), At(c, w, x))
<1>1. ui.win \in [Window -> AppType] /\ ui.link[w] \in LinkType
  BY DEF J, UiType
<1>2. [ui.win EXCEPT ![w] = ui.win[w]] = ui.win /\ ui.win[w] \in AppType
  BY <1>1
<1>3. Push(ui.link[w], m) \in LinkType
  BY <1>1, PushFields
<1>4. J([win |-> [ui.win EXCEPT ![w] = ui.win[w]],
         link |-> [ui.link EXCEPT ![w] = Push(ui.link[w], m)]], At(c, w, x))
  BY <1>2, <1>3, OneWindow
<1> QED BY <1>2, <1>4 DEF Pushed

LEMMA SendKeeps ==
    ASSUME NEW ui, NEW c, J(ui, c), NEW w \in Window, NEW m \in MessageType, m.kind # "input"
    PROVE  /\ J(Send(ui, w, m), c)
           /\ m = Focus(ui.win[w].active) => J(Send(ui, w, m), At(c, w, Without(c[w], "claim")))
<1> DEFINE p == ui.win[w]
          l == ui.link[w]
          x == c[w]
<1>1. /\ p \in AppType /\ l \in LinkType /\ x \in Context /\ Good(w, p, l, x) /\ At(c, w, x) = c
      /\ Without(x, "claim") \in Context
  BY Same, WithoutType
<1>2. CASE ~ui.win[w].conn
  BY <1>2, SendIs, OfflineKeeps
<1>3. CASE ui.win[w].conn /\ ui.link[w].up /\ Len(ui.link[w].out) < OutBound
  <2>1. Send(ui, w, m) = Pushed(ui, w, m)
    BY <1>3, SendIs
  <2>2. Good(w, p, Push(l, m), x)
    BY <1>1, PushGood
  <2>3. m = Focus(p.active) => Good(w, p, Push(l, m), Without(x, "claim"))
    BY <1>1, PushGood
  <2>4. J(Pushed(ui, w, m), c)
    BY <1>1, <2>2, PushedKeeps
  <2>5. m = Focus(p.active) => J(Pushed(ui, w, m), At(c, w, Without(x, "claim")))
    BY <1>1, <2>3, PushedKeeps
  <2> QED BY <2>1, <2>4, <2>5
<1>4. CASE ui.win[w].conn /\ ~(ui.link[w].up /\ Len(ui.link[w].out) < OutBound)
  BY <1>4, SendIs, LostKeeps
<1> QED BY <1>2, <1>3, <1>4

LEMMA SendKey ==
    ASSUME NEW ui, NEW c, J(ui, c), NEW w \in Window, NEW m \in MessageType, m.kind = "input",
           m.key \in c[w].later, \A n \in c[w].later : n # m.key => m.key < n,
           "early" \notin c[w].off, ui.win[w].active # NoTab
    PROVE  J(Send(ui, w, m), At(c, w, Fewer(c[w], m.key)))
<1> DEFINE p == ui.win[w]
          l == ui.link[w]
          x == c[w]
          y == Fewer(x, m.key)
<1>1. p \in AppType /\ l \in LinkType /\ x \in Context /\ Good(w, p, l, x)
  BY Same
<1>2. y \in Context /\ p.missed \in BOOLEAN /\ (p.missed \/ p.early = <<>>)
  BY <1>1, FewerGood DEF Good, Quiet, AppType
<1>3. CASE ~ui.win[w].conn
  BY <1>3, SendIs, FewerKeeps
<1>4. CASE ui.win[w].conn /\ ui.link[w].up /\ Len(ui.link[w].out) < OutBound
  <2>1. Send(ui, w, m) = Pushed(ui, w, m)
    BY <1>4, SendIs
  <2>2. Good(w, p, Push(l, m), y)
    BY <1>1, <1>2, PushKeyGood
  <2> QED BY <1>2, <2>1, <2>2, PushedKeeps
<1>5. CASE ui.win[w].conn /\ ~(ui.link[w].up /\ Len(ui.link[w].out) < OutBound)
  <2>1. Send(ui, w, m) = Lost(ui, w)
    BY <1>5, SendIs
  <2>2. J(Lost(ui, w), c)
    BY LostKeeps
  <2> QED BY <2>1, <2>2, FewerKeeps
<1> QED BY <1>3, <1>4, <1>5

(* What a send leaves alone.                                                 *)
LEMMA SendShape ==
    ASSUME NEW ui \in UiType, NEW w \in Window, NEW m
    PROVE  \A v \in Window : /\ Send(ui, w, m).win[v].active = ui.win[v].active
                             /\ Send(ui, w, m).win[v].pages = ui.win[v].pages
                             /\ Send(ui, w, m).win[v].life = ui.win[v].life
<1>1. ui.win \in [Window -> AppType] /\ ui.win[w] \in AppType /\ ui.link[w] \in LinkType
  BY DEF UiType
<1>2. Pushed(ui, w, m).win = ui.win
  BY DEF Pushed
<1>3. Lost(ui, w).win = [ui.win EXCEPT ![w] = Cut(ui.win[w])]
  BY LostIs
<1>4. /\ Cut(ui.win[w]).active = ui.win[w].active /\ Cut(ui.win[w]).pages = ui.win[w].pages
      /\ Cut(ui.win[w]).life = ui.win[w].life
  BY <1>1, CutFields
<1> QED BY <1>1, <1>2, <1>3, <1>4, SendIs

-----------------------------------------------------------------------------
(* Views and claims. *)

LEMMA Kinds ==
    ASSUME NEW ts, NEW id
    PROVE  /\ HasBrowser(ts, id) <=> id \in Browsers(ts)
           /\ HasTerminal(ts, id) <=> id \in Terminals(ts)
  BY DEF HasBrowser, HasTerminal, Browsers, Terminals

LEMMA KindsApart ==
    ASSUME NEW ts \in Pages
    PROVE  /\ Browsers(ts) \cap Terminals(ts) = {}
           /\ Browsers(ts) \subseteq Nat \ {0} /\ Terminals(ts) \subseteq Nat \ {0}
<1>1. ts \in Seq(PageType) /\ Distinct(ts)
  BY DEF Pages
<1>2. \A i \in DOMAIN ts : ts[i] \in PageType
  BY <1>1
<1> QED BY <1>1, <1>2 DEF Distinct, Browsers, Terminals, PageType

Viewing(p, V) == [p EXCEPT !.views = V]
LEMMA ViewingGood ==
    ASSUME NEW v \in Window, NEW p \in AppType, NEW l, NEW x \in Context, Good(v, p, l, x),
           NEW V, V \subseteq Browsers(p.pages), Alive(p) \/ V = {}
    PROVE  /\ Viewing(p, V) \in AppType /\ Viewing(p, V).views = V
           /\ Good(v, Viewing(p, V), l, x)
<1> DEFINE q == Viewing(p, V)
<1>1. p.pages \in Pages
  BY DEF AppType
<1>2. V \subseteq Nat
  BY <1>1, KindsApart
<1>3. q \in AppType
  BY <1>2 DEF AppType, Viewing
<1>4. /\ q.conn = p.conn /\ q.live = p.live /\ q.life = p.life /\ q.pages = p.pages
      /\ q.active = p.active /\ q.initial = p.initial
      /\ q.early = p.early /\ q.views = V /\ q.missed = p.missed
  BY DEF AppType, Viewing
<1> HIDE DEF q
<1>5. Placed(q) /\ Bound(q, l, v, x) /\ Follows(v, q, l, x.at) /\ Shown(q)
  BY <1>4 DEF Good, Placed, Bound, Follows, Online, Shown, Alive
<1>6. Keyed(q, l.out, heard[v], x) /\ (Quiet(p) => Quiet(q)) /\ (Alive(p) => Alive(q))
  BY <1>4 DEF Good, Keyed, Quiet, Alive
<1>7. Claimed(v, p, l, x.at) => Claimed(v, q, l, x.at)
  BY <1>4 DEF Claimed, Online
<1> QED BY <1>3, <1>4, <1>5, <1>6, <1>7 DEF Good, q

Moved(ui, w, id, from) ==
    [v \in Window |-> IF v = w THEN [ui.win[v] EXCEPT !.views = @ \cup {id}]
                      ELSE IF v \in from THEN [ui.win[v] EXCEPT !.views = @ \ {id}]
                      ELSE ui.win[v]]
LEMMA MovedKeeps ==
    ASSUME NEW ui, NEW c, J(ui, c), NEW w \in Window, NEW id, HasBrowser(ui.win[w].pages, id),
           Alive(ui.win[w]), NEW from,
           \A v \in Window \ {w} : id \in ui.win[v].views => v \in from
    PROVE  J([win |-> Moved(ui, w, id, from), link |-> ui.link], c)
<1> DEFINE ws == Moved(ui, w, id, from)
           V(v) == IF v = w THEN ui.win[v].views \cup {id}
                   ELSE IF v \in from THEN ui.win[v].views \ {id} ELSE ui.win[v].views
<1>1. /\ ui.win \in [Window -> AppType] /\ ui.link \in [Window -> LinkType]
      /\ c \in [Window -> Context] /\ Disjoint(ui.win)
      /\ \A v \in Window : Good(v, ui.win[v], ui.link[v], c[v])
  BY DEF J, UiType
<1>2. ASSUME NEW v \in Window
      PROVE  /\ ws[v] = Viewing(ui.win[v], V(v)) \/ (ws[v] = ui.win[v] /\ V(v) = ui.win[v].views)
             /\ V(v) \subseteq Browsers(ui.win[v].pages) /\ (Alive(ui.win[v]) \/ V(v) = {})
  <2>1. Placed(ui.win[v])
    BY <1>1 DEF Good
  <2>2. v = w => id \in Browsers(ui.win[v].pages)
    BY Kinds
  <2>3. ws[v] = Viewing(ui.win[v], V(v)) \/ (ws[v] = ui.win[v] /\ V(v) = ui.win[v].views)
    <3>1. ws[v] = IF v = w THEN [ui.win[v] EXCEPT !.views = @ \cup {id}]
                  ELSE IF v \in from THEN [ui.win[v] EXCEPT !.views = @ \ {id}] ELSE ui.win[v]
      BY DEF Moved
    <3> DEFINE P == ui.win[v].views \cup {id}
               M == ui.win[v].views \ {id}
    <3>5. /\ [ui.win[v] EXCEPT !.views = @ \cup {id}] = Viewing(ui.win[v], P)
          /\ [ui.win[v] EXCEPT !.views = @ \ {id}] = Viewing(ui.win[v], M)
      BY DEF Viewing
    <3>6. V(v) = IF v = w THEN P ELSE IF v \in from THEN M ELSE ui.win[v].views
      OBVIOUS
    <3> HIDE DEF P, M, V
    <3>2. CASE v = w
      BY <3>1, <3>2, <3>5, <3>6
    <3>3. CASE v # w /\ v \in from
      BY <3>1, <3>3, <3>5, <3>6
    <3>4. CASE v # w /\ v \notin from
      BY <3>1, <3>4, <3>6
    <3> QED BY <3>2, <3>3, <3>4
  <2> QED BY <2>1, <2>2, <2>3 DEF Placed
<1>3. \A v \in Window : V(v) = {} \/ V(v) # {}
  OBVIOUS
<1>4. \A v, z \in Window : v # z => V(v) \cap V(z) = {}
  BY <1>1 DEF Disjoint
<1> HIDE DEF V, ws
<1>5. ASSUME NEW v \in Window
      PROVE  ws[v] \in AppType /\ ws[v].views = V(v) /\ Good(v, ws[v], ui.link[v], c[v])
  BY <1>1, <1>2, ViewingGood
<1>6. ws \in [Window -> AppType]
  BY <1>5 DEF ws, Moved
<1>7. Disjoint(ws)
  BY <1>4, <1>5 DEF Disjoint
<1>8. [win |-> ws, link |-> ui.link] \in UiType
  BY <1>1, <1>6 DEF UiType
<1> QED BY <1>1, <1>5, <1>7, <1>8 DEF J, ws

LEMMA FocusType ==
    ASSUME NEW id \in Nat
    PROVE  Focus(id) \in MessageType /\ Focus(id).kind # "input"
  BY DEF Focus, Message, MessageType

(* Nothing is claimed if the tab shown is not a live terminal.               *)
LEMMA UnclaimedKeeps ==
    ASSUME NEW ui, NEW c, J(ui, c), NEW w \in Window,
           ~HasTerminal(ui.win[w].pages, ui.win[w].active)
    PROVE  J(ui, At(c, w, Without(c[w], "claim")))
<1> DEFINE p == ui.win[w]
          x == c[w]
          y == Without(x, "claim")
<1>1. /\ y.at = x.at /\ y.in = x.in /\ y.later = x.later /\ y.top = x.top /\ y.alive = x.alive
      /\ y.off = x.off \ {"claim"} /\ y \in Context
  BY Same, WithoutType DEF Context, Without
<1>2. Good(w, p, ui.link[w], x)
  BY Same
<1>3. p.active \notin p.live
  BY <1>2, Kinds DEF Good, Placed
<1>4. ui.win[w] \in AppType /\ ui.win \in [Window -> AppType] /\ ui = [win |-> ui.win, link |-> ui.link]
  BY DEF J, UiType
<1>5. [ui.win EXCEPT ![w] = ui.win[w]] = ui.win
  BY <1>4
<1>6. With(ui, w, ui.win[w]) = ui
  BY <1>4, <1>5 DEF With
<1> HIDE DEF p, x, y
<1>7. Bound(p, ui.link[w], w, y) /\ Keyed(p, ui.link[w].out, heard[w], y)
  BY <1>1, <1>2 DEF Good, Bound, Keyed
<1>8. Claimed(w, p, ui.link[w], y.at)
  BY <1>3 DEF Claimed
<1>9. Good(w, p, ui.link[w], y)
  BY <1>1, <1>2, <1>7, <1>8 DEF Good
<1>10. J(With(ui, w, ui.win[w]), At(c, w, y))
  BY <1>1, <1>4, <1>9, OneApp DEF p
<1> QED BY <1>6, <1>10 DEF y, x

LEMMA ClaimKeeps ==
    ASSUME NEW ui, NEW c, J(ui, c), NEW w \in Window, NEW id \in Nat, Alive(ui.win[w])
    PROVE  /\ J(ClaimBrowser(ui, w, id), c)
           /\ (id = ui.win[w].active /\ ~HasTerminal(ui.win[w].pages, id))
                  => J(ClaimBrowser(ui, w, id), At(c, w, Without(c[w], "claim")))
           /\ \A v \in Window : /\ ClaimBrowser(ui, w, id).win[v].active = ui.win[v].active
                                /\ ClaimBrowser(ui, w, id).win[v].pages = ui.win[v].pages
                                /\ ClaimBrowser(ui, w, id).win[v].life = ui.win[v].life
<1>1. CASE ~HasBrowser(ui.win[w].pages, id)
  BY <1>1, UnclaimedKeeps DEF ClaimBrowser
<1>2. CASE HasBrowser(ui.win[w].pages, id)
  <2> DEFINE from == IF id \in ui.win[w].views \/ Holders(ui, w, id) = {} THEN {}
                     ELSE {CHOOSE v \in Holders(ui, w, id) : TRUE}
            u == [win |-> Moved(ui, w, id, from), link |-> ui.link]
  <2>1. ClaimBrowser(ui, w, id) = Send(u, w, Focus(id))
    BY <1>2 DEF ClaimBrowser, Moved, Apply
  <2>2. ASSUME NEW v \in Window \ {w}, id \in ui.win[v].views PROVE v \in from
    <3>1. Disjoint(ui.win) /\ Good(v, ui.win[v], ui.link[v], c[v])
      BY DEF J
    <3>2. id \notin ui.win[w].views
      BY <2>2, <3>1 DEF Disjoint
    <3>3. Alive(ui.win[v]) /\ HasBrowser(ui.win[v].pages, id)
      BY <2>2, <3>1, Kinds DEF Good, Placed
    <3>4. v \in Holders(ui, w, id)
      BY <2>2, <3>3 DEF Holders, Others
    <3>5. \A h \in Holders(ui, w, id) : h = v
      BY <2>2, <3>1 DEF Holders, Others, Disjoint
    <3> QED BY <3>2, <3>4, <3>5
  <2> HIDE DEF from
  <2>3. J(u, c)
    BY <1>2, <2>2, MovedKeeps
  <2>4. \A v \in Window : /\ u.win[v].active = ui.win[v].active /\ u.win[v].pages = ui.win[v].pages
                          /\ u.win[v].life = ui.win[v].life
    <3>1. ui.win \in [Window -> AppType]
      BY DEF J, UiType
    <3> QED BY <3>1 DEF Moved, AppType
  <2>5. u \in UiType
    BY <2>3 DEF J
  <2> HIDE DEF u
  <2>6. J(Send(u, w, Focus(id)), c)
    BY <2>3, FocusType, SendKeeps
  <2>7. id = ui.win[w].active => J(Send(u, w, Focus(id)), At(c, w, Without(c[w], "claim")))
    BY <2>3, <2>4, FocusType, SendKeeps
  <2> QED BY <2>1, <2>4, <2>5, <2>6, <2>7, SendShape
<1> QED BY <1>1, <1>2

LEMMA ActivateKeeps ==
    ASSUME NEW ui \in UiType, NEW c, NEW w \in Window, NEW id \in Nat,
           J(With(ui, w, [ui.win[w] EXCEPT !.active = id]), c), Alive(ui.win[w])
    PROVE  /\ J(Activate(ui, w, id), At(c, w, Without(c[w], "claim")))
           /\ Activate(ui, w, id).win[w].active = id
           /\ Activate(ui, w, id).win[w].life = ui.win[w].life
<1> DEFINE u == With(ui, w, [ui.win[w] EXCEPT !.active = id])
<1>1. ui.win \in [Window -> AppType] /\ ui.win[w] \in AppType
  BY DEF UiType
<1>2. u.win[w].active = id /\ u.win[w].pages = ui.win[w].pages /\ u.win[w].life = ui.win[w].life
  BY <1>1 DEF With, AppType
<1>3. Alive(u.win[w])
  BY <1>2 DEF Alive
<1>4. Activate(ui, w, id) = IF HasTerminal(ui.win[w].pages, id) THEN Send(u, w, Focus(id))
                            ELSE ClaimBrowser(u, w, id)
  BY DEF Activate, Apply
<1> HIDE DEF u
<1>5. J(u, c) /\ u \in UiType
  BY DEF u, J
<1>6. CASE HasTerminal(ui.win[w].pages, id)
  BY <1>2, <1>4, <1>5, <1>6, FocusType, SendKeeps, SendShape
<1>7. CASE ~HasTerminal(ui.win[w].pages, id)
  BY <1>2, <1>3, <1>4, <1>5, <1>7, ClaimKeeps
<1> QED BY <1>6, <1>7

-----------------------------------------------------------------------------
(* Keys. *)

(* Another count of tabs that are to come; a tab that never comes is noted.  *)
Counting(p, n, b) == [p EXCEPT !.pending = n, !.missed = b]
LEMMA CountingGood ==
    ASSUME NEW v \in Window, NEW p \in AppType, NEW l, NEW x \in Context, Good(v, p, l, x),
           NEW n \in Nat, NEW b \in BOOLEAN, p.missed => b
    PROVE  /\ Counting(p, n, b) \in AppType /\ Counting(p, n, b).views = p.views
           /\ Good(v, Counting(p, n, b), l, x)
<1> DEFINE q == Counting(p, n, b)
<1>1. q \in AppType
  BY DEF AppType, Counting
<1>2. /\ q.conn = p.conn /\ q.live = p.live /\ q.life = p.life /\ q.pages = p.pages
      /\ q.active = p.active /\ q.initial = p.initial
      /\ q.early = p.early /\ q.views = p.views /\ q.missed = b
  BY DEF AppType, Counting
<1> HIDE DEF q
<1>3. Placed(q) /\ Bound(q, l, v, x) /\ Follows(v, q, l, x.at) /\ (Shown(p) => Shown(q))
  BY <1>2 DEF Good, Placed, Bound, Follows, Online, Shown, Alive
<1>4. Keyed(q, l.out, heard[v], x) /\ (Quiet(p) => Quiet(q)) /\ (Alive(p) => Alive(q))
  BY <1>2 DEF Good, Keyed, Quiet, Alive
<1>5. Claimed(v, p, l, x.at) => Claimed(v, q, l, x.at)
  BY <1>2 DEF Claimed, Online
<1> QED BY <1>1, <1>2, <1>3, <1>4, <1>5 DEF Good, q

LEMMA PlainType ==
    ASSUME NEW id \in Nat, NEW kind \in {"browser", "new", "close"}
    PROVE  Message(kind, id, 0) \in MessageType /\ Message(kind, id, 0).kind # "input"
  BY DEF Message, MessageType

LEMMA NewTabKeeps ==
    ASSUME NEW ui, NEW c, J(ui, c), NEW w \in Window
    PROVE  J(NewTab(ui, w), c)
<1> DEFINE p == ui.win[w]
           n == p.pending + 1
           b == p.missed \/ ~p.conn
           u == With(ui, w, Counting(p, n, b))
<1>1. p \in AppType /\ c[w] \in Context /\ Good(w, p, ui.link[w], c[w]) /\ At(c, w, c[w]) = c
  BY Same
<1>2. n \in Nat /\ b \in BOOLEAN /\ (p.missed => b)
  BY <1>1 DEF AppType
<1>3. NewTab(ui, w) = Send(u, w, Message("new", NoTab, 0))
  BY DEF NewTab, Counting
<1> HIDE DEF n, b
<1>4. J(u, c)
  BY <1>1, <1>2, CountingGood, OneApp
<1> QED BY <1>3, <1>4, PlainType, SendKeeps DEF NoTab

(* A key is buffered, or there is no room for it.                            *)
Held(p, ks) == [p EXCEPT !.early = ks]
LEMMA HeldGood ==
    ASSUME NEW v \in Window, NEW p \in AppType, NEW l, NEW x \in Context, Good(v, p, l, x),
           NEW k \in KeyType, k.n \in x.later, \A n \in x.later : n # k.n => k.n < n,
           p.active = NoTab
    PROVE  LET q == Held(p, Append(p.early, k)) IN
           q \in AppType /\ q.views = p.views /\ Good(v, q, l, Fewer(x, k.n))
<1> DEFINE q == Held(p, Append(p.early, k))
          y == Fewer(x, k.n)
          e == Len(p.early) + 1
<1>1. p.early \in Seq(KeyType)
  BY DEF AppType
<1>2. Append(p.early, k) \in Seq(KeyType)
  BY <1>1
<1>3. q \in AppType
  BY <1>2 DEF AppType, Held
<1>4. /\ q.conn = p.conn /\ q.live = p.live /\ q.life = p.life /\ q.pages = p.pages
      /\ q.active = p.active /\ q.initial = p.initial /\ q.missed = p.missed
      /\ q.early = Append(p.early, k) /\ q.views = p.views
  BY DEF AppType, Held
<1>5. /\ DOMAIN q.early = DOMAIN p.early \cup {e} /\ q.early[e] = k
      /\ \A i \in DOMAIN p.early : q.early[i] = p.early[i] /\ i < e
      /\ e \in Nat /\ DOMAIN p.early \subseteq Nat
  BY <1>1, <1>4
<1>6. /\ y.at = x.at /\ y.in = x.in /\ y.later = x.later \ {k.n} /\ y.top = x.top
      /\ y.alive = x.alive /\ y.off = x.off
  BY DEF Context, Fewer
<1>7. k.n \in Nat
  BY DEF KeyType
<1> HIDE DEF q, y, e
<1>8. Placed(q) /\ Bound(q, l, v, y) /\ Follows(v, q, l, y.at) /\ Shown(q) /\ Quiet(q)
  BY <1>4, <1>6 DEF Good, Placed, Bound, Follows, Online, Shown, Quiet, Alive
<1>9. Keyed(q, l.out, heard[v], y)
  <2>1. k.n <= x.top
    BY DEF Good, Keyed
  <2>3. \A i \in DOMAIN p.early : p.early[i].n < k.n
    BY DEF Good, Keyed
  <2>2. ASSUME ~p.missed
        PROVE  /\ InOrder(heard[v], l.out, q.early)
               /\ \A n \in y.later : heard[v] < n /\ \A i \in Inputs(l.out) : l.out[i].key < n
    <3>1. /\ InOrder(heard[v], l.out, p.early)
          /\ \A n \in x.later : heard[v] < n /\ \A i \in Inputs(l.out) : l.out[i].key < n
      BY <2>2 DEF Good, Keyed
    <3>2. InOrder(heard[v], l.out, q.early)
      BY <2>3, <3>1, <1>5, <1>7 DEF InOrder
    <3> QED BY <3>1, <3>2, <1>6
  <2>4. Ascending(p.early)
    BY DEF Good, Keyed
  <2>5. Ascending(q.early)
    BY <2>3, <2>4, <1>5 DEF Ascending
  <2>6. \A n \in y.later : n <= x.top /\ \A i \in DOMAIN q.early : q.early[i].n < n
    BY <1>5, <1>6 DEF Good, Keyed
  <2>7. \A i \in DOMAIN q.early : q.early[i].n <= x.top
    BY <2>1, <1>5 DEF Good, Keyed
  <2> QED BY <2>2, <2>5, <2>6, <2>7, <1>4, <1>6 DEF Good, Keyed
<1>10. Claimed(v, p, l, x.at) => Claimed(v, q, l, y.at)
  BY <1>4, <1>6 DEF Claimed, Online
<1>11. Good(v, q, l, y)
  BY <1>4, <1>6, <1>8, <1>9, <1>10 DEF Good, Alive
<1> QED BY <1>3, <1>4, <1>11 DEF q, y

LEMMA WithoutNothing ==
    ASSUME NEW x \in Context, NEW f, f \notin x.off
    PROVE  Without(x, f) = x
<1>1. x.off \ {f} = x.off
  OBVIOUS
<1> QED BY <1>1 DEF Context, Without

LEMMA KeyKeeps ==
    ASSUME NEW ui, NEW c, J(ui, c), NEW w \in Window, NEW k \in KeyType, c[w].off = {},
           Alive(ui.win[w]),
           k.n \in c[w].later, \A n \in c[w].later : n # k.n => k.n < n
    PROVE  J(Key(ui, w, k), At(c, w, Fewer(c[w], k.n)))
<1> DEFINE p == ui.win[w]
          d == At(c, w, Fewer(c[w], k.n))
<1>1. /\ p \in AppType /\ c[w] \in Context /\ Good(w, p, ui.link[w], c[w]) /\ At(c, w, c[w]) = c
      /\ Fewer(c[w], k.n) \in Context
  BY Same, FewerGood
<1>2. J(ui, d)
  BY FewerKeeps
<1>3. CASE Buffering(p)
  <2>1. p.active = NoTab
    BY <1>3 DEF Buffering
  <2> DEFINE q == Held(p, Append(p.early, k))
  <2>2. q \in AppType /\ q.views = p.views /\ Good(w, q, ui.link[w], Fewer(c[w], k.n))
    BY <1>1, <2>1, HeldGood
  <2>3. J(With(ui, w, q), d)
    BY <1>1, <2>2, OneApp
  <2>4. CASE Len(p.early) < KeyLimit
    <3>1. Key(ui, w, k) = With(ui, w, q)
      BY <1>3, <2>4 DEF Key, Held
    <3> QED BY <2>3, <3>1
  <2>5. CASE ~(Len(p.early) < KeyLimit)
    <3>1. [p EXCEPT !.early = p.early] = p
      BY <1>1 DEF AppType
    <3>2. Key(ui, w, k) = With(ui, w, p)
      BY <1>3, <2>5, <3>1 DEF Key
    <3>3. Good(w, p, ui.link[w], Fewer(c[w], k.n))
      BY <1>1, FewerGood
    <3> QED BY <1>1, <3>2, <3>3, OneApp
  <2> QED BY <2>4, <2>5
<1>4. CASE ~Buffering(p) /\ k.what = "new"
  <2>1. Key(ui, w, k) = IF HasBrowser(p.pages, p.active)
                        THEN Send(ui, w, Message("browser", NoTab, 0)) ELSE NewTab(ui, w)
    BY <1>4 DEF Key
  <2>2. J(Key(ui, w, k), c)
    BY <2>1, PlainType, SendKeeps, NewTabKeeps DEF NoTab
  <2> QED BY <2>2, FewerKeeps
<1>5. CASE ~Buffering(p) /\ k.what = "close"
  <2>1. Key(ui, w, k) = Send(ui, w, Message("close", p.active, 0))
    BY <1>5 DEF Key
  <2>2. p.active \in Nat
    BY <1>1 DEF AppType
  <2>3. J(Key(ui, w, k), c)
    BY <2>1, <2>2, PlainType, SendKeeps
  <2> QED BY <2>3, FewerKeeps
<1>6. CASE ~Buffering(p) /\ k.what = "text"
  <2> DEFINE u == IF p.active \in p.live THEN ui ELSE Activate(ui, w, p.active)
  <2>1. Key(ui, w, k) = IF ~HasTerminal(p.pages, p.active) THEN ui
                        ELSE Send(u, w, Message("input", p.active, k.n))
    BY <1>6 DEF Key
  <2>2. CASE ~HasTerminal(p.pages, p.active)
    BY <1>2, <2>1, <2>2
  <2>3. CASE HasTerminal(p.pages, p.active)
    <3>1. p.active \in Nat /\ p.active # NoTab
      BY <1>1, <2>3, Kinds, KindsApart DEF AppType, NoTab
    <3>2. With(ui, w, [p EXCEPT !.active = p.active]) = ui
      <4>1. [p EXCEPT !.active = p.active] = p
        BY <1>1 DEF AppType
      <4>2. ui.win \in [Window -> AppType] /\ ui = [win |-> ui.win, link |-> ui.link]
        BY DEF J, UiType
      <4> QED BY <4>1, <4>2 DEF With
    <3>3. J(Activate(ui, w, p.active), c) /\ Activate(ui, w, p.active).win[w].active = p.active
      <4>1. ui \in UiType
        BY DEF J
      <4>2. Without(c[w], "claim") = c[w]
        BY <1>1, WithoutNothing
      <4> QED BY <4>1, <4>2, <3>1, <3>2, <1>1, ActivateKeeps
    <3>4. J(u, c) /\ u.win[w].active = p.active
      BY <3>3
    <3> HIDE DEF u
    <3> DEFINE m == Message("input", p.active, k.n)
    <3>5. m \in MessageType /\ m.kind = "input" /\ m.key = k.n
      BY <3>1 DEF Message, MessageType, KeyType
    <3>6. Key(ui, w, k) = Send(u, w, m)
      BY <2>1, <2>3
    <3> HIDE DEF m
    <3> QED BY <3>1, <3>4, <3>5, <3>6, SendKey
  <2> QED BY <2>2, <2>3
<1> QED BY <1>3, <1>4, <1>5, <1>6 DEF KeyType

-----------------------------------------------------------------------------
(* Chains of steps, one per key, packet or view. *)

LEMMA LeastExists ==
    ASSUME NEW T, T \subseteq Nat, T # {}
    PROVE  \E n \in T : \A m \in T : n <= m
<1> DEFINE less == OpToRel(<, Nat)
<1>1. IsWellFoundedOn(less, Nat)
  BY NatLessThanWellFounded
<1>2. \A x, y \in Nat : x < y => <<x, y>> \in less
  BY DEF OpToRel
<1> HIDE DEF less
<1>3. PICK n \in T : \A m \in T : ~(<<m, n>> \in less)
  BY <1>1, WFMin
<1>4. \A m \in T : m \in Nat /\ n \in Nat /\ ~(m < n)
  BY <1>2, <1>3
<1> QED BY <1>4

(* What holds at 0 and is passed on holds up to n.                           *)
LEMMA Upto ==
    ASSUME NEW n \in Nat, NEW S, 0 \in S, \A k \in 0..n : k \in S /\ k < n => k + 1 \in S
    PROVE  \A k \in 0..n : k \in S
<1> DEFINE T == (0..n) \ S
<1> SUFFICES ASSUME T # {} PROVE FALSE
  OBVIOUS
<1>1. PICK k \in T : \A m \in T : k <= m
  <2>1. T \subseteq Nat
    OBVIOUS
  <2> QED BY <2>1, LeastExists
<1>2. k \in 0..n /\ k \notin S /\ k # 0
  BY <1>1
<1>3. k - 1 \in 0..n /\ k - 1 < n /\ ~(k <= k - 1) /\ (k - 1) + 1 = k
  BY <1>2
<1>4. k - 1 \in S
  BY <1>1, <1>3
<1> QED BY <1>2, <1>3, <1>4

IsChain(f, u, G, n) == f = [k \in 0..n |-> IF k = 0 THEN u ELSE G[<<k, f[k - 1]>>]]

LEMMA ChainExtends ==
    ASSUME NEW f, NEW u, NEW G, NEW n \in Nat, IsChain(f, u, G, n)
    PROVE  \E g : IsChain(g, u, G, n + 1)
<1> DEFINE g == [k \in 0..(n + 1) |-> IF k = n + 1 THEN G[<<n + 1, f[n]>>] ELSE f[k]]
<1>1. \A k \in 0..n : f[k] = IF k = 0 THEN u ELSE G[<<k, f[k - 1]>>]
  BY DEF IsChain
<1>2. /\ g[n + 1] = G[<<n + 1, f[n]>>]
      /\ \A k \in 0..n : g[k] = f[k]
  <2>1. n + 1 \in 0..(n + 1) /\ \A k \in 0..n : k \in 0..(n + 1) /\ k # n + 1
    OBVIOUS
  <2> QED BY <2>1, Zenon
<1>3. ASSUME NEW k \in 0..(n + 1)
      PROVE  g[k] = IF k = 0 THEN u ELSE G[<<k, g[k - 1]>>]
  <2>1. CASE k = n + 1
    <3>1. k - 1 = n /\ k # 0 /\ n \in 0..n
      BY <2>1
    <3> QED BY <1>2, <2>1, <3>1
  <2>2. CASE k # n + 1
    <3>1. k \in 0..n /\ (k # 0 => k - 1 \in 0..n)
      BY <2>2
    <3> QED BY <1>1, <1>2, <3>1
  <2> QED BY <2>1, <2>2
<1>4. g = [k \in 0..(n + 1) |-> g[k]]
  OBVIOUS
<1> HIDE DEF g
<1>5. IsChain(g, u, G, n + 1)
  BY <1>3, <1>4 DEF IsChain
<1> QED BY <1>5

LEMMA ChainExists ==
    ASSUME NEW u, NEW G, NEW n \in Nat
    PROVE  \E f : IsChain(f, u, G, n)
<1> DEFINE S == {k \in Nat : \E f : IsChain(f, u, G, k)}
<1>1. IsChain([j \in 0..0 |-> u], u, G, 0)
  BY DEF IsChain
<1>2. 0 \in S
  BY <1>1
<1>3. \A k \in 0..n : k \in S /\ k < n => k + 1 \in S
  BY ChainExtends
<1> HIDE DEF S
<1>4. n \in S
  BY <1>2, <1>3, Upto
<1> QED BY <1>4 DEF S

(* The keys of a drain, pressed one after the other.                         *)
Later(x, L) == [x EXCEPT !.later = L]
Numbers(ks, k) == {ks[i].n : i \in {j \in DOMAIN ks : j > k}}
IsPressing(f, ui, w, ks) ==
    f = [k \in 0..Len(ks) |-> IF k = 0 THEN ui ELSE Key(f[k - 1], w, ks[k])]

LEMMA PressingKeeps ==
    ASSUME NEW ui, NEW c, J(ui, c), NEW w \in Window, NEW ks \in Seq(KeyType), Ascending(ks),
           c[w].off = {}, c[w].alive, c[w].later = Numbers(ks, 0),
           NEW f, f[0] = ui,
           \A k \in 1..Len(ks) : f[k - 1] \in UiType => f[k] = Key(f[k - 1], w, ks[k])
    PROVE  \A k \in 0..Len(ks) : J(f[k], At(c, w, Later(c[w], Numbers(ks, k))))
<1> DEFINE x(k) == Later(c[w], Numbers(ks, k))
          S == {k \in 0..Len(ks) : J(f[k], At(c, w, x(k)))}
<1>1. c[w] \in Context /\ At(c, w, c[w]) = c /\ c \in [Window -> Context]
  BY Same DEF J
<1>2. Len(ks) \in Nat /\ DOMAIN ks = 1..Len(ks) /\ \A i \in DOMAIN ks : ks[i] \in KeyType /\ ks[i].n \in Nat
  <2>1. \A i \in DOMAIN ks : ks[i] \in KeyType
    OBVIOUS
  <2> QED BY <2>1 DEF KeyType
<1>15. \A k \in Nat : Numbers(ks, k) \subseteq Nat
  BY <1>2 DEF Numbers
<1>3. \A k \in Nat : /\ x(k) \in Context /\ x(k).off = {} /\ x(k).alive
                     /\ x(k).later = Numbers(ks, k)
  BY <1>1, <1>15 DEF Later, Context
<1>4. \A k \in Nat : At(c, w, x(k))[w] = x(k)
  BY <1>1, <1>3 DEF At
<1>5. 0 \in S
  <2>1. x(0) = c[w]
    BY <1>1 DEF Later, Context
  <2> QED BY <1>1, <1>2, <2>1
<1>6. ASSUME NEW k \in 0..Len(ks), k \in S, k < Len(ks) PROVE k + 1 \in S
  <2> DEFINE d == At(c, w, x(k))
             key == ks[k + 1]
  <2>1. J(f[k], d) /\ k \in Nat /\ k + 1 \in 1..Len(ks) /\ k + 1 \in Nat
    BY <1>6, <1>2
  <2>2. f[k + 1] = Key(f[k], w, key)
    BY <2>1 DEF J
  <2>3. key \in KeyType /\ key.n \in Numbers(ks, k) /\ Numbers(ks, k + 1) = Numbers(ks, k) \ {key.n}
        /\ \A n \in Numbers(ks, k) : n # key.n => key.n < n
    BY <1>2, <2>1 DEF Numbers, Ascending
  <2>4. Alive(f[k].win[w])
    BY <1>3, <1>4, <2>1 DEF J, Good
  <2>5. J(Key(f[k], w, key), At(d, w, Fewer(d[w], key.n)))
    BY <1>3, <1>4, <2>1, <2>3, <2>4, KeyKeeps
  <2>6. Fewer(x(k), key.n) = x(k + 1)
    BY <1>1, <2>3 DEF Fewer, Later, Context
  <2>7. At(d, w, Fewer(d[w], key.n)) = At(c, w, x(k + 1))
    BY <1>1, <1>4, <2>1, <2>6 DEF At
  <2> QED BY <2>1, <2>2, <2>5, <2>7
<1> HIDE DEF S
<1>7. \A k \in 0..Len(ks) : k \in S
  BY <1>2, <1>5, <1>6, Upto
<1> QED BY <1>7 DEF S

LEMMA KeysKeep ==
    ASSUME NEW ui, NEW c, J(ui, c), NEW w \in Window, NEW ks \in Seq(KeyType), Ascending(ks),
           c[w].off = {}, c[w].alive, c[w].later = Numbers(ks, 0)
    PROVE  J(Keys(ui, w, ks), At(c, w, Later(c[w], {})))
<1> DEFINE n == Len(ks)
          G == [a \in (1..n) \X UiType |-> Key(a[2], w, ks[a[1]])]
          g == CHOOSE f : f = [k \in 0..Len(ks) |->
                   IF k = 0 THEN ui ELSE Apply(LAMBDA u : Key(u, w, ks[k]), f[k - 1])]
<1>1. n \in Nat
  OBVIOUS
<1>2. PICK h : IsChain(h, ui, G, n)
  BY <1>1, ChainExists
<1> HIDE DEF G
<1>15. \A k \in 0..n : h[k] = IF k = 0 THEN ui ELSE G[<<k, h[k - 1]>>]
  BY <1>2 DEF IsChain
<1>16. 0 \in 0..n /\ \A k \in 1..n : k \in 0..n /\ k # 0 /\ k - 1 \in 0..n
  BY <1>1
<1>3. h[0] = ui /\ \A k \in 1..n : h[k] = G[<<k, h[k - 1]>>]
  BY <1>15, <1>16
<1>4. \A k \in 1..n : h[k - 1] \in UiType => h[k] = Key(h[k - 1], w, ks[k])
  BY <1>3 DEF G
<1>5. \A k \in 0..n : h[k] \in UiType
  BY <1>3, <1>4, PressingKeeps DEF J
<1>6. \A k \in 1..n : h[k] = Key(h[k - 1], w, ks[k])
  BY <1>16, <1>4, <1>5
<1>17. ASSUME NEW k \in 0..n PROVE h[k] = IF k = 0 THEN ui ELSE Key(h[k - 1], w, ks[k])
  <2>1. CASE k = 0
    BY <1>3, <2>1
  <2>2. CASE k # 0
    <3>1. k \in 1..n
      BY <1>1, <2>2
    <3> QED BY <1>6, <2>2, <3>1
  <2> QED BY <2>1, <2>2
<1>18. h = [k \in 0..n |-> h[k]]
  BY <1>2 DEF IsChain
<1>7. IsPressing(h, ui, w, ks)
  BY <1>17, <1>18 DEF IsPressing
<1>8. \A f, k : Apply(LAMBDA u : Key(u, w, ks[k]), f[k - 1]) = Key(f[k - 1], w, ks[k])
  BY DEF Apply
<1>9. \E f : f = [k \in 0..Len(ks) |->
                   IF k = 0 THEN ui ELSE Apply(LAMBDA u : Key(u, w, ks[k]), f[k - 1])]
  BY <1>7, <1>8 DEF IsPressing
<1>10. g = [k \in 0..Len(ks) |->
                   IF k = 0 THEN ui ELSE Apply(LAMBDA u : Key(u, w, ks[k]), g[k - 1])]
  BY <1>9
<1>11. Keys(ui, w, ks) = g[n]
  BY DEF Keys
<1> HIDE DEF g
<1>19. \A k \in 0..n : g[k] = IF k = 0 THEN ui ELSE Key(g[k - 1], w, ks[k])
  BY <1>8, <1>10
<1>12. g[0] = ui /\ \A k \in 1..n : g[k] = Key(g[k - 1], w, ks[k])
  BY <1>16, <1>19
<1>13. J(g[n], At(c, w, Later(c[w], Numbers(ks, n))))
  BY <1>1, <1>12, PressingKeeps
<1>14. Numbers(ks, n) = {}
  BY <1>1 DEF Numbers
<1> QED BY <1>11, <1>13, <1>14

-----------------------------------------------------------------------------
(* Packets. *)

LEMMA DrainKeeps ==
    ASSUME NEW ui, NEW c, J(ui, c), NEW w \in Window, c[w].off \subseteq {"early"}, c[w].alive,
           c[w].later = {}
    PROVE  J(Drain(ui, w), At(c, w, Without(c[w], "early")))
<1> DEFINE p == ui.win[w]
          l == ui.link[w]
          x == c[w]
          z == Without(x, "early")
          y == Later(z, Numbers(p.early, 0))
          q == Held(p, <<>>)
<1>1. /\ p \in AppType /\ l \in LinkType /\ x \in Context /\ Good(w, p, l, x)
      /\ c \in [Window -> Context]
  BY Same DEF J
<1>2. /\ z \in Context /\ z.off = {} /\ z.at = x.at /\ z.in = x.in /\ z.later = {} /\ z.top = x.top
      /\ z.alive = x.alive
  BY <1>1 DEF Context, Without
<1>3. p.early \in Seq(KeyType)
  BY <1>1 DEF AppType
<1>4. Numbers(p.early, 0) \subseteq Nat
  <2>1. \A i \in DOMAIN p.early : p.early[i] \in KeyType
    BY <1>3
  <2> QED BY <2>1 DEF Numbers, KeyType
<1> HIDE DEF p, l, x, z
<1>5. /\ y \in Context /\ y.off = {} /\ y.at = x.at /\ y.in = x.in /\ y.top = x.top
      /\ y.later = Numbers(p.early, 0) /\ y.alive = x.alive /\ Later(y, {}) = z
  <2>1. y \in Context /\ y.off = {} /\ y.at = x.at /\ y.in = x.in /\ y.top = x.top
        /\ y.later = Numbers(p.early, 0) /\ y.alive = x.alive
    BY <1>2, <1>4 DEF Context, Later
  <2>2. Later(y, {}) = z
    BY <1>2 DEF Context, Later
  <2> QED BY <2>1, <2>2
<1>6. CASE p.early = <<>>
  <2>1. Bound(p, l, w, z) /\ Keyed(p, l.out, heard[w], z) /\ Quiet(p)
    BY <1>1, <1>2, <1>6 DEF Good, Bound, Keyed, Quiet, p, l, x
  <2>2. Good(w, p, l, z)
    BY <1>1, <1>2, <2>1 DEF Good, p, l, x
  <2>3. Drain(ui, w) = ui /\ With(ui, w, p) = ui
    <3>1. ui.win \in [Window -> AppType] /\ ui = [win |-> ui.win, link |-> ui.link]
      BY DEF J, UiType
    <3>2. Drain(ui, w) = ui
      BY <1>6 DEF Drain, p
    <3> QED BY <3>1, <3>2 DEF With, p
  <2>4. J(With(ui, w, p), At(c, w, z))
    BY <1>1, <1>2, <2>2, OneApp DEF p, l, x
  <2> QED BY <2>3, <2>4 DEF z, x
<1>7. CASE p.early # <<>>
  <2>1. /\ q \in AppType
        /\ q.conn = p.conn /\ q.live = p.live /\ q.life = p.life /\ q.pages = p.pages
        /\ q.active = p.active /\ q.initial = p.initial /\ q.missed = p.missed
        /\ q.early = <<>> /\ q.views = p.views
    <3>1. <<>> \in Seq(KeyType)
      OBVIOUS
    <3> QED BY <1>1, <3>1 DEF AppType, Held, p
  <2>2. DOMAIN <<>> = {}
    OBVIOUS
  <2> HIDE DEF q, y
  <2>3. Placed(q) /\ Bound(q, l, w, y) /\ Follows(w, q, l, y.at) /\ Shown(q) /\ Quiet(q)
    BY <1>1, <1>5, <2>1 DEF Good, Placed, Bound, Follows, Online, Shown, Quiet, Alive, p, l, x
  <2>4. Keyed(q, l.out, heard[w], y)
    <3>1. Keyed(p, l.out, heard[w], x)
      BY <1>1 DEF Good, p, l, x
    <3>2. /\ \A m \in y.later : m <= y.top
          /\ ~p.missed => \A m \in y.later : heard[w] < m /\ \A i \in Inputs(l.out) : l.out[i].key < m
      BY <3>1, <1>5 DEF Keyed, InOrder, Numbers
    <3> QED BY <3>1, <3>2, <1>5, <2>1, <2>2 DEF Keyed, InOrder, Ascending
  <2>5. Claimed(w, q, l, y.at)
    BY <1>1, <1>5, <2>1 DEF Good, Claimed, Online, p, l, x
  <2>6. Good(w, q, l, y)
    BY <1>1, <1>5, <2>1, <2>3, <2>4, <2>5 DEF Good, Alive, p, l, x
  <2>7. J(With(ui, w, q), At(c, w, y))
    BY <1>1, <1>5, <2>1, <2>6, OneApp DEF p, l, x
  <2>8. Drain(ui, w) = Keys(With(ui, w, q), w, p.early)
    BY <1>7 DEF Drain, Emptied, Held, p, q
  <2>9. Ascending(p.early)
    BY <1>1 DEF Good, Keyed, p, l, x
  <2>10. At(c, w, y)[w] = y
    BY <1>1, <1>5 DEF At
  <2>11. J(Drain(ui, w), At(At(c, w, y), w, Later(y, {})))
    <3> DEFINE d == At(c, w, y)
               u == With(ui, w, q)
    <3>1. /\ d[w].off = {} /\ d[w].alive /\ d[w].later = Numbers(p.early, 0) /\ Later(d[w], {}) = z
          /\ J(u, d)
      BY <1>5, <2>7, <2>10 DEF x
    <3>2. At(d, w, Later(d[w], {})) = At(d, w, Later(y, {}))
      BY <2>10
    <3> HIDE DEF d, u
    <3>3. J(Keys(u, w, p.early), At(d, w, Later(d[w], {})))
      BY <1>3, <2>9, <3>1, KeysKeep
    <3> QED BY <2>8, <3>2, <3>3 DEF d, u
  <2>12. At(At(c, w, y), w, z) = At(c, w, z)
    BY <1>1, <1>2, <1>5 DEF At
  <2> QED BY <1>5, <2>11, <2>12 DEF z, x
<1> QED BY <1>6, <1>7

LEMMA Notices ==
    ASSUME NEW m \in NoticeType
    PROVE  /\ m.kind \in {"created", "release", "frame", "catalog"}
           /\ m.kind = "catalog" => m.tabs \in Pages /\ m.closed \in Nat /\ m.fallback \in Nat
           /\ m.kind # "catalog" => m.tab \in Nat
  BY DEF NoticeType

(* The next packet of a read is taken.                                       *)
Advance(x, k) == [x EXCEPT !.at = k]
LEMMA AdvanceFields ==
    ASSUME NEW x \in Context, NEW k \in Nat
    PROVE  LET y == Advance(x, k) IN
           /\ y \in Context /\ y.at = k /\ y.in = x.in /\ y.later = x.later /\ y.top = x.top
           /\ y.off = x.off /\ y.alive = x.alive
  BY DEF Context, Advance

LEMMA Skip ==
    ASSUME NEW v \in Window, NEW k \in Nat \ {0}, NEW id,
           link[v].in \in Seq(NoticeType), k \in DOMAIN link[v].in
    PROVE  /\ link[v].in[k].kind # "catalog" /\ Stands(link[v].in, k - 1, id)
                  => Stands(link[v].in, k, id)
           /\ ~Dispossesses(link[v].in[k], id) /\ Explained(v, link[v].in, k - 1, id)
                  => Explained(v, link[v].in, k, id)
<1>1. \A j \in DOMAIN link[v].in : j > k - 1 => j = k \/ j > k
  OBVIOUS
<1> QED BY <1>1 DEF Stands, Doomed, Explained, Notified

(* A packet that is no catalog.                                              *)
LEMMA AdvanceGood ==
    ASSUME NEW v \in Window, NEW p \in AppType, NEW l, NEW x \in Context, Good(v, p, l, x),
           NEW k \in Nat \ {0}, x.at = k - 1,
           link[v].in \in Seq(NoticeType), k \in DOMAIN link[v].in,
           link[v].in[k].kind # "catalog", x.off = {},
           NEW r \in AppType,
           /\ r.life = p.life /\ r.conn = p.conn /\ r.pages = p.pages /\ r.active = p.active
           /\ r.initial = p.initial /\ r.early = p.early /\ r.views = p.views
           /\ r.missed = p.missed,
           r.live \subseteq Terminals(p.pages),
           \A id \in r.live : \/ id \in p.live /\ ~Dispossesses(link[v].in[k], id)
                              \/ p.conn /\ l.up => Explained(v, link[v].in, k, id)
    PROVE  Good(v, r, l, Advance(x, k))
<1> DEFINE y == Advance(x, k)
<1>1. /\ y.at = k /\ y.in = x.in /\ y.later = x.later /\ y.top = x.top /\ y.off = x.off
      /\ y.alive = x.alive
  BY AdvanceFields
<1> HIDE DEF y
<1>2. Placed(r) /\ Bound(r, l, v, y) /\ Shown(r) /\ Quiet(r) /\ (y.alive => Alive(r))
  BY <1>1 DEF Good, Placed, Bound, Shown, Quiet, Alive
<1>3. Keyed(r, l.out, heard[v], y)
  BY <1>1 DEF Good, Keyed
<1>4. Follows(v, r, l, y.at)
  BY <1>1, Skip DEF Good, Follows, Online
<1>5. Claimed(v, r, l, y.at)
  BY <1>1, Skip DEF Good, Claimed, Online
<1> QED BY <1>1, <1>2, <1>3, <1>4, <1>5 DEF Good, y

(* The tabs of a window after a catalog.                                     *)
LEMMA KeptViews ==
    ASSUME NEW ps \in Pages, NEW ts \in Pages, NEW V, NEW L,
           V \subseteq Browsers(ps), L \subseteq Terminals(ps)
    PROVE  LET kept == {t.id : t \in ToSet(ps) \cap ToSet(ts)} IN
           V \cap kept \subseteq Browsers(ts) /\ L \cap kept \subseteq Terminals(ts)
<1> DEFINE kept == {t.id : t \in ToSet(ps) \cap ToSet(ts)}
<1>1. Distinct(ps) /\ Distinct(ts)
  BY DEF Pages
<1>2. ASSUME NEW id \in kept
      PROVE  \E i \in DOMAIN ps, j \in DOMAIN ts : ps[i] = ts[j] /\ ps[i].id = id
  BY DEF ToSet
<1>3. ASSUME NEW id \in V, id \in kept PROVE id \in Browsers(ts)
  <2>1. PICK i \in DOMAIN ps, j \in DOMAIN ts : ps[i] = ts[j] /\ ps[i].id = id
    BY <1>2, <1>3
  <2>2. PICK n \in DOMAIN ps : ps[n].browser /\ ps[n].id = id
    BY <1>3 DEF Browsers
  <2>3. n = i
    BY <1>1, <2>1, <2>2 DEF Distinct
  <2> QED BY <2>1, <2>2, <2>3 DEF Browsers
<1>4. ASSUME NEW id \in L, id \in kept PROVE id \in Terminals(ts)
  <2>1. PICK i \in DOMAIN ps, j \in DOMAIN ts : ps[i] = ts[j] /\ ps[i].id = id
    BY <1>2, <1>4
  <2>2. PICK n \in DOMAIN ps : ~ps[n].browser /\ ps[n].id = id
    BY <1>4 DEF Terminals
  <2>3. n = i
    BY <1>1, <2>1, <2>2 DEF Distinct
  <2> QED BY <2>1, <2>2, <2>3 DEF Terminals
<1> QED BY <1>3, <1>4

LEMMA CatalogIs ==
    ASSUME NEW ui, NEW w, NEW m
    PROVE  LET p == ui.win[w]
               next == With(ui, w, Updated(p, m))
           IN Catalog(ui, w, m) =
                  IF Found(p, m) /\ Switches(p, m) THEN Drain(Activate(next, w, Chosen(p, m)), w)
                  ELSE Drain(next, w)
<1> DEFINE p == ui.win[w]
          next == With(ui, w, Updated(p, m))
          then == IF Found(p, m) /\ Switches(p, m) THEN Activate(next, w, Chosen(p, m)) ELSE next
<1>1. Catalog(ui, w, m) = CHOOSE y \in {Drain(v, w) : v \in {then}} : TRUE
  BY DEF Catalog, Apply
<1>2. (CHOOSE y \in {Drain(v, w) : v \in {then}} : TRUE) = Drain(then, w)
  OBVIOUS
<1> QED BY <1>1, <1>2

LEMMA UpdatedFields ==
    ASSUME NEW p \in AppType, NEW m \in NoticeType, m.kind = "catalog"
    PROVE  LET q == Updated(p, m) IN
           /\ q \in AppType
           /\ q.conn = p.conn /\ q.active = p.active /\ q.early = p.early
           /\ q.pages = m.tabs /\ q.live = p.live \cap Kept(p, m) /\ q.views = p.views \cap Kept(p, m)
           /\ q.initial = FALSE
           /\ q.missed = (p.missed \/ (p.requested # NoTab /\ ~Found(p, m)))
           /\ q.life = IF ~Found(p, m) /\ m.closed # NoTab THEN "closing" ELSE p.life
<1>1. m.tabs \in Pages
  BY Notices
<1>2. p.live \cap Kept(p, m) \in SUBSET Nat /\ p.views \cap Kept(p, m) \in SUBSET Nat
  BY DEF AppType
<1>3. (p.missed \/ (p.requested # NoTab /\ ~Found(p, m))) \in BOOLEAN
  BY DEF AppType
<1>4. Updated(p, m) \in AppType
  BY <1>1, <1>2, <1>3 DEF AppType, Updated, NoTab
<1> QED BY <1>4 DEF AppType, Updated

(* Whatever a catalog shows is in it, unless it is empty or a tab is missed. *)
LEMMA ChosenFound ==
    ASSUME NEW p \in AppType, NEW m, m.tabs \in Pages, ~Found(p, m), p.requested = NoTab
    PROVE  m.tabs = <<>>
<1>1. SUFFICES ASSUME m.tabs # <<>> PROVE FALSE
  OBVIOUS
<1>2. m.tabs \in Seq(PageType)
  BY DEF Pages
<1>3. 1 \in DOMAIN m.tabs
  BY <1>1, <1>2
<1>4. m.tabs[1].id \in Ids(m.tabs)
  BY <1>3 DEF Ids
<1> QED BY <1>1, <1>4 DEF Found, Chosen

LEMMA IdsType ==
    ASSUME NEW ts \in Pages PROVE Ids(ts) \subseteq Nat \ {0}
<1>1. \A i \in DOMAIN ts : ts[i] \in PageType
  BY DEF Pages
<1> QED BY <1>1 DEF Ids, PageType

(* A catalog leaves a window as it should be, but for the claim of the tab   *)
(* it shows and the keys that are still held.                                *)
Busied(x, k, f) == [x EXCEPT !.at = k, !.off = f]
LEMMA BusiedFields ==
    ASSUME NEW x \in Context, NEW k \in Nat, NEW f \in SUBSET {"claim", "early"}
    PROVE  LET y == Busied(x, k, f) IN
           /\ y \in Context /\ y.at = k /\ y.in = x.in /\ y.later = x.later /\ y.top = x.top
           /\ y.off = f /\ y.alive = x.alive
  BY DEF Context, Busied

LEMMA CatalogGood ==
    ASSUME NEW v \in Window, NEW p \in AppType, NEW l \in LinkType, NEW x \in Context,
           Good(v, p, l, x), x.alive, x.off = {}, Arriving(v),
           NEW k \in Nat \ {0}, x.at = k - 1,
           link[v].in \in Seq(NoticeType), k \in DOMAIN link[v].in,
           NEW m, m = link[v].in[k], m.kind = "catalog",
           NEW q \in AppType, NEW r \in AppType, q = Updated(p, m),
           /\ r.life = q.life /\ r.conn = q.conn /\ r.pages = q.pages /\ r.live = q.live
           /\ r.initial = q.initial /\ r.early = q.early /\ r.views = q.views
           /\ r.missed = q.missed
    PROVE  /\ Found(p, m) /\ r.active = Chosen(p, m)
                  => Good(v, r, l, Busied(x, k, {"claim", "early"}))
           /\ r.active = q.active /\ ~(Found(p, m) /\ Switches(p, m))
                  => Good(v, r, l, Busied(x, k, {"early"}))
<1>1. m \in NoticeType
  BY ONLY link[v].in \in Seq(NoticeType), k \in DOMAIN link[v].in, m = link[v].in[k]
<1>2. m.tabs \in Pages /\ p.pages \in Pages
  BY <1>1, Notices DEF AppType
<1>3. /\ r.conn = p.conn /\ r.early = p.early /\ q.active = p.active
      /\ r.pages = m.tabs /\ r.live = p.live \cap Kept(p, m) /\ r.views = p.views \cap Kept(p, m)
      /\ r.initial = FALSE
      /\ r.missed = (p.missed \/ (p.requested # NoTab /\ ~Found(p, m)))
      /\ r.life = IF ~Found(p, m) /\ m.closed # NoTab THEN "closing" ELSE p.life
  <2> DEFINE u == Updated(p, m)
  <2>1. /\ u.conn = p.conn /\ u.active = p.active /\ u.early = p.early
        /\ u.pages = m.tabs /\ u.live = p.live \cap Kept(p, m) /\ u.views = p.views \cap Kept(p, m)
        /\ u.initial = FALSE
        /\ u.missed = (p.missed \/ (p.requested # NoTab /\ ~Found(p, m)))
        /\ u.life = IF ~Found(p, m) /\ m.closed # NoTab THEN "closing" ELSE p.life
    <3>1. p \in AppType /\ m \in NoticeType /\ m.kind = "catalog"
      BY <1>1
    <3> QED BY ONLY <3>1, UpdatedFields
  <2>2. u = q
    OBVIOUS
  <2> HIDE DEF u
  <2> QED BY <2>1, <2>2
<1>4. Alive(p) /\ Alive(r)
  BY <1>3 DEF Good, Alive
<1>5. Placed(p) /\ Bound(p, l, v, x) /\ Keyed(p, l.out, heard[v], x) /\ Claimed(v, p, l, x.at)
      /\ Shown(p) /\ Quiet(p)
  BY DEF Good
<1>6. Placed(r)
  BY <1>2, <1>3, <1>4, <1>5, KeptViews DEF Placed, Kept
<1>7. ASSUME NEW f \in SUBSET {"claim", "early"}
      PROVE  LET y == Busied(x, k, f) IN
             Bound(r, l, v, y) /\ Keyed(r, l.out, heard[v], y) /\ Follows(v, r, l, y.at)
  <2> DEFINE y == Busied(x, k, f)
  <2>1. y.at = k /\ y.in = x.in /\ y.later = x.later /\ y.top = x.top
    BY BusiedFields
  <2> HIDE DEF y
  <2>2. Bound(r, l, v, y)
    BY <1>3, <1>5, <2>1 DEF Bound
  <2>3. Keyed(r, l.out, heard[v], y)
    BY <1>3, <1>5, <2>1 DEF Keyed
  <2>4. ASSUME Online(r, l)
        PROVE  l.ready /\ \A id \in Terminals(r.pages) : Stands(link[v].in, k, id)
    <3>1. win[v].conn /\ link[v].up /\ l.ready = link[v].ready
      BY <1>3, <1>5, <2>4 DEF Bound, Online
    <3>2. k \in DOMAIN link[v].in /\ Shows(link[v].in[k])
      BY DEF Shows
    <3> QED BY <3>1, <3>2, <1>3 DEF Arriving
  <2>5. Follows(v, r, l, y.at)
    BY <2>1, <2>4 DEF Follows
  <2> QED BY <2>2, <2>3, <2>5 DEF y
<1>8. ASSUME Found(p, m), r.active = Chosen(p, m)
      PROVE  Good(v, r, l, Busied(x, k, {"claim", "early"}))
  <2>1. r.active # NoTab
    BY <1>2, <1>8, IdsType DEF Found, NoTab
  <2>2. Shown(r)
    BY <2>1 DEF Shown
  <2>3. Busied(x, k, {"claim", "early"}).off = {"claim", "early"}
    BY BusiedFields
  <2>4. {"claim", "early"} \in SUBSET {"claim", "early"}
    OBVIOUS
  <2> QED BY <1>4, <1>6, <1>7, <2>2, <2>3, <2>4 DEF Good
<1>9. ASSUME r.active = q.active, ~(Found(p, m) /\ Switches(p, m))
      PROVE  Good(v, r, l, Busied(x, k, {"early"}))
  <2>1. r.active = p.active
    BY <1>3, <1>9
  <2>2. ASSUME ~Found(p, m), ~r.missed PROVE m.tabs = <<>>
    BY <1>2, <1>3, <2>2, ChosenFound
  <2>3. ASSUME Found(p, m)
        PROVE  /\ r.active \in Ids(m.tabs) /\ r.active # NoTab
               /\ p.initial => ~HasTerminal(m.tabs, r.active)
    <3>1. p.active = Chosen(p, m) /\ (p.initial => ~HasTerminal(m.tabs, Chosen(p, m)))
      BY <1>9, <2>3 DEF Switches
    <3> QED BY <2>1, <2>3, <3>1, <1>2, IdsType DEF Found, NoTab
  <2>4. Shown(r)
    BY <1>3, <2>2, <2>3 DEF Shown
  <2>5. ASSUME Online(r, l), ~r.missed, r.active \in r.live
        PROVE  (\E i \in DOMAIN l.out : l.out[i] = Focus(r.active))
               \/ Explained(v, link[v].in, k, r.active)
    <3>1. r.active \in Terminals(m.tabs)
      BY <1>3, <1>6, <2>5 DEF Placed
    <3>2. m.tabs # <<>>
      BY <3>1 DEF Terminals
    <3>3. Found(p, m)
      BY <2>2, <2>5, <3>2
    <3>4. ~p.initial
      BY <2>3, <3>1, <3>3, Kinds
    <3>5. Online(p, l) /\ ~p.missed /\ p.active \in p.live
      BY <1>3, <2>1, <2>5, <3>4 DEF Online
    <3>6. (\E i \in DOMAIN l.out : l.out[i] = Focus(p.active))
          \/ Explained(v, link[v].in, k - 1, p.active)
      BY <1>5, <3>5 DEF Claimed
    <3>7. ~Dispossesses(m, p.active)
      BY <2>1, <3>1 DEF Dispossesses
    <3> QED BY <2>1, <3>6, <3>7, Skip
  <2>6. Busied(x, k, {"early"}).off = {"early"} /\ Busied(x, k, {"early"}).at = k
        /\ {"early"} \in SUBSET {"claim", "early"}
    BY BusiedFields
  <2>7. Claimed(v, r, l, k)
    BY <2>5 DEF Claimed
  <2> QED BY <1>4, <1>6, <1>7, <2>4, <2>6, <2>7 DEF Good
<1> QED BY <1>8, <1>9

LEMMA AtAt ==
    ASSUME NEW c \in [Window -> Context], NEW w \in Window, NEW x \in Context, NEW y \in Context
    PROVE  /\ At(c, w, x) \in [Window -> Context] /\ At(c, w, x)[w] = x
           /\ \A v \in Window : v # w => At(c, w, x)[v] = c[v]
           /\ At(At(c, w, x), w, y) = At(c, w, y)
  BY DEF At

LEMMA DrainAdvances ==
    ASSUME NEW c \in [Window -> Context], NEW w \in Window, c[w].off = {}, c[w].alive,
           c[w].later = {}, NEW k \in Nat, NEW u, J(u, At(c, w, Busied(c[w], k, {"early"})))
    PROVE  J(Drain(u, w), At(c, w, Advance(c[w], k)))
<1> DEFINE x == c[w]
          b == Busied(x, k, {"early"})
          d == At(c, w, b)
<1>1. x \in Context /\ {"early"} \in SUBSET {"claim", "early"}
  OBVIOUS
<1>2. /\ b \in Context /\ b.later = {} /\ b.off = {"early"} /\ b.alive
  BY <1>1, BusiedFields
<1>3. Without(b, "early") = Advance(x, k)
  BY <1>1 DEF Context, Without, Busied, Advance
<1>4. Advance(x, k) \in Context
  BY <1>1, AdvanceFields
<1>5. d[w] = b /\ At(d, w, Advance(x, k)) = At(c, w, Advance(x, k))
  BY <1>1, <1>2, <1>4, AtAt
<1>6. J(u, d)
  OBVIOUS
<1> HIDE DEF d, b, x
<1>7. J(Drain(u, w), At(d, w, Without(d[w], "early")))
  BY <1>2, <1>5, <1>6, DrainKeeps
<1> QED BY <1>3, <1>5, <1>7 DEF x

LEMMA CatalogKeeps ==
    ASSUME NEW ui, NEW c, J(ui, c), NEW w \in Window, c[w].off = {}, c[w].alive,
           c[w].later = {}, Arriving(w),
           NEW k \in Nat \ {0}, c[w].at = k - 1,
           link[w].in \in Seq(NoticeType), k \in DOMAIN link[w].in,
           NEW m, m = link[w].in[k], m.kind = "catalog"
    PROVE  J(Catalog(ui, w, m), At(c, w, Advance(c[w], k)))
<1> DEFINE p == ui.win[w]
          l == ui.link[w]
          x == c[w]
          q == Updated(p, m)
          id == Chosen(p, m)
          next == With(ui, w, q)
          b == Busied(x, k, {"early"})
          y == Busied(x, k, {"claim", "early"})
<1>1. /\ p \in AppType /\ l \in LinkType /\ x \in Context /\ Good(w, p, l, x)
      /\ c \in [Window -> Context] /\ ui \in UiType /\ ui.win \in [Window -> AppType]
  BY Same DEF J, UiType
<1>2. m \in NoticeType
  BY ONLY link[w].in \in Seq(NoticeType), k \in DOMAIN link[w].in, m = link[w].in[k]
<1>3. q \in AppType /\ q.views \subseteq p.views
  <2>1. p \in AppType /\ m \in NoticeType /\ m.kind = "catalog"
    BY <1>1, <1>2
  <2> QED BY ONLY <2>1, UpdatedFields
<1>4. Catalog(ui, w, m) = IF Found(p, m) /\ Switches(p, m)
                          THEN Drain(Activate(next, w, id), w) ELSE Drain(next, w)
  BY CatalogIs
<1>5. b \in Context /\ y \in Context /\ Without(y, "claim") = b
  <2>1. {"claim", "early"} \ {"claim"} = {"early"}
    OBVIOUS
  <2> QED BY <1>1, <2>1, BusiedFields DEF Busied, Without, Context
<1>6. ASSUME NEW r \in AppType,
             /\ r.life = q.life /\ r.conn = q.conn /\ r.pages = q.pages /\ r.live = q.live
             /\ r.initial = q.initial /\ r.early = q.early /\ r.views = q.views
             /\ r.missed = q.missed
      PROVE  /\ Found(p, m) /\ r.active = id => Good(w, r, l, y)
             /\ r.active = q.active /\ ~(Found(p, m) /\ Switches(p, m)) => Good(w, r, l, b)
  <2> HIDE DEF p, l, x, q
  <2>1. x.off = {} /\ x.alive /\ x.at = k - 1
    BY DEF x
  <2> QED BY <1>1, <1>3, <1>6, <2>1, CatalogGood DEF q
<1>7. CASE Found(p, m) /\ Switches(p, m)
  <2> DEFINE r == [q EXCEPT !.active = id]
  <2>1. id \in Nat
    <3>1. m.tabs \in Pages
      BY <1>2, Notices
    <3> QED BY <1>7, <3>1, IdsType DEF Found
  <2>2. r \in AppType /\ r.active = id
        /\ r.life = q.life /\ r.conn = q.conn /\ r.pages = q.pages /\ r.live = q.live
        /\ r.initial = q.initial /\ r.early = q.early /\ r.views = q.views
        /\ r.missed = q.missed
    <3> HIDE DEF q, id
    <3> QED BY <1>3, <2>1 DEF AppType
  <2> HIDE DEF r, q, id
  <2>3. Good(w, r, l, y)
    BY <1>6, <1>7, <2>2 DEF q, id
  <2>4. J(With(ui, w, r), At(c, w, y))
    BY <1>3, <1>5, <2>2, <2>3, OneApp
  <2>5. next.win[w] = q /\ next \in UiType /\ With(next, w, r) = With(ui, w, r)
    BY <1>1, <1>3 DEF With, UiType
  <2>6. With(next, w, [next.win[w] EXCEPT !.active = id]) = With(ui, w, r)
    BY <2>5 DEF r
  <2>7. Alive(q)
    <3>1. Alive(r)
      <4>1. y.alive
        BY <1>1, BusiedFields
      <4> QED BY <2>3, <4>1 DEF Good
    <3> QED BY <2>2, <3>1 DEF Alive
  <2> DEFINE d == At(c, w, y)
  <2>8. d[w] = y /\ At(d, w, b) = At(c, w, b)
    BY <1>1, <1>5, AtAt
  <2> HIDE DEF next, d
  <2>9. J(Activate(next, w, id), At(d, w, Without(d[w], "claim")))
    BY <2>1, <2>4, <2>5, <2>6, <2>7, ActivateKeeps DEF d
  <2>10. J(Activate(next, w, id), At(c, w, b))
    BY <1>5, <2>8, <2>9
  <2>11. J(Drain(Activate(next, w, id), w), At(c, w, Advance(x, k)))
    BY <1>1, <2>10, DrainAdvances
  <2> QED BY <1>4, <1>7, <2>11 DEF id
<1>8. CASE ~(Found(p, m) /\ Switches(p, m))
  <2>1. Good(w, q, l, b)
    BY <1>3, <1>6, <1>8
  <2>2. J(next, At(c, w, b))
    BY <1>3, <1>5, <2>1, OneApp
  <2> HIDE DEF next
  <2>3. J(Drain(next, w), At(c, w, Advance(x, k)))
    BY <1>1, <2>2, DrainAdvances
  <2> QED BY <1>4, <1>8, <2>3
<1> QED BY <1>7, <1>8

LEMMA SameWith ==
    ASSUME NEW ui \in UiType, NEW w \in Window
    PROVE  With(ui, w, ui.win[w]) = ui
<1>1. ui.win \in [Window -> AppType] /\ ui = [win |-> ui.win, link |-> ui.link]
  BY DEF UiType
<1> QED BY <1>1 DEF With

LEMMA PacketKeeps ==
    ASSUME NEW ui, NEW c, J(ui, c), NEW w \in Window, c[w].off = {}, c[w].alive,
           c[w].later = {}, Arriving(w),
           NEW k \in Nat \ {0}, c[w].at = k - 1,
           link[w].in \in Seq(NoticeType), k \in DOMAIN link[w].in,
           NEW m, m = link[w].in[k]
    PROVE  J(Packet(ui, w, m), At(c, w, Advance(c[w], k)))
<1> DEFINE p == ui.win[w]
          l == ui.link[w]
          x == c[w]
<1>1. /\ p \in AppType /\ l \in LinkType /\ x \in Context /\ Good(w, p, l, x)
      /\ c \in [Window -> Context] /\ ui \in UiType /\ ui.win \in [Window -> AppType]
  BY Same DEF J, UiType
<1>2. m \in NoticeType
  BY ONLY link[w].in \in Seq(NoticeType), k \in DOMAIN link[w].in, m = link[w].in[k]
<1>3. ASSUME NEW r \in AppType, m.kind # "catalog",
             /\ r.life = p.life /\ r.conn = p.conn /\ r.pages = p.pages /\ r.active = p.active
             /\ r.initial = p.initial /\ r.early = p.early /\ r.views = p.views
             /\ r.missed = p.missed,
             r.live \subseteq Terminals(p.pages),
             \A id \in r.live : \/ id \in p.live /\ ~Dispossesses(m, id)
                                \/ p.conn /\ l.up => Explained(w, link[w].in, k, id)
      PROVE  J(With(ui, w, r), At(c, w, Advance(x, k)))
  <2> HIDE DEF p, l, x
  <2>1. x.off = {} /\ x.at = k - 1
    BY DEF x
  <2>2. Good(w, r, l, Advance(x, k))
    BY <1>1, <1>3, <2>1, AdvanceGood
  <2>3. Advance(x, k) \in Context
    BY <1>1, AdvanceFields
  <2> QED BY <1>3, <2>2, <2>3, OneApp DEF p, l
<1>4. p.live \subseteq Terminals(p.pages)
  BY <1>1 DEF Good, Placed
<1>5. CASE m.kind = "catalog"
  <2>1. J(Catalog(ui, w, m), At(c, w, Advance(c[w], k)))
    BY <1>5, CatalogKeeps
  <2> QED BY <1>5, <2>1 DEF Packet
<1>6. CASE m.kind = "created"
  <2> DEFINE n == IF p.pending > 0 THEN p.pending - 1 ELSE 0
             r == [p EXCEPT !.requested = m.tab, !.pending = n]
  <2>1. m.tab \in Nat
    BY <1>2, <1>6, Notices
  <2>2. n \in Nat
    BY <1>1 DEF AppType
  <2>3. Packet(ui, w, m) = With(ui, w, r)
    BY <1>6 DEF Packet
  <2> HIDE DEF p, n
  <2>4. /\ r \in AppType
        /\ r.life = p.life /\ r.conn = p.conn /\ r.pages = p.pages /\ r.active = p.active
        /\ r.initial = p.initial /\ r.early = p.early /\ r.views = p.views
        /\ r.missed = p.missed /\ r.live = p.live
    BY <1>1, <2>1, <2>2 DEF AppType
  <2>5. \A id : ~Dispossesses(m, id)
    BY <1>6 DEF Dispossesses
  <2> HIDE DEF r
  <2> QED BY <1>3, <1>4, <1>6, <2>3, <2>4, <2>5
<1>7. CASE m.kind = "release"
  <2> DEFINE r == [p EXCEPT !.live = p.live \ {m.tab}]
  <2>3. Packet(ui, w, m) = With(ui, w, r)
    BY <1>7 DEF Packet
  <2> HIDE DEF p
  <2>4. /\ r \in AppType
        /\ r.life = p.life /\ r.conn = p.conn /\ r.pages = p.pages /\ r.active = p.active
        /\ r.initial = p.initial /\ r.early = p.early /\ r.views = p.views
        /\ r.missed = p.missed /\ r.live = p.live \ {m.tab}
    BY <1>1 DEF AppType
  <2>5. \A id : id # m.tab => ~Dispossesses(m, id)
    BY <1>7 DEF Dispossesses
  <2> HIDE DEF r
  <2> QED BY <1>3, <1>4, <1>7, <2>3, <2>4, <2>5
<1>8. CASE m.kind = "frame" /\ ~HasTerminal(p.pages, m.tab)
  <2>1. Packet(ui, w, m) = With(ui, w, p)
    BY <1>1, <1>8, SameWith DEF Packet
  <2>2. \A id : ~Dispossesses(m, id)
    BY <1>8 DEF Dispossesses
  <2> QED BY <1>1, <1>3, <1>4, <1>8, <2>1, <2>2
<1>9. CASE m.kind = "frame" /\ HasTerminal(p.pages, m.tab)
  <2> DEFINE r == [p EXCEPT !.live = p.live \cup {m.tab}]
  <2>1. m.tab \in Nat
    BY <1>2, <1>9, Notices
  <2>3. Packet(ui, w, m) = With(ui, w, r)
    BY <1>9 DEF Packet
  <2>6. p.conn /\ l.up => Explained(w, link[w].in, k, m.tab)
    <3>1. Bound(p, l, w, x)
      BY <1>1 DEF Good
    <3>2. p.conn /\ l.up => win[w].conn /\ link[w].up
      BY <3>1 DEF Bound
    <3> HIDE DEF p, l
    <3> QED BY <1>9, <3>2 DEF Arriving
  <2>7. m.tab \in Terminals(p.pages)
    BY <1>9, Kinds
  <2> HIDE DEF p
  <2>4. /\ r \in AppType
        /\ r.life = p.life /\ r.conn = p.conn /\ r.pages = p.pages /\ r.active = p.active
        /\ r.initial = p.initial /\ r.early = p.early /\ r.views = p.views
        /\ r.missed = p.missed /\ r.live = p.live \cup {m.tab}
    BY <1>1, <2>1 DEF AppType
  <2>5. \A id : ~Dispossesses(m, id)
    BY <1>9 DEF Dispossesses
  <2> HIDE DEF r, l
  <2> QED BY <1>3, <1>4, <1>9, <2>3, <2>4, <2>5, <2>6, <2>7
<1> QED BY <1>2, <1>5, <1>6, <1>7, <1>8, <1>9, Notices

(* The packets of a read, applied one after the other.                       *)
LEMMA ReadingKeeps ==
    ASSUME NEW w \in Window, Arriving(w), link[w].in \in Seq(NoticeType),
           NEW n \in 0..Len(link[w].in),
           NEW ui, NEW c, J(ui, c), c[w].off = {}, c[w].alive, c[w].later = {}, c[w].at = 0,
           NEW f, f[0] = ui,
           \A k \in 1..n : f[k - 1] \in UiType => f[k] = Packet(f[k - 1], w, link[w].in[k])
    PROVE  \A k \in 0..n : J(f[k], At(c, w, Advance(c[w], k)))
<1> DEFINE x(k) == Advance(c[w], k)
          S == {k \in 0..n : J(f[k], At(c, w, x(k)))}
<1>1. c[w] \in Context /\ At(c, w, c[w]) = c /\ c \in [Window -> Context]
  BY Same DEF J
<1>2. n \in Nat /\ \A k \in 1..n : k \in DOMAIN link[w].in
  OBVIOUS
<1>3. \A k \in Nat : /\ x(k) \in Context /\ x(k).off = {} /\ x(k).alive
                     /\ x(k).later = {} /\ x(k).at = k
  BY <1>1, AdvanceFields
<1>4. \A k \in Nat : At(c, w, x(k))[w] = x(k)
  BY <1>1, <1>3, AtAt
<1>5. 0 \in S
  <2>1. x(0) = c[w]
    BY <1>1 DEF Advance, Context
  <2> QED BY <1>1, <1>2, <2>1
<1>6. ASSUME NEW k \in 0..n, k \in S, k < n PROVE k + 1 \in S
  <2> DEFINE d == At(c, w, x(k))
             m == link[w].in[k + 1]
  <2>1. J(f[k], d) /\ k \in Nat /\ k + 1 \in 1..n /\ k + 1 \in Nat \ {0} /\ (k + 1) - 1 = k
        /\ k + 1 \in DOMAIN link[w].in
    BY <1>6, <1>2
  <2>2. f[k + 1] = Packet(f[k], w, m)
    BY <2>1 DEF J
  <2>3. d[w] = x(k) /\ x(k).off = {} /\ x(k).alive /\ x(k).later = {} /\ x(k).at = k
    BY <1>3, <1>4, <2>1
  <2>4. Advance(x(k), k + 1) = x(k + 1)
    BY <1>1, <2>1 DEF Advance, Context
  <2>5. At(d, w, x(k + 1)) = At(c, w, x(k + 1))
    BY <1>1, <1>3, <2>1, AtAt
  <2> HIDE DEF x, d, S, m
  <2>6. J(Packet(f[k], w, m), At(d, w, Advance(d[w], k + 1)))
    BY <2>1, <2>3, PacketKeeps DEF m
  <2>7. J(f[k + 1], At(c, w, x(k + 1)))
    BY <2>2, <2>3, <2>4, <2>5, <2>6
  <2> QED BY <2>1, <2>7 DEF S
<1> HIDE DEF S
<1>7. \A k \in 0..n : k \in S
  BY <1>2, <1>5, <1>6, Upto
<1> QED BY <1>7 DEF S

IsReading(f, w, n) ==
    f = [k \in 0..n |-> IF k = 0 THEN Took(w, n) ELSE Packet(f[k - 1], w, link[w].in[k])]

LEMMA AppliedKeeps ==
    ASSUME NEW w \in Window, Arriving(w), link[w].in \in Seq(NoticeType),
           NEW n \in 0..Len(link[w].in),
           NEW c, J(Took(w, n), c), c[w].off = {}, c[w].alive, c[w].later = {}, c[w].at = 0
    PROVE  J(Applied(w, n), At(c, w, Advance(c[w], n)))
<1> DEFINE ui == Took(w, n)
          G == [a \in (1..n) \X UiType |-> Packet(a[2], w, link[w].in[a[1]])]
          g == CHOOSE f : f = [k \in 0..n |->
                   IF k = 0 THEN Took(w, n)
                   ELSE Apply(LAMBDA u : Packet(u, w, link[w].in[k]), f[k - 1])]
<1>1. n \in Nat
  OBVIOUS
<1>0. J(ui, c)
  OBVIOUS
<1> HIDE DEF ui
<1>2. PICK h : IsChain(h, ui, G, n)
  BY <1>1, ChainExists
<1> HIDE DEF G
<1>15. \A k \in 0..n : h[k] = IF k = 0 THEN ui ELSE G[<<k, h[k - 1]>>]
  BY <1>2 DEF IsChain
<1>16. 0 \in 0..n /\ \A k \in 1..n : k \in 0..n /\ k # 0 /\ k - 1 \in 0..n
  BY <1>1
<1>3. h[0] = ui /\ \A k \in 1..n : h[k] = G[<<k, h[k - 1]>>]
  BY <1>15, <1>16
<1>4. \A k \in 1..n : h[k - 1] \in UiType => h[k] = Packet(h[k - 1], w, link[w].in[k])
  BY <1>3 DEF G
<1>5. \A k \in 0..n : h[k] \in UiType
  BY <1>0, <1>3, <1>4, ReadingKeeps DEF J
<1>6. \A k \in 1..n : h[k] = Packet(h[k - 1], w, link[w].in[k])
  BY <1>16, <1>4, <1>5
<1>17. ASSUME NEW k \in 0..n
       PROVE  h[k] = IF k = 0 THEN ui ELSE Packet(h[k - 1], w, link[w].in[k])
  <2>1. CASE k = 0
    BY <1>3, <2>1
  <2>2. CASE k # 0
    <3>1. k \in 1..n
      BY <1>1, <2>2
    <3> QED BY <1>6, <2>2, <3>1
  <2> QED BY <2>1, <2>2
<1>18. h = [k \in 0..n |-> h[k]]
  BY <1>2 DEF IsChain
<1>7. IsReading(h, w, n)
  BY <1>17, <1>18 DEF IsReading, ui
<1>8. \A f, k : Apply(LAMBDA u : Packet(u, w, link[w].in[k]), f[k - 1])
                = Packet(f[k - 1], w, link[w].in[k])
  BY DEF Apply
<1>9. \E f : f = [k \in 0..n |->
                   IF k = 0 THEN Took(w, n)
                   ELSE Apply(LAMBDA u : Packet(u, w, link[w].in[k]), f[k - 1])]
  <2>1. \A f : [k \in 0..n |->
                   IF k = 0 THEN Took(w, n)
                   ELSE Apply(LAMBDA u : Packet(u, w, link[w].in[k]), f[k - 1])]
              = [k \in 0..n |-> IF k = 0 THEN Took(w, n) ELSE Packet(f[k - 1], w, link[w].in[k])]
    BY ONLY <1>8
  <2>2. h = [k \in 0..n |->
                   IF k = 0 THEN Took(w, n)
                   ELSE Apply(LAMBDA u : Packet(u, w, link[w].in[k]), h[k - 1])]
    <3>1. h = [k \in 0..n |-> IF k = 0 THEN Took(w, n) ELSE Packet(h[k - 1], w, link[w].in[k])]
      BY ONLY <1>7 DEF IsReading
    <3> QED BY ONLY <3>1, <2>1
  <2> QED BY ONLY <2>2
<1>10. g = [k \in 0..n |->
                   IF k = 0 THEN Took(w, n)
                   ELSE Apply(LAMBDA u : Packet(u, w, link[w].in[k]), g[k - 1])]
  BY <1>9
<1>11. Applied(w, n) = g[n]
  BY DEF Applied
<1> HIDE DEF g
<1>19. \A k \in 0..n : g[k] = IF k = 0 THEN ui ELSE Packet(g[k - 1], w, link[w].in[k])
  BY <1>8, <1>10 DEF ui
<1>12. g[0] = ui /\ \A k \in 1..n : g[k] = Packet(g[k - 1], w, link[w].in[k])
  BY <1>16, <1>19
<1>13. \A k \in 0..n : J(g[k], At(c, w, Advance(c[w], k)))
  BY <1>0, <1>12, ReadingKeeps
<1> QED BY <1>1, <1>11, <1>13

-----------------------------------------------------------------------------
(* A window that closes. *)

LEMMA RehomeKeeps ==
    ASSUME NEW ui, NEW c, J(ui, c), NEW w \in Window, NEW id \in Nat
    PROVE  J(Rehome(ui, w, id), c)
<1> DEFINE peers == {v \in Others(w) : Alive(ui.win[v]) /\ HasBrowser(ui.win[v].pages, id)}
          v == CHOOSE v \in peers : TRUE
<1>1. Rehome(ui, w, id) = IF peers = {} THEN ui ELSE ClaimBrowser(ui, v, id)
  BY DEF Rehome
<1>2. peers # {} => v \in Window /\ Alive(ui.win[v])
  BY DEF Others
<1> HIDE DEF peers, v
<1> QED BY <1>1, <1>2, ClaimKeeps

LEMMA ListedViews ==
    ASSUME NEW p \in AppType, Placed(p)
    PROVE  Len(SetToSeq(p.views)) \in Nat /\ SetToSeq(p.views) \in Seq(Nat)
<1> DEFINE V == p.views
          n == Cardinality(V)
          s == SetToSeq(V)
<1>1. p.pages \in Seq(PageType) /\ V \subseteq Nat /\ V \subseteq Browsers(p.pages)
  BY DEF AppType, Pages, Placed
<1> DEFINE D == 1..Len(p.pages)
          ids == [i \in D |-> p.pages[i].id]
          I == {ids[i] : i \in D}
<1>2. IsFiniteSet(D) /\ D = DOMAIN p.pages
  BY <1>1, FS_Interval
<1>3. IsFiniteSet(I)
  <2>1. ids \in Surjection(D, I)
    BY DEF Surjection
  <2> HIDE DEF D, ids, I
  <2> QED BY <1>2, <2>1, FS_Surjection
<1>4. V \subseteq I
  BY <1>1, <1>2 DEF Browsers
<1>5. IsFiniteSet(V)
  BY <1>3, <1>4, FS_Subset
<1>6. n \in Nat /\ ExistsBijection(1..n, V)
  BY <1>5, FS_CardinalityType
<1>7. s \in [1..n -> V]
  <2>1. PICK b : b \in Bijection(1..n, V)
    BY <1>6 DEF ExistsBijection
  <2>2. b \in [1..n -> V] /\ IsInjective(b)
    BY <2>1 DEF Bijection, Injection
  <2> QED BY <2>2 DEF SetToSeq
<1> HIDE DEF s, n, V
<1>8. s \in [1..n -> Nat]
  BY <1>1, <1>7
<1>9. s \in Seq(Nat)
  BY <1>6, <1>8
<1> QED BY <1>9 DEF s, V

(* Its views, brought to other windows one after the other.                  *)
LEMMA RehomingKeeps ==
    ASSUME NEW w \in Window, NEW ids \in Seq(Nat), NEW ui, NEW c, J(ui, c),
           NEW f, f[0] = ui,
           \A k \in 1..Len(ids) : f[k - 1] \in UiType => f[k] = Rehome(f[k - 1], w, ids[k])
    PROVE  \A k \in 0..Len(ids) : J(f[k], c)
<1> DEFINE S == {k \in 0..Len(ids) : J(f[k], c)}
<1>1. Len(ids) \in Nat /\ \A k \in 1..Len(ids) : ids[k] \in Nat
  OBVIOUS
<1>2. 0 \in S
  BY <1>1
<1>3. ASSUME NEW k \in 0..Len(ids), k \in S, k < Len(ids) PROVE k + 1 \in S
  <2>1. J(f[k], c) /\ k + 1 \in 1..Len(ids) /\ k + 1 \in 0..Len(ids) /\ (k + 1) - 1 = k
    BY <1>1, <1>3
  <2>2. f[k + 1] = Rehome(f[k], w, ids[k + 1])
    BY <2>1 DEF J
  <2> QED BY <1>1, <2>1, <2>2, RehomeKeeps
<1> HIDE DEF S
<1>4. \A k \in 0..Len(ids) : k \in S
  BY <1>1, <1>2, <1>3, Upto
<1> QED BY <1>4 DEF S

IsRehoming(f, ui, w, ids) ==
    f = [k \in 0..Len(ids) |-> IF k = 0 THEN ui ELSE Rehome(f[k - 1], w, ids[k])]

LEMMA ReleasedKeeps ==
    ASSUME NEW w \in Window, NEW ui, NEW c, J(ui, c)
    PROVE  J(ReleaseBrowsers(ui, w), c)
<1> DEFINE ids == SetToSeq(ui.win[w].views)
          n == Len(ids)
          G == [a \in (1..n) \X UiType |-> Rehome(a[2], w, ids[a[1]])]
          g == CHOOSE f : f = [k \in 0..Len(ids) |->
                   IF k = 0 THEN ui ELSE Apply(LAMBDA u : Rehome(u, w, ids[k]), f[k - 1])]
<1>1. ReleaseBrowsers(ui, w) = g[n]
  BY DEF ReleaseBrowsers
<1>0. n \in Nat /\ ids \in Seq(Nat)
  BY Same, ListedViews DEF Good
<1> HIDE DEF ids
<1>2. PICK h : IsChain(h, ui, G, n)
  BY <1>0, ChainExists
<1> HIDE DEF G
<1>15. \A k \in 0..n : h[k] = IF k = 0 THEN ui ELSE G[<<k, h[k - 1]>>]
  BY <1>2 DEF IsChain
<1>16. 0 \in 0..n /\ \A k \in 1..n : k \in 0..n /\ k # 0 /\ k - 1 \in 0..n
  BY <1>0
<1>3. h[0] = ui /\ \A k \in 1..n : h[k] = G[<<k, h[k - 1]>>]
  BY <1>15, <1>16
<1>4. \A k \in 1..n : h[k - 1] \in UiType => h[k] = Rehome(h[k - 1], w, ids[k])
  BY <1>3 DEF G
<1>5. \A k \in 0..n : h[k] \in UiType
  BY <1>0, <1>3, <1>4, RehomingKeeps DEF J
<1>6. \A k \in 1..n : h[k] = Rehome(h[k - 1], w, ids[k])
  BY <1>16, <1>4, <1>5
<1>17. ASSUME NEW k \in 0..n PROVE h[k] = IF k = 0 THEN ui ELSE Rehome(h[k - 1], w, ids[k])
  <2>1. CASE k = 0
    BY <1>3, <2>1
  <2>2. CASE k # 0
    <3>1. k \in 1..n
      BY <1>0, <2>2
    <3> QED BY <1>6, <2>2, <3>1
  <2> QED BY <2>1, <2>2
<1>18. h = [k \in 0..n |-> h[k]]
  BY <1>2 DEF IsChain
<1>7. IsRehoming(h, ui, w, ids)
  BY <1>17, <1>18 DEF IsRehoming
<1>8. \A f, k : Apply(LAMBDA u : Rehome(u, w, ids[k]), f[k - 1]) = Rehome(f[k - 1], w, ids[k])
  BY DEF Apply
<1>9. \E f : f = [k \in 0..Len(ids) |->
                   IF k = 0 THEN ui ELSE Apply(LAMBDA u : Rehome(u, w, ids[k]), f[k - 1])]
  BY <1>7, <1>8 DEF IsRehoming
<1>10. g = [k \in 0..Len(ids) |->
                   IF k = 0 THEN ui ELSE Apply(LAMBDA u : Rehome(u, w, ids[k]), g[k - 1])]
  BY <1>9
<1> HIDE DEF g
<1>19. \A k \in 0..n : g[k] = IF k = 0 THEN ui ELSE Rehome(g[k - 1], w, ids[k])
  BY <1>8, <1>10
<1>12. g[0] = ui /\ \A k \in 1..n : g[k] = Rehome(g[k - 1], w, ids[k])
  BY <1>16, <1>19
<1>13. \A k \in 0..n : J(g[k], c)
  BY <1>0, <1>12, RehomingKeeps
<1> QED BY <1>0, <1>1, <1>13

-----------------------------------------------------------------------------
(* The end of a callback. *)

Idle == [v \in Window |-> Rest(v)]
Resting(c, t) ==
    \A v \in Window :
        /\ c[v].off = {} /\ c[v].later = {} /\ c[v].top = t
        /\ c[v].at \in 0..Len(link[v].in)
        /\ c[v].in = SubSeq(link[v].in, c[v].at + 1, Len(link[v].in))

LEMMA Whole ==
    ASSUME NEW S, NEW q \in Seq(S)
    PROVE  SubSeq(q, 0 + 1, Len(q)) = q /\ 0 \in 0..Len(q) /\ Len(q) \in Nat
<1>1. SubSeq(q, 0 + 1, Len(q)) = q
  OBVIOUS
<1> QED BY <1>1

LEMMA Shifted ==
    ASSUME NEW q \in Seq(NoticeType), NEW k \in 0..Len(q), NEW r, r = SubSeq(q, k + 1, Len(q)),
           NEW i \in Nat, NEW id
    PROVE  /\ Doomed(q, k + i, id) => Doomed(r, i, id)
           /\ Notified(q, k + i, id) => Notified(r, i, id)
<1>1. Len(q) \in Nat /\ DOMAIN q = 1..Len(q) /\ k \in Nat
  OBVIOUS
<1>2. ASSUME NEW j \in DOMAIN q, j > k + i
      PROVE  j - k \in DOMAIN r /\ r[j - k] = q[j] /\ j - k > i
  BY <1>1, <1>2
<1>3. ASSUME Doomed(q, k + i, id) PROVE Doomed(r, i, id)
  BY <1>2, <1>3 DEF Doomed
<1>4. ASSUME Notified(q, k + i, id) PROVE Notified(r, i, id)
  BY <1>2, <1>4 DEF Notified
<1> QED BY <1>3, <1>4

LEMMA Idles ==
    ASSUME WindowsInv
    PROVE  /\ J(Ui, Idle) /\ Resting(Idle, typed) /\ Idle \in [Window -> Context]
           /\ \A v \in Window : Idle[v] = Rest(v)
           /\ \A v \in Window : /\ Ui.win[v] = win[v] /\ Ui.link[v] = link[v]
                                /\ win[v] \in AppType /\ link[v] \in LinkType
                                /\ link[v].in \in Seq(NoticeType)
<1>1. /\ win \in [Window -> AppType] /\ link \in [Window -> LinkType]
      /\ Ui.win = win /\ Ui.link = link
  BY DEF WindowsInv, UiType, Ui
<1>2. ASSUME NEW v \in Window PROVE link[v].in \in Seq(NoticeType) /\ Alive(win[v]) \in BOOLEAN
  BY <1>1 DEF LinkType, Alive
<1>3. ASSUME NEW v \in Window PROVE Rest(v) \in Context
  BY <1>2 DEF Rest, Context, WindowsInv
<1>4. Idle \in [Window -> Context] /\ \A v \in Window : Idle[v] = Rest(v)
  BY <1>3 DEF Idle
<1>5. J(Ui, Idle)
  BY <1>1, <1>4 DEF J, WindowsInv
<1>6. Resting(Idle, typed)
  <2>1. ASSUME NEW v \in Window
        PROVE  /\ Rest(v).off = {} /\ Rest(v).later = {} /\ Rest(v).top = typed
               /\ Rest(v).at \in 0..Len(link[v].in)
               /\ Rest(v).in = SubSeq(link[v].in, Rest(v).at + 1, Len(link[v].in))
    BY <1>2, Whole DEF Rest
  <2> QED BY <1>4, <2>1 DEF Resting
<1> QED BY <1>1, <1>2, <1>4, <1>5, <1>6

LEMMA Lands ==
    ASSUME WindowsInv, NEW ui, NEW c, J(ui, c), Resting(c, typed'), typed' \in Nat,
           Becomes(ui), UNCHANGED <<svc, heard>>
    PROVE  WindowsInv'
<1>1. win' = ui.win /\ link' = ui.link
  BY DEF Becomes
<1>2. /\ ui \in UiType /\ c \in [Window -> Context] /\ Disjoint(ui.win)
      /\ \A v \in Window : Good(v, ui.win[v], ui.link[v], c[v])
  BY DEF J
<1>3. Ui' \in UiType /\ Disjoint(win')
  BY <1>1, <1>2 DEF Ui, UiType
<1>4. ASSUME NEW v \in Window
      PROVE  link'[v].up = link[v].up /\ link'[v].ready = link[v].ready
  BY <1>1, <1>2 DEF Good, Bound
<1>5. SvcOK'
  BY <1>4 DEF SvcOK, WindowsInv
<1>6. ASSUME NEW v \in Window
      PROVE  Arriving(v)' /\ Good(v, win[v], link[v], Rest(v))'
  <2> DEFINE p == win'[v]
             l == link'[v]
             x == c[v]
             q == link[v].in
             k == x.at
  <2>1. /\ p = ui.win[v] /\ l = ui.link[v] /\ Good(v, p, l, x)
        /\ x.off = {} /\ x.later = {} /\ x.top = typed' /\ k \in 0..Len(q)
        /\ x.in = SubSeq(q, k + 1, Len(q))
    BY <1>1, <1>2 DEF Resting
  <2>2. q \in Seq(NoticeType) /\ Len(q) \in Nat
    BY Idles
  <2>3. p \in AppType /\ l \in LinkType
    BY <1>3 DEF Ui, UiType
  <2>4. /\ Rest(v)'.at = 0 /\ Rest(v)'.in = link'[v].in /\ Rest(v)'.later = {}
        /\ Rest(v)'.top = typed' /\ Rest(v)'.off = {} /\ Rest(v)'.alive = Alive(win'[v])
    BY DEF Rest, Alive
  <2> HIDE DEF p, l, x, q, k
  <2>5. ASSUME p.conn
        PROVE  l.in = SubSeq(q, k + 1, Len(q)) /\ win[v].conn
    BY <2>1, <2>5 DEF Good, Bound, x
  <2>6. \A i \in Nat : \A id : p.conn =>
            /\ Doomed(q, k + i, id) => Doomed(l.in, i, id)
            /\ Notified(q, k + i, id) => Notified(l.in, i, id)
    BY <2>1, <2>2, <2>5, Shifted
  <2>7. svc' = svc /\ heard' = heard /\ k + 0 = k
    BY <2>1
  <2>8. \A i \in Nat : \A id : p.conn =>
            /\ Stands(q, k + i, id) => Stands(link[v].in, i, id)'
            /\ Explained(v, q, k + i, id) => Explained(v, link[v].in, i, id)'
    BY <2>6, <2>7 DEF Stands, Explained, GoneUntold, Controls, l
  <2>9. Arriving(v)'
    <3> SUFFICES ASSUME p.conn, l.up
                 PROVE  \A i \in DOMAIN l.in :
                             /\ Shows(l.in[i]) => l.ready
                             /\ l.in[i].kind = "frame"
                                    => /\ l.in[i].tab < svc'.next
                                       /\ \A id : id = l.in[i].tab => Explained(v, link[v].in, i, id)'
                             /\ l.in[i].kind = "catalog"
                                    => \A id \in Terminals(l.in[i].tabs) : Stands(link[v].in, i, id)'
      BY DEF Arriving, Explained, Controls, GoneUntold, p, l
    <3>1. win[v].conn /\ link[v].up /\ l.ready = link[v].ready /\ Arriving(v)
      BY <1>4, <2>5 DEF WindowsInv, l
    <3>2. ASSUME NEW i \in DOMAIN l.in
          PROVE  i \in Nat /\ k + i \in DOMAIN q /\ l.in[i] = q[k + i]
      <4>1. l.in = SubSeq(q, k + 1, Len(q)) /\ k \in Nat /\ Len(q) \in Nat /\ k <= Len(q)
        BY <2>1, <2>2, <2>5
      <4>2. DOMAIN l.in = 1..(Len(q) - k)
        BY ONLY <4>1, <2>2
      <4>3. i \in 1..(Len(q) - k)
        BY ONLY <3>2, <4>2
      <4>4. l.in[i] = q[k + i]
        BY ONLY <4>1, <4>3, <2>2
      <4> QED BY ONLY <4>1, <4>3, <4>4, <2>2
    <3>4. \A i \in DOMAIN q :
            /\ Shows(q[i]) => l.ready
            /\ q[i].kind = "frame" => q[i].tab < svc.next /\ Explained(v, q, i, q[i].tab)
            /\ q[i].kind = "catalog" => \A id \in Terminals(q[i].tabs) : Stands(q, i, id)
      BY <3>1 DEF Arriving, q
    <3> QED BY <2>7, <2>8, <3>2, <3>4
  <2>10. Placed(p) /\ Keyed(p, l.out, heard[v], x) /\ Follows(v, p, l, k) /\ Claimed(v, p, l, k)
         /\ Shown(p) /\ Quiet(p)
    BY <2>1 DEF Good, k
  <2>11. Bound(win[v], link[v], v, Rest(v))'
    BY <2>4 DEF Bound, p, l
  <2>12. Keyed(win[v], link[v].out, heard[v], Rest(v))'
    BY <2>1, <2>4, <2>7, <2>10 DEF Keyed, p, l
  <2>13. Follows(v, win[v], link[v], 0)'
    BY <2>7, <2>8, <2>10 DEF Follows, Online, p, l, q
  <2>14. Claimed(v, win[v], link[v], 0)'
    BY <2>7, <2>8, <2>10 DEF Claimed, Online, p, l, q
  <2> QED BY <2>4, <2>9, <2>10, <2>11, <2>12, <2>13, <2>14 DEF Good, p, l
<1> QED BY <1>3, <1>5, <1>6 DEF WindowsInv

-----------------------------------------------------------------------------
(* The callbacks. *)

LEMMA RestFields ==
    ASSUME WindowsInv, NEW v \in Window
    PROVE  /\ Rest(v) \in Context /\ Rest(v).at = 0 /\ Rest(v).in = link[v].in
           /\ Rest(v).later = {} /\ Rest(v).top = typed /\ Rest(v).off = {}
           /\ Rest(v).alive = Alive(win[v])
           /\ Good(v, win[v], link[v], Rest(v)) /\ Arriving(v)
<1>1. Rest(v) \in Context
  BY Idles
<1> QED BY <1>1 DEF Rest, WindowsInv

LEMMA ReceiveStep ==
    ASSUME WindowsInv, NEW w \in Window, NEW n \in 1..Len(link[w].in), Receive(w, n)
    PROVE  WindowsInv'
<1> DEFINE q == link[w].in
          r == SubSeq(q, n + 1, Len(q))
          l == [link[w] EXCEPT !.in = r]
          x == [Rest(w) EXCEPT !.in = r]
          c == At(Idle, w, x)
          y == Advance(x, n)
<1>1. /\ J(Ui, Idle) /\ Resting(Idle, typed) /\ Idle \in [Window -> Context] /\ Idle[w] = Rest(w)
      /\ win[w] \in AppType /\ link[w] \in LinkType /\ q \in Seq(NoticeType)
      /\ Ui.win[w] = win[w] /\ Ui.link[w] = link[w]
  BY Idles
<1>2. /\ Rest(w) \in Context /\ Rest(w).at = 0 /\ Rest(w).in = link[w].in
      /\ Rest(w).later = {} /\ Rest(w).top = typed /\ Rest(w).off = {}
      /\ Rest(w).alive = Alive(win[w])
      /\ Good(w, win[w], link[w], Rest(w)) /\ Arriving(w)
  BY RestFields
<1>3. r \in Seq(NoticeType) /\ n \in 0..Len(q) /\ n \in Nat
  <2>1. Len(q) \in Nat /\ n \in Nat /\ n <= Len(q)
    BY <1>1
  <2>2. n + 1 \in 1..(Len(q) + 1) /\ Len(q) \in 0..Len(q)
    BY <2>1
  <2>3. r \in Seq(NoticeType)
    BY <1>1, <2>1, <2>2
  <2> QED BY <2>1, <2>3
<1> HIDE DEF q, r
<1>4. l \in LinkType /\ l.in = r /\ l.up = link[w].up /\ l.ready = link[w].ready /\ l.out = link[w].out
  BY <1>1, <1>3 DEF LinkType
<1>5. /\ x \in Context /\ x.at = 0 /\ x.in = r /\ x.later = {} /\ x.top = typed /\ x.off = {}
      /\ x.alive = Rest(w).alive
  BY <1>2, <1>3 DEF Context
<1> HIDE DEF l, x
<1>6. Good(w, win[w], l, x)
  <2>1. Bound(win[w], l, w, x) /\ Follows(w, win[w], l, x.at)
    BY <1>2, <1>4, <1>5 DEF Good, Bound, Follows, Online
  <2>2. Keyed(win[w], l.out, heard[w], x)
    BY <1>2, <1>4, <1>5 DEF Good, Keyed
  <2>3. Claimed(w, win[w], l, x.at)
    BY <1>2, <1>4, <1>5 DEF Good, Claimed, Online
  <2> QED BY <1>2, <1>5, <2>1, <2>2, <2>3 DEF Good
<1>7. Took(w, n) = [win |-> [Ui.win EXCEPT ![w] = win[w]], link |-> [Ui.link EXCEPT ![w] = l]]
  <2>1. win \in [Window -> AppType] /\ Ui.win = win /\ Ui.link = link
    BY DEF WindowsInv, UiType, Ui
  <2> QED BY <2>1 DEF Took, l, r, q
<1>8. J(Took(w, n), c)
  <2>1. win[w].views \subseteq Ui.win[w].views
    BY <1>1
  <2>2. J([win |-> [Ui.win EXCEPT ![w] = win[w]], link |-> [Ui.link EXCEPT ![w] = l]],
          At(Idle, w, x))
    BY ONLY <1>1, <1>4, <1>5, <1>6, <2>1, w \in Window, OneWindow
  <2> QED BY <1>7, <2>2
<1>9. y \in Context /\ y.at = n /\ y.in = r /\ y.later = {} /\ y.top = typed /\ y.off = {}
  BY <1>3, <1>5, AdvanceFields
<1>10. /\ c \in [Window -> Context] /\ c[w] = x /\ At(c, w, y) = At(Idle, w, y)
       /\ At(Idle, w, y)[w] = y /\ \A v \in Window : v # w => At(Idle, w, y)[v] = Idle[v]
  BY <1>1, <1>5, <1>9, AtAt
<1> HIDE DEF c, y
<1>11. x.alive
  BY <1>2, <1>5 DEF Receive
<1>12. J(Applied(w, n), At(c, w, Advance(c[w], n)))
  BY <1>1, <1>2, <1>3, <1>5, <1>8, <1>10, <1>11, AppliedKeeps DEF q
<1>13. At(c, w, Advance(c[w], n)) = At(Idle, w, y)
  BY <1>10 DEF y
<1>14. Resting(At(Idle, w, y), typed)
  <2>1. /\ y.off = {} /\ y.later = {} /\ y.top = typed /\ y.at \in 0..Len(link[w].in)
        /\ y.in = SubSeq(link[w].in, y.at + 1, Len(link[w].in))
    BY <1>3, <1>9 DEF q, r
  <2> QED BY <1>1, <1>10, <2>1 DEF Resting
<1>15. typed' = typed /\ typed \in Nat /\ Becomes(Applied(w, n)) /\ UNCHANGED <<svc, heard>>
  BY DEF Receive, WindowsInv
<1> QED BY <1>12, <1>13, <1>14, <1>15, Lands

LEMMA ReadEndStep ==
    ASSUME WindowsInv, NEW w \in Window, ReadEnd(w)
    PROVE  WindowsInv'
<1>1. J(Lost(Ui, w), Idle) /\ Resting(Idle, typed)
  BY Idles, LostKeeps
<1>2. typed' = typed /\ typed \in Nat /\ Becomes(Lost(Ui, w)) /\ UNCHANGED <<svc, heard>>
  BY DEF ReadEnd, WindowsInv
<1> QED BY <1>1, <1>2, Lands

LEMMA ShowBrowserStep ==
    ASSUME WindowsInv, NEW w \in Window, ShowBrowser(w)
    PROVE  WindowsInv'
<1>1. J(Ui, Idle) /\ Resting(Idle, typed) /\ win[w] \in AppType /\ Ui.win[w] = win[w]
  BY Idles
<1>2. win[w].active \in Nat
  BY <1>1 DEF AppType
<1>3. typed' = typed /\ typed \in Nat /\ Alive(win[w])
      /\ Becomes(ClaimBrowser(Ui, w, win[w].active)) /\ UNCHANGED <<svc, heard>>
  BY DEF ShowBrowser, WindowsInv
<1>4. J(ClaimBrowser(Ui, w, win[w].active), Idle)
  BY <1>1, <1>2, <1>3, ClaimKeeps
<1> QED BY <1>1, <1>3, <1>4, Lands

LEMMA SelectStep ==
    ASSUME WindowsInv, NEW w \in Window, NEW id \in Ids(win[w].pages), Select(w, id)
    PROVE  WindowsInv'
<1> DEFINE p == win[w]
          q == [p EXCEPT !.active = id]
          x == [Rest(w) EXCEPT !.off = {"claim"}]
<1>1. /\ J(Ui, Idle) /\ Resting(Idle, typed) /\ Idle \in [Window -> Context] /\ Idle[w] = Rest(w)
      /\ p \in AppType /\ Ui.win[w] = p /\ Ui.link[w] = link[w] /\ Ui \in UiType
  BY Idles DEF WindowsInv
<1>2. /\ Rest(w) \in Context /\ Rest(w).off = {} /\ Rest(w).alive = Alive(p)
      /\ Good(w, p, link[w], Rest(w))
  BY RestFields
<1>3. id \in Nat \ {0} /\ p.pages # <<>>
  <2>1. p.pages \in Pages
    BY <1>1 DEF AppType
  <2> QED BY <2>1, IdsType DEF Ids
<1>4. typed' = typed /\ typed \in Nat /\ Alive(p) /\ Becomes(Activate(Ui, w, id))
      /\ UNCHANGED <<svc, heard>>
  BY DEF Select, WindowsInv
<1> HIDE DEF p
<1>5. /\ q \in AppType /\ q.active = id
      /\ q.life = p.life /\ q.conn = p.conn /\ q.pages = p.pages /\ q.live = p.live
      /\ q.initial = p.initial /\ q.early = p.early /\ q.views = p.views /\ q.missed = p.missed
  BY <1>1, <1>3 DEF AppType
<1>6. /\ x \in Context /\ x.at = Rest(w).at /\ x.in = Rest(w).in /\ x.later = Rest(w).later
      /\ x.top = Rest(w).top /\ x.off = {"claim"} /\ x.alive = Rest(w).alive
      /\ Without(x, "claim") = Rest(w)
  <2>1. {"claim"} \ {"claim"} = {}
    OBVIOUS
  <2> QED BY <1>2, <2>1 DEF Context, Without
<1> HIDE DEF q, x
<1>7. Good(w, q, link[w], x)
  <2>1. Placed(q) /\ Bound(q, link[w], w, x) /\ Follows(w, q, link[w], x.at) /\ (x.alive => Alive(q))
    BY <1>2, <1>5, <1>6 DEF Good, Placed, Bound, Follows, Online, Alive
  <2>2. Keyed(q, link[w].out, heard[w], x)
    BY <1>2, <1>5, <1>6 DEF Good, Keyed
  <2>3. Shown(q) /\ Quiet(q)
    BY <1>2, <1>3, <1>5 DEF Good, Shown, Quiet, NoTab
  <2> QED BY <1>6, <2>1, <2>2, <2>3 DEF Good
<1> DEFINE c == At(Idle, w, x)
<1>8. J(With(Ui, w, q), c)
  BY <1>1, <1>5, <1>6, <1>7, OneApp
<1>9. c[w] = x /\ At(c, w, Rest(w)) = Idle
  <2>1. At(c, w, Rest(w)) = At(Idle, w, Rest(w)) /\ c[w] = x
    BY <1>1, <1>2, <1>6, AtAt
  <2>2. At(Idle, w, Idle[w]) = Idle
    BY <1>1, Same
  <2> QED BY <1>1, <2>1, <2>2
<1> HIDE DEF c
<1>10. J(With(Ui, w, [Ui.win[w] EXCEPT !.active = id]), c)
  BY <1>1, <1>8 DEF q
<1>11. J(Activate(Ui, w, id), At(c, w, Without(c[w], "claim")))
  BY <1>1, <1>3, <1>4, <1>10, ActivateKeeps
<1>12. J(Activate(Ui, w, id), Idle)
  BY <1>6, <1>9, <1>11
<1> QED BY <1>1, <1>4, <1>12, Lands

(* A key is about to be pressed.                                             *)
Expecting(v, L) == [Rest(v) EXCEPT !.later = L, !.top = typed + 1]
LEMMA ExpectingGood ==
    ASSUME WindowsInv, NEW v \in Window, NEW L, L \subseteq {typed + 1}
    PROVE  /\ Expecting(v, L) \in Context /\ Good(v, win[v], link[v], Expecting(v, L))
           /\ Expecting(v, L).at = 0 /\ Expecting(v, L).in = link[v].in
           /\ Expecting(v, L).later = L /\ Expecting(v, L).top = typed + 1
           /\ Expecting(v, L).off = {} /\ Expecting(v, L).alive = Alive(win[v])
<1> DEFINE x == Expecting(v, L)
          p == win[v]
          l == link[v]
<1>1. /\ Rest(v) \in Context /\ Rest(v).at = 0 /\ Rest(v).in = l.in
      /\ Rest(v).later = {} /\ Rest(v).top = typed /\ Rest(v).off = {}
      /\ Rest(v).alive = Alive(p) /\ Good(v, p, l, Rest(v))
  BY RestFields
<1>2. typed \in Nat /\ heard[v] \in Nat /\ p \in AppType /\ l \in LinkType
  BY Idles DEF WindowsInv
<1>3. L \subseteq Nat /\ \A m \in L : m = typed + 1
  BY <1>2
<1>4. /\ x \in Context /\ x.at = 0 /\ x.in = l.in /\ x.later = L /\ x.top = typed + 1 /\ x.off = {}
      /\ x.alive = Alive(p)
  <2>1. Rest(v) \in Context /\ L \in SUBSET Nat /\ typed + 1 \in Nat
    BY <1>1, <1>2, <1>3
  <2>2. x \in Context
    BY <2>1 DEF Context, Expecting
  <2>3. /\ x.at = Rest(v).at /\ x.in = Rest(v).in /\ x.later = L /\ x.top = typed + 1
        /\ x.off = Rest(v).off /\ x.alive = Rest(v).alive
    BY <2>1 DEF Context, Expecting
  <2> HIDE DEF x, p, l
  <2> QED BY <1>1, <2>2, <2>3
<1>5. /\ \A i \in Inputs(l.out) : l.out[i].key \in Nat
      /\ \A i \in DOMAIN p.early : p.early[i].n \in Nat
  <2>1. \A i \in DOMAIN l.out : l.out[i] \in MessageType
    BY <1>2 DEF LinkType
  <2>2. \A i \in DOMAIN p.early : p.early[i] \in KeyType
    BY <1>2 DEF AppType
  <2> QED BY <2>1, <2>2 DEF Inputs, MessageType, KeyType
<1> HIDE DEF x, p, l
<1>6. Keyed(p, l.out, heard[v], Rest(v))
  BY <1>1 DEF Good
<1>7. Keyed(p, l.out, heard[v], x)
  <2>1. /\ heard[v] <= typed /\ \A i \in Inputs(l.out) : l.out[i].key <= typed
        /\ \A i \in DOMAIN p.early : p.early[i].n <= typed
    BY <1>1, <1>6 DEF Keyed
  <2>2. /\ heard[v] < typed + 1 /\ \A i \in Inputs(l.out) : l.out[i].key < typed + 1
        /\ \A i \in DOMAIN p.early : p.early[i].n < typed + 1
        /\ typed + 1 \in Nat
    BY <1>2, <1>5, <2>1
  <2>3. /\ heard[v] <= typed + 1 /\ \A i \in Inputs(l.out) : l.out[i].key <= typed + 1
        /\ \A i \in DOMAIN p.early : p.early[i].n <= typed + 1
    BY <1>2, <1>5, <2>2
  <2>4. \A m \in L : /\ m <= typed + 1 /\ heard[v] < m
                     /\ \A i \in DOMAIN p.early : p.early[i].n < m
                     /\ \A i \in Inputs(l.out) : l.out[i].key < m
    <3>1. typed + 1 <= typed + 1
      BY <2>2
    <3> QED BY ONLY <1>3, <2>2, <3>1
  <2>5. Ascending(p.early) /\ (~p.missed => InOrder(heard[v], l.out, p.early))
    BY <1>6 DEF Keyed
  <2> QED BY <1>4, <2>3, <2>4, <2>5 DEF Keyed
<1>8. Bound(p, l, v, x) /\ Follows(v, p, l, x.at) /\ Claimed(v, p, l, x.at) /\ (x.alive => Alive(p))
  BY <1>1, <1>4 DEF Good, Bound, Follows, Claimed, Online
<1>9. Good(v, p, l, x)
  BY <1>1, <1>4, <1>7, <1>8 DEF Good
<1> QED BY <1>4, <1>9 DEF x, p, l

LEMMA PressStep ==
    ASSUME WindowsInv, NEW w \in Window, NEW what \in {"text", "new", "close"}, Press(w, what)
    PROVE  WindowsInv'
<1> DEFINE n == typed + 1
          k == [n |-> n, what |-> what]
          c == [v \in Window |-> Expecting(v, IF v = w THEN {n} ELSE {})]
          y == Fewer(c[w], n)
          d == At(c, w, y)
<1>1. /\ J(Ui, Idle) /\ Ui.win[w] = win[w]
  BY Idles
<1>2. typed' = n /\ n \in Nat /\ Alive(win[w]) /\ Becomes(Key(Ui, w, k)) /\ UNCHANGED <<svc, heard>>
      /\ k \in KeyType /\ k.n = n
  BY DEF Press, WindowsInv, KeyType
<1>3. ASSUME NEW v \in Window
      PROVE  /\ c[v] \in Context /\ Good(v, Ui.win[v], Ui.link[v], c[v])
             /\ c[v].at = 0 /\ c[v].in = link[v].in /\ c[v].later = (IF v = w THEN {n} ELSE {})
             /\ c[v].top = n /\ c[v].off = {}
  <2> DEFINE L == IF v = w THEN {n} ELSE {}
  <2>1. L \subseteq {typed + 1} /\ c[v] = Expecting(v, L)
    OBVIOUS
  <2> HIDE DEF L, c
  <2>2. /\ Expecting(v, L) \in Context /\ Good(v, win[v], link[v], Expecting(v, L))
        /\ Expecting(v, L).at = 0 /\ Expecting(v, L).in = link[v].in
        /\ Expecting(v, L).later = L /\ Expecting(v, L).top = typed + 1
        /\ Expecting(v, L).off = {}
    BY ONLY WindowsInv, v \in Window, <2>1, ExpectingGood
  <2>3. Ui.win[v] = win[v] /\ Ui.link[v] = link[v]
    BY Idles
  <2> QED BY <2>1, <2>2, <2>3 DEF L
<1>4. c \in [Window -> Context]
  <2>1. c = [v \in Window |-> c[v]]
    OBVIOUS
  <2> HIDE DEF c
  <2> QED BY <1>3, <2>1
<1> HIDE DEF c, k, n
<1>5. J(Ui, c)
  BY <1>1, <1>3, <1>4 DEF J
<1>6. J(Key(Ui, w, k), d)
  <2>1. c[w].off = {} /\ k.n \in c[w].later /\ \A m \in c[w].later : m = k.n
    BY <1>2, <1>3
  <2> QED BY <1>1, <1>2, <1>5, <2>1, KeyKeeps
<1>7. /\ y \in Context /\ y.at = 0 /\ y.in = link[w].in /\ y.later = {} /\ y.top = n /\ y.off = {}
  <2>1. c[w] \in Context /\ c[w].later = {n} /\ c[w].at = 0 /\ c[w].in = link[w].in /\ c[w].top = n
        /\ c[w].off = {}
    BY <1>3
  <2> QED BY <2>1 DEF Context, Fewer
<1> HIDE DEF y
<1>8. d[w] = y /\ \A v \in Window : v # w => d[v] = c[v]
  BY <1>4, <1>7, AtAt
<1> HIDE DEF d
<1>9. Resting(d, n)
  <2>1. ASSUME NEW v \in Window
        PROVE  d[v].off = {} /\ d[v].later = {} /\ d[v].top = n /\ d[v].at = 0 /\ d[v].in = link[v].in
    BY <1>3, <1>7, <1>8
  <2>2. ASSUME NEW v \in Window
        PROVE  0 \in 0..Len(link[v].in) /\ link[v].in = SubSeq(link[v].in, 0 + 1, Len(link[v].in))
    BY Idles, Whole
  <2> QED BY <2>1, <2>2 DEF Resting
<1> QED BY <1>2, <1>6, <1>9, Lands

LEMMA GoneType ==
    ASSUME NEW life \in {"none", "open", "closing", "gone"}, NEW b \in BOOLEAN
    PROVE  /\ App(life) \in AppType /\ [App(life) EXCEPT !.missed = b] \in AppType
           /\ [App("gone") EXCEPT !.missed = b].conn = FALSE
           /\ [App("gone") EXCEPT !.missed = b].life = "gone"
           /\ [App("gone") EXCEPT !.missed = b].views = {}
           /\ [App("gone") EXCEPT !.missed = b].live = {}
           /\ [App("gone") EXCEPT !.missed = b].pages = <<>>
           /\ [App("gone") EXCEPT !.missed = b].early = <<>>
           /\ [App("gone") EXCEPT !.missed = b].missed = b
<1>1. <<>> \in Seq(PageType) /\ <<>> \in Seq(KeyType)
  OBVIOUS
<1>2. <<>> \in Pages
  BY <1>1 DEF Pages, Distinct
<1>3. (life = "open") \in BOOLEAN
  OBVIOUS
<1>4. App(life) \in AppType
  BY <1>1, <1>2, <1>3 DEF App, AppType, NoTab
<1>5. [App(life) EXCEPT !.missed = b] \in AppType
  BY <1>4 DEF AppType
<1> QED BY <1>4, <1>5 DEF App

LEMMA ClosedStep ==
    ASSUME WindowsInv, NEW w \in Window, Becomes(Destroyed(ReleaseBrowsers(Ui, w), w)),
           UNCHANGED <<svc, typed, heard>>
    PROVE  WindowsInv'
<1> DEFINE u == ReleaseBrowsers(Ui, w)
          p == u.win[w]
          l == u.link[w]
          q == [App("gone") EXCEPT !.missed = p.missed]
          x == [Rest(w) EXCEPT !.alive = FALSE]
          c == At(Idle, w, x)
<1>1. /\ J(u, Idle) /\ Resting(Idle, typed) /\ Idle \in [Window -> Context] /\ Idle[w] = Rest(w)
  BY Idles, ReleasedKeeps
<1>2. Destroyed(u, w) = [win |-> [u.win EXCEPT ![w] = q], link |-> [u.link EXCEPT ![w] = Shut(l)]]
  BY DEF Destroyed, Shut
<1> HIDE DEF u
<1>3. p \in AppType /\ l \in LinkType /\ Good(w, p, l, Rest(w))
  BY <1>1, Same
<1>4. /\ Rest(w) \in Context /\ Rest(w).off = {}
  BY RestFields
<1>5. /\ x \in Context /\ x.at = Rest(w).at /\ x.in = Rest(w).in /\ x.later = Rest(w).later
      /\ x.top = Rest(w).top /\ x.off = {} /\ x.alive = FALSE
  BY <1>4 DEF Context
<1>6. /\ q \in AppType /\ q.conn = FALSE /\ q.life = "gone" /\ q.views = {} /\ q.live = {}
      /\ q.pages = <<>> /\ q.early = <<>> /\ q.missed = p.missed
  <2>1. p.missed \in BOOLEAN
    BY <1>3 DEF AppType
  <2> HIDE DEF p
  <2> QED BY <2>1, GoneType
<1>7. /\ Shut(l) \in LinkType /\ Shut(l).in = <<>> /\ Shut(l).out = l.out /\ Shut(l).up = l.up
      /\ Shut(l).ready = l.ready
  BY <1>3, CutFields
<1> HIDE DEF p, l, q, x
<1>8. Good(w, q, Shut(l), x)
  <2>1. Placed(q) /\ Bound(q, Shut(l), w, x) /\ Follows(w, q, Shut(l), x.at)
        /\ Claimed(w, q, Shut(l), x.at) /\ Shown(q) /\ Quiet(q)
    BY <1>3, <1>5, <1>6, <1>7 DEF Good, Placed, Bound, Follows, Claimed, Online, Shown, Quiet
  <2>2. Keyed(q, Shut(l).out, heard[w], x)
    <3>1. DOMAIN <<>> = {}
      OBVIOUS
    <3>2. Keyed(p, l.out, heard[w], Rest(w))
      BY <1>3 DEF Good
    <3> QED BY <1>5, <1>6, <1>7, <3>1, <3>2 DEF Keyed, InOrder, Ascending
  <2> QED BY <1>5, <2>1, <2>2 DEF Good
<1>9. J(Destroyed(u, w), c)
  BY <1>1, <1>2, <1>5, <1>6, <1>7, <1>8, OneWindow
<1>10. c[w] = x /\ \A v \in Window : v # w => c[v] = Idle[v]
  BY <1>1, <1>5, AtAt
<1> HIDE DEF c
<1>11. Resting(c, typed)
  BY <1>1, <1>5, <1>10 DEF Resting
<1>12. typed' = typed /\ typed \in Nat
  BY DEF WindowsInv
<1> QED BY <1>9, <1>11, <1>12, Lands DEF u

LEMMA ReconnectBreaksStep ==
    ASSUME WindowsInv, NEW w \in Window, ReconnectBreaks(w)
    PROVE  WindowsInv'
<1> DEFINE p == win[w]
          q == [p EXCEPT !.initial = TRUE]
          u == With(Ui, w, q)
<1>1. /\ J(Ui, Idle) /\ Resting(Idle, typed) /\ Idle[w] = Rest(w)
      /\ p \in AppType /\ Ui.win[w] = p /\ Ui.link[w] = link[w]
      /\ At(Idle, w, Idle[w]) = Idle /\ Rest(w) \in Context
  BY Idles, Same, RestFields
<1>2. Becomes(u)
  <2>1. win' = [win EXCEPT ![w].initial = TRUE] /\ link' = link
    BY DEF ReconnectBreaks
  <2> QED BY <2>1 DEF Becomes, With, Ui
<1>3. typed' = typed /\ typed \in Nat /\ UNCHANGED <<svc, heard>>
  BY DEF ReconnectBreaks, WindowsInv
<1>4. Good(w, p, link[w], Rest(w))
  BY RestFields
<1> HIDE DEF p, u
<1>5. /\ q \in AppType /\ q.active = p.active /\ q.initial
      /\ q.life = p.life /\ q.conn = p.conn /\ q.pages = p.pages /\ q.live = p.live
      /\ q.early = p.early /\ q.views = p.views /\ q.missed = p.missed
  BY <1>1 DEF AppType
<1> HIDE DEF q
<1>6. Good(w, q, link[w], Rest(w))
  <2>1. /\ Placed(q) /\ Bound(q, link[w], w, Rest(w)) /\ Follows(w, q, link[w], Rest(w).at)
        /\ Claimed(w, q, link[w], Rest(w).at) /\ Shown(q) /\ (Quiet(p) => Quiet(q))
        /\ (Alive(p) => Alive(q))
    BY <1>4, <1>5 DEF Good, Placed, Bound, Follows, Claimed, Online, Shown, Quiet, Alive
  <2>2. Keyed(q, link[w].out, heard[w], Rest(w))
    BY <1>4, <1>5 DEF Good, Keyed
  <2> QED BY <1>4, <2>1, <2>2 DEF Good
<1>7. J(u, Idle)
  BY <1>1, <1>5, <1>6, OneApp DEF u
<1> QED BY <1>1, <1>2, <1>3, <1>7, Lands

LEMMA CloseStep ==
    ASSUME WindowsInv, NEW w \in Window, Close(w) \/ CloseAsked(w)
    PROVE  WindowsInv'
  BY ClosedStep DEF Close, CloseAsked

-----------------------------------------------------------------------------
(* Connections. *)

LEMMA Untouched ==
    ASSUME WindowsInv, NEW v \in Window, win'[v] = win[v], link'[v] = link[v],
           UNCHANGED <<svc, typed, heard>>
    PROVE  (Arriving(v) /\ Good(v, win[v], link[v], Rest(v)))'
<1>1. Arriving(v) /\ Good(v, win[v], link[v], Rest(v))
  BY RestFields
<1>2. svc' = svc /\ typed' = typed /\ heard' = heard
  OBVIOUS
<1>3. \A k, id : Stands(link[v].in, k, id)' <=> Stands(link[v].in, k, id)
  BY <1>2 DEF Stands, GoneUntold
<1>4. \A k, id : Explained(v, link[v].in, k, id)' <=> Explained(v, link[v].in, k, id)
  BY <1>2 DEF Explained, GoneUntold, Controls
<1>5. Rest(v)' = Rest(v)
  BY <1>2 DEF Rest, Alive
<1>6. Arriving(v)'
  BY <1>1, <1>2 DEF Arriving, Stands, Explained, GoneUntold, Controls
<1>7. Bound(win[v], link[v], v, Rest(v))'
  BY <1>1, <1>5 DEF Bound, Good
<1>8. Keyed(win[v], link[v].out, heard[v], Rest(v))'
  BY <1>1, <1>2, <1>5 DEF Keyed, Good
<1>9. Follows(v, win[v], link[v], 0)' /\ Claimed(v, win[v], link[v], 0)'
  <2>1. Follows(v, win[v], link[v], 0) /\ Claimed(v, win[v], link[v], 0)
    BY RestFields DEF Good
  <2> QED BY <2>1, <1>2 DEF Follows, Claimed, Online, Stands, Explained, GoneUntold, Controls
<1>10. /\ Placed(win'[v]) /\ Shown(win'[v]) /\ Quiet(win'[v])
       /\ Rest(v)'.at = 0 /\ Rest(v)'.alive = Alive(win'[v])
  BY <1>1, <1>5, RestFields DEF Good
<1> QED BY <1>6, <1>7, <1>8, <1>9, <1>10 DEF Good

LEMMA ConnectStep ==
    ASSUME WindowsInv, NEW w \in Window, NEW p \in AppType, p.initial, p.views \subseteq win[w].views,
           Placed(p), Shown(p), Quiet(p), Keyed(p, <<>>, heard[w], Rest(w)),
           NEW m \in MessageType, m.kind # "input", svc.up,
           win' = [win EXCEPT ![w] = p], link' = [link EXCEPT ![w] = FreshLink(m)],
           UNCHANGED <<svc, typed, heard>>
    PROVE  WindowsInv'
<1> DEFINE l == FreshLink(m)
<1>1. win \in [Window -> AppType] /\ link \in [Window -> LinkType] /\ Disjoint(win)
  BY DEF WindowsInv, UiType, Ui
<1>2. /\ l \in LinkType /\ l.in = <<>> /\ l.out = <<m>>
  <2>1. <<>> \in Seq(NoticeType) /\ <<m>> \in Seq(MessageType)
    OBVIOUS
  <2> QED BY <2>1 DEF FreshLink, LinkType
<1> HIDE DEF l
<1>3. /\ win'[w] = p /\ link'[w] = l
      /\ \A v \in Window : v # w => win'[v] = win[v] /\ link'[v] = link[v]
      /\ win' \in [Window -> AppType] /\ link' \in [Window -> LinkType]
  BY <1>1, <1>2 DEF l
<1>4. Ui' \in UiType
  BY <1>3 DEF Ui, UiType
<1>5. Disjoint(win')
  BY <1>1, <1>3 DEF Disjoint
<1>6. SvcOK'
  BY DEF SvcOK, WindowsInv
<1>7. (Arriving(w) /\ Good(w, win[w], link[w], Rest(w)))'
  <2>1. Arriving(w)'
    BY <1>2, <1>3 DEF Arriving
  <2>2. /\ Rest(w)'.at = 0 /\ Rest(w)'.in = link'[w].in /\ Rest(w)'.later = {}
        /\ Rest(w)'.top = typed /\ Rest(w)'.off = {} /\ Rest(w)'.alive = Alive(p)
    BY <1>3 DEF Rest, Alive
  <2>3. Bound(win[w], link[w], w, Rest(w))'
    BY <2>2 DEF Bound
  <2>4. Inputs(<<m>>) = {} /\ Inputs(<<>>) = {}
    BY DEF Inputs
  <2>5. Rest(w).later = {} /\ Rest(w).top = typed
    BY RestFields
  <2>6. Keyed(win[w], link[w].out, heard[w], Rest(w))'
    BY <1>2, <1>3, <2>2, <2>4, <2>5 DEF Keyed, InOrder
  <2>7. Follows(w, win[w], link[w], 0)' /\ Claimed(w, win[w], link[w], 0)'
    BY <1>3 DEF Follows, Claimed, Online
  <2> QED BY <1>3, <2>1, <2>2, <2>3, <2>6, <2>7 DEF Good
<1>8. \A v \in Window : (Arriving(v) /\ Good(v, win[v], link[v], Rest(v)))'
  BY <1>3, <1>7, Untouched
<1> QED BY <1>4, <1>5, <1>6, <1>8 DEF WindowsInv

LEMMA FirstType ==
    ASSUME NEW first \in {"hello", "attach", "browser"}
    PROVE  Message(first, NoTab, 0) \in MessageType /\ Message(first, NoTab, 0).kind # "input"
  BY DEF Message, MessageType, NoTab

LEMMA OpenStep ==
    ASSUME WindowsInv, NEW w \in Window, NEW first \in {"hello", "attach", "browser"},
           Open(w, first)
    PROVE  WindowsInv'
<1> DEFINE p == App("open")
<1>1. p \in AppType
  <2>1. FALSE \in BOOLEAN
    OBVIOUS
  <2> QED BY <2>1, GoneType
<1>2. /\ p.initial /\ p.views = {} /\ p.live = {} /\ p.pages = <<>> /\ p.early = <<>>
      /\ p.missed = FALSE /\ p.life = "open"
  BY DEF App
<1>3. Keyed(win[w], link[w].out, heard[w], Rest(w)) /\ Rest(w).later = {}
  BY RestFields DEF Good
<1> HIDE DEF p
<1>4. Placed(p) /\ Shown(p) /\ Quiet(p)
  BY <1>2 DEF Placed, Shown, Quiet
<1>5. Keyed(p, <<>>, heard[w], Rest(w))
  <2>1. DOMAIN <<>> = {} /\ Inputs(<<>>) = {}
    BY DEF Inputs
  <2> QED BY <1>2, <1>3, <2>1 DEF Keyed, InOrder, Ascending
<1>6. /\ svc.up /\ win' = [win EXCEPT ![w] = p]
      /\ link' = [link EXCEPT ![w] = FreshLink(Message(first, NoTab, 0))]
      /\ UNCHANGED <<svc, typed, heard>>
  BY DEF Open, p
<1> QED BY <1>1, <1>2, <1>4, <1>5, <1>6, FirstType, ConnectStep

LEMMA ReconnectStep ==
    ASSUME WindowsInv, NEW w \in Window, Reconnect(w)
    PROVE  WindowsInv'
<1> DEFINE q == win[w]
          p == [q EXCEPT !.conn = TRUE, !.initial = TRUE, !.timer = FALSE]
<1>1. win \in [Window -> AppType] /\ q \in AppType
  BY DEF WindowsInv, UiType, Ui
<1>2. /\ svc.up /\ win' = [win EXCEPT ![w] = p]
      /\ link' = [link EXCEPT ![w] = FreshLink(Message("attach", NoTab, 0))]
      /\ UNCHANGED <<svc, typed, heard>>
  BY DEF Reconnect
<1>3. Good(w, q, link[w], Rest(w)) /\ Rest(w).later = {} /\ Rest(w).off = {}
  BY RestFields
<1> HIDE DEF q
<1>4. /\ p \in AppType /\ p.initial /\ p.life = q.life /\ p.views = q.views /\ p.live = q.live
      /\ p.pages = q.pages /\ p.early = q.early /\ p.missed = q.missed /\ p.active = q.active
  BY <1>1 DEF AppType
<1> HIDE DEF p
<1>5. Placed(p) /\ Shown(p) /\ Quiet(p)
  BY <1>3, <1>4 DEF Good, Placed, Shown, Quiet, Alive
<1>6. Keyed(p, <<>>, heard[w], Rest(w))
  <2>1. Inputs(<<>>) = {}
    BY DEF Inputs
  <2> QED BY <1>3, <1>4, <2>1 DEF Good, Keyed, InOrder
<1> QED BY <1>2, <1>4, <1>5, <1>6, FirstType, ConnectStep DEF q

-----------------------------------------------------------------------------
(* What the service does to a window. *)

(* A change of the service from a to b, told to window v by the notices ms,  *)
(* leaves what it stands for, or says so.                                    *)
Carries(v, a, b, ms) ==
    \A id \in Nat : id < a.next =>
        /\ (id \in Terminals(a.tabs) \/ GoneUntold(a, id))
               => (id \in Terminals(b.tabs) \/ GoneUntold(b, id) \/ Doomed(ms, 0, id))
        /\ (Controls(a, v, id) \/ GoneUntold(a, id))
               => (Controls(b, v, id) \/ GoneUntold(b, id) \/ Notified(ms, 0, id))

(* Notices that are true of the service b when window v gets them.           *)
Truthful(v, b, ms) ==
    \A j \in DOMAIN ms :
        /\ ms[j].kind = "frame" => ms[j].tab < b.next /\ Controls(b, v, ms[j].tab)
        /\ ms[j].kind = "catalog" => Terminals(ms[j].tabs) \subseteq Terminals(b.tabs)

LEMMA TerminalsBelow ==
    ASSUME NEW sv, Sound(sv), NEW id \in Terminals(sv.tabs)
    PROVE  id < sv.next
  BY DEF Sound, Terminals

LEMMA Extended ==
    ASSUME NEW q \in Seq(NoticeType), NEW ms \in Seq(NoticeType), NEW k \in 0..Len(q), NEW id
    PROVE  /\ Doomed(q, k, id) => Doomed(q \o ms, k, id)
           /\ Notified(q, k, id) => Notified(q \o ms, k, id)
           /\ Doomed(ms, 0, id) => Doomed(q \o ms, k, id)
           /\ Notified(ms, 0, id) => Notified(q \o ms, k, id)
<1>1. Len(q) \in Nat /\ Len(ms) \in Nat /\ k \in Nat /\ k <= Len(q)
  OBVIOUS
<1>2. ASSUME NEW j \in DOMAIN q
      PROVE  j \in DOMAIN (q \o ms) /\ (q \o ms)[j] = q[j]
  OBVIOUS
<1>3. ASSUME NEW j \in DOMAIN ms
      PROVE  /\ Len(q) + j \in DOMAIN (q \o ms) /\ (q \o ms)[Len(q) + j] = ms[j]
             /\ Len(q) + j > k
  BY <1>1
<1> DEFINE t == q \o ms
<1> HIDE DEF t
<1>4. Doomed(q, k, id) => Doomed(t, k, id)
  BY <1>2 DEF Doomed, t
<1>5. Notified(q, k, id) => Notified(t, k, id)
  BY <1>2 DEF Notified, t
<1>6. Doomed(ms, 0, id) => Doomed(t, k, id)
  BY <1>3 DEF Doomed, t
<1>7. Notified(ms, 0, id) => Notified(t, k, id)
  BY <1>3 DEF Notified, t
<1> QED BY <1>4, <1>5, <1>6, <1>7 DEF t

LEMMA NoNotice == DOMAIN <<>> = {}
  OBVIOUS

LEMMA ServedGood ==
    ASSUME WindowsInv, NEW v \in Window, win'[v] = win[v], UNCHANGED typed, Sound(svc'),
           NEW ms \in Seq(NoticeType),
           win[v].conn /\ link'[v].up =>
               /\ link[v].up /\ (link[v].ready => link'[v].ready)
               /\ link'[v].in = link[v].in \o ms
               /\ \A j \in DOMAIN ms : Shows(ms[j]) => link'[v].ready
               /\ svc.next <= svc'.next
               /\ link[v].ready => Carries(v, svc, svc', ms)
               /\ Truthful(v, svc', ms)
               /\ \A i \in DOMAIN link[v].out :
                    link[v].out[i] = Focus(win[v].active) /\ link[v].ready
                    /\ win[v].active \in win[v].live /\ ~win[v].initial
                       => \/ \E j \in DOMAIN link'[v].out : link'[v].out[j] = Focus(win[v].active)
                          \/ Controls(svc', v, win[v].active) \/ GoneUntold(svc', win[v].active)
                          \/ Notified(link'[v].in, 0, win[v].active),
           Keyed(win[v], link'[v].out, heard'[v], Rest(v))
    PROVE  (Arriving(v) /\ Good(v, win[v], link[v], Rest(v)))'
<1> DEFINE p == win[v]
          q == link[v].in
          r == link'[v].in
          b == svc'
<1>1. /\ Rest(v).later = {} /\ Rest(v).top = typed /\ Rest(v).off = {} /\ Rest(v).at = 0
      /\ Good(v, p, link[v], Rest(v)) /\ Arriving(v)
      /\ p \in AppType /\ link[v] \in LinkType /\ q \in Seq(NoticeType) /\ Len(q) \in Nat
      /\ Sound(svc)
  BY RestFields, Idles DEF SvcOK, WindowsInv
<1>2. /\ Rest(v)'.at = 0 /\ Rest(v)'.in = r /\ Rest(v)'.later = {}
      /\ Rest(v)'.top = typed /\ Rest(v)'.off = {} /\ Rest(v)'.alive = Alive(win'[v])
  BY DEF Rest, Alive
<1>3. Bound(win[v], link[v], v, Rest(v))'
  BY <1>2 DEF Bound
<1>4. Keyed(win[v], link[v].out, heard[v], Rest(v))'
  BY <1>1, <1>2 DEF Keyed
<1>5. Placed(win'[v]) /\ Shown(win'[v]) /\ Quiet(win'[v])
  BY <1>1 DEF Good
<1>6. CASE ~(p.conn /\ link'[v].up)
  <2>1. Arriving(v)' /\ Follows(v, win[v], link[v], 0)' /\ Claimed(v, win[v], link[v], 0)'
    BY <1>6 DEF Arriving, Follows, Claimed, Online
  <2> QED BY <1>2, <1>3, <1>4, <1>5, <2>1 DEF Good
<1>7. CASE p.conn /\ link'[v].up
  <2>1. /\ link[v].up /\ (link[v].ready => link'[v].ready) /\ r = q \o ms
        /\ (\A j \in DOMAIN ms : Shows(ms[j]) => link'[v].ready) /\ Truthful(v, b, ms) /\ svc.next <= b.next
        /\ (link[v].ready => Carries(v, svc, b, ms))
    BY <1>7
  <2>2. ASSUME NEW k \in 0..Len(q), NEW id
        PROVE  /\ Doomed(q, k, id) => Doomed(r, k, id)
               /\ Notified(q, k, id) => Notified(r, k, id)
               /\ Doomed(ms, 0, id) => Doomed(r, k, id)
               /\ Notified(ms, 0, id) => Notified(r, k, id)
    BY <1>1, <2>1, Extended
  <2>3. svc.next \in Nat /\ b.next \in Nat /\ svc.next <= b.next
    BY <1>1, <2>1 DEF Sound, SvcType
  <2>4. ASSUME NEW k \in 0..Len(q), NEW id \in Nat, Stands(q, k, id), link[v].ready
        PROVE  Stands(link[v].in, k, id)'
    <3>1. id < svc.next /\ (id \in Terminals(svc.tabs) \/ Doomed(q, k, id) \/ GoneUntold(svc, id))
      BY <2>4 DEF Stands
    <3>2. id < b.next
      BY <2>3, <3>1
    <3>3. (id \in Terminals(svc.tabs) \/ GoneUntold(svc, id))
               => (id \in Terminals(b.tabs) \/ GoneUntold(b, id) \/ Doomed(ms, 0, id))
      BY <2>1, <2>4, <3>1 DEF Carries
    <3>4. id \in Terminals(b.tabs) \/ Doomed(r, k, id) \/ GoneUntold(b, id)
      BY <2>2, <3>1, <3>3
    <3> QED BY <3>2, <3>4 DEF Stands
  <2>5. ASSUME NEW k \in 0..Len(q), NEW id \in Nat, id < svc.next, Explained(v, q, k, id),
               link[v].ready
        PROVE  Controls(b, v, id) \/ Notified(r, k, id) \/ GoneUntold(b, id)
    <3>1. Controls(svc, v, id) \/ Notified(q, k, id) \/ GoneUntold(svc, id)
      BY <2>5 DEF Explained
    <3>2. (Controls(svc, v, id) \/ GoneUntold(svc, id))
               => (Controls(b, v, id) \/ GoneUntold(b, id) \/ Notified(ms, 0, id))
      BY <2>1, <2>5 DEF Carries
    <3> QED BY <2>2, <3>1, <3>2
  <2>6. 0 \in 0..Len(q)
    BY <1>1
  <2>7. ASSUME NEW i \in DOMAIN r, i \in DOMAIN q
        PROVE  /\ i \in 0..Len(q) /\ r[i] = q[i] /\ q[i] \in NoticeType
               /\ Shows(r[i]) => link[v].ready
    <3>1. i \in 0..Len(q) /\ r[i] = q[i] /\ q[i] \in NoticeType
      BY <1>1, <2>1, <2>7
    <3> QED BY <1>1, <1>7, <2>1, <3>1 DEF Arriving
  <2>8. ASSUME NEW i \in DOMAIN r, i \notin DOMAIN q
        PROVE  i - Len(q) \in DOMAIN ms /\ r[i] = ms[i - Len(q)]
    BY <1>1, <2>1, <2>8
  <2>9. ASSUME NEW i \in DOMAIN r, r[i].kind = "catalog", NEW id \in Terminals(r[i].tabs)
        PROVE  Stands(link[v].in, i, id)'
    <3>1. CASE i \in DOMAIN q
      <4>1. Stands(q, i, id)
        BY <1>1, <1>7, <2>1, <2>7, <2>9, <3>1 DEF Arriving
      <4>2. q[i].tabs \in Pages /\ r[i] = q[i] /\ i \in 0..Len(q)
        BY <2>7, <2>9, <3>1, Notices
      <4>3. id \in Nat
        BY <2>9, <4>2, KindsApart
      <4> QED BY <2>4, <2>7, <2>9, <3>1, <4>1, <4>2, <4>3 DEF Shows
    <3>2. CASE i \notin DOMAIN q
      <4>1. id \in Terminals(b.tabs)
        BY <2>1, <2>8, <2>9, <3>2 DEF Truthful
      <4>2. id < b.next
        BY <4>1, TerminalsBelow
      <4> QED BY <4>1, <4>2 DEF Stands
    <3> QED BY <3>1, <3>2
  <2>10. ASSUME NEW i \in DOMAIN r, r[i].kind = "frame"
         PROVE  /\ r[i].tab < b.next
                /\ \/ Controls(b, v, r[i].tab) \/ Notified(r, i, r[i].tab)
                   \/ GoneUntold(b, r[i].tab)
    <3>1. CASE i \in DOMAIN q
      <4>1. q[i].tab < svc.next /\ Explained(v, q, i, q[i].tab)
        BY <1>1, <1>7, <2>1, <2>7, <2>10, <3>1 DEF Arriving
      <4>2. q[i].tab \in Nat /\ r[i] = q[i] /\ i \in 0..Len(q)
        BY <2>7, <2>10, <3>1, Notices
      <4>3. q[i].tab < b.next
        BY <2>3, <4>1, <4>2
      <4> QED BY <2>5, <2>7, <2>10, <3>1, <4>1, <4>2, <4>3 DEF Shows
    <3>2. CASE i \notin DOMAIN q
      BY <2>1, <2>8, <2>10, <3>2 DEF Truthful
    <3> QED BY <3>1, <3>2
  <2>11. \A i \in DOMAIN r : Shows(r[i]) => link'[v].ready
    BY <2>1, <2>7, <2>8
  <2>12. Arriving(v)'
    BY <2>9, <2>10, <2>11 DEF Arriving, Explained
  <2>13. Follows(v, win[v], link[v], 0)'
    <3>1. ASSUME ~p.initial
          PROVE  link'[v].ready /\ \A id \in Terminals(p.pages) : Stands(link[v].in, 0, id)'
      <4>1. link[v].ready /\ \A id \in Terminals(p.pages) : Stands(q, 0, id)
        BY <1>1, <1>7, <2>1, <3>1 DEF Good, Follows, Online
      <4>2. Terminals(p.pages) \subseteq Nat
        BY <1>1, KindsApart DEF AppType
      <4> QED BY <2>1, <2>4, <2>6, <4>1, <4>2
    <3> QED BY <3>1 DEF Follows, Online
  <2>14. Claimed(v, win[v], link[v], 0)'
    <3> SUFFICES ASSUME ~p.initial, ~p.missed, p.active \in p.live
                 PROVE  \/ \E j \in DOMAIN link'[v].out : link'[v].out[j] = Focus(p.active)
                        \/ Controls(b, v, p.active) \/ Notified(r, 0, p.active)
                        \/ GoneUntold(b, p.active)
      BY DEF Claimed, Online, Explained
    <3>1. (\E j \in DOMAIN link[v].out : link[v].out[j] = Focus(p.active))
          \/ Explained(v, q, 0, p.active)
      BY <1>1, <1>7, <2>1 DEF Good, Claimed, Online
    <3>2. link[v].ready /\ Stands(q, 0, p.active) /\ p.active \in Nat
      <4>1. p.active \in Terminals(p.pages) /\ p.active \in Nat
        BY <1>1 DEF Good, Placed, AppType
      <4> QED BY <1>1, <1>7, <2>1, <4>1 DEF Good, Follows, Online
    <3>3. p.active < svc.next
      BY <3>2 DEF Stands
    <3>4. ASSUME NEW j \in DOMAIN link[v].out, link[v].out[j] = Focus(p.active)
          PROVE  \/ \E i \in DOMAIN link'[v].out : link'[v].out[i] = Focus(p.active)
                 \/ Controls(b, v, p.active) \/ Notified(r, 0, p.active)
                 \/ GoneUntold(b, p.active)
      BY <1>7, <3>2, <3>4
    <3> QED BY <2>5, <2>6, <3>1, <3>2, <3>3, <3>4
  <2> QED BY <1>2, <1>3, <1>4, <1>5, <2>12, <2>13, <2>14 DEF Good
<1> QED BY <1>6, <1>7

-----------------------------------------------------------------------------
(* The service's tabs. *)

Announced(sv) == [sv EXCEPT !.closed = NoTab, !.fallback = NoTab, !.due = FALSE]

LEMMA CatalogFields ==
    ASSUME NEW sv, Sound(sv)
    PROVE  /\ CatalogOf(sv) \in NoticeType /\ CatalogOf(sv).kind = "catalog"
           /\ Terminals(CatalogOf(sv).tabs) = Terminals(sv.tabs)
<1> DEFINE ts == [i \in DOMAIN sv.tabs |-> Page(sv.tabs[i].id, sv.tabs[i].browser)]
<1>1. sv \in SvcType /\ sv.tabs \in Seq(TabType) /\ Distinct(sv.tabs)
  BY DEF Sound, SvcType
<1>2. \A i \in DOMAIN sv.tabs : sv.tabs[i] \in TabType
  BY <1>1
<1>3. \A i \in DOMAIN sv.tabs : /\ ts[i] \in PageType /\ ts[i].id = sv.tabs[i].id
                                /\ ts[i].browser = sv.tabs[i].browser
  BY <1>2 DEF TabType, PageType, Page
<1>4. ts \in Seq(PageType)
  <2>1. Len(sv.tabs) \in Nat /\ DOMAIN sv.tabs = 1..Len(sv.tabs)
    BY <1>1
  <2>2. ts \in [1..Len(sv.tabs) -> PageType]
    BY <1>3, <2>1
  <2> HIDE DEF ts
  <2> QED BY <2>1, <2>2
<1>5. DOMAIN ts = DOMAIN sv.tabs
  OBVIOUS
<1> HIDE DEF ts
<1>6. ts \in Pages
  BY <1>1, <1>3, <1>4, <1>5 DEF Pages, Distinct
<1>7. Terminals(ts) = Terminals(sv.tabs)
  BY <1>3, <1>5 DEF Terminals
<1>8. CatalogOf(sv) = [kind |-> "catalog", closed |-> sv.closed, fallback |-> sv.fallback, tabs |-> ts]
  BY DEF CatalogOf, ts
<1>9. sv.closed \in Nat /\ sv.fallback \in Nat
  BY <1>1 DEF SvcType
<1> QED BY <1>6, <1>7, <1>8, <1>9 DEF NoticeType

LEMMA GoneIs ==
    ASSUME NEW sv, Sound(sv), NEW id
    PROVE  GoneUntold(sv, id) <=> id \notin Terminals(sv.tabs) /\ (sv.due \/ sv.closed # NoTab)
<1>1. CatalogOf(sv).kind = "catalog" /\ Terminals(CatalogOf(sv).tabs) = Terminals(sv.tabs)
  BY CatalogFields
<1> QED BY <1>1 DEF GoneUntold, Dispossesses

LEMMA AnnouncedSound ==
    ASSUME NEW sv, Sound(sv)
    PROVE  /\ Sound(Announced(sv)) /\ Announced(sv).tabs = sv.tabs /\ Announced(sv).next = sv.next
           /\ Announced(sv).up = sv.up
<1>1. sv \in SvcType
  BY DEF Sound
<1>2. Announced(sv) \in SvcType
  BY <1>1 DEF SvcType, Announced, NoTab
<1>3. Announced(sv).tabs = sv.tabs /\ Announced(sv).next = sv.next /\ Announced(sv).up = sv.up
  BY <1>1 DEF SvcType, Announced
<1> QED BY <1>2, <1>3 DEF Sound

LEMMA CreatedSound ==
    ASSUME NEW sv, Sound(sv), NEW browser \in BOOLEAN, NEW owner \in Window \cup {None}
    PROVE  LET b == Created(sv, browser, owner) IN
           /\ Sound(b) /\ b.next = sv.next + 1 /\ b.up = sv.up
           /\ \A id \in Terminals(b.tabs) : id < sv.next => id \in Terminals(sv.tabs)
           /\ \A v, id : Controls(sv, v, id) => Controls(b, v, id)
           /\ Controls(b, owner, sv.next)
<1> DEFINE t == [id |-> sv.next, browser |-> browser, owner |-> owner]
          ts == sv.tabs
          us == Append(ts, t)
          e == Len(ts) + 1
          b == Created(sv, browser, owner)
<1>1. sv \in SvcType /\ ts \in Seq(TabType) /\ Distinct(ts) /\ sv.next \in Nat \ {0}
      /\ \A i \in DOMAIN ts : ts[i].id < sv.next
  BY DEF Sound, SvcType
<1>2. t \in TabType /\ t.id = sv.next /\ t.owner = owner
  BY <1>1 DEF TabType
<1>3. \A i \in DOMAIN ts : ts[i] \in TabType /\ ts[i].id \in Nat
  <2>1. \A i \in DOMAIN ts : ts[i] \in TabType
    BY <1>1
  <2> QED BY <2>1 DEF TabType
<1>4. b = [sv EXCEPT !.tabs = us, !.next = sv.next + 1]
  BY DEF Created
<1> HIDE DEF t
<1>5. /\ us \in Seq(TabType) /\ DOMAIN us = DOMAIN ts \cup {e} /\ us[e] = t /\ e \notin DOMAIN ts
      /\ \A i \in DOMAIN ts : us[i] = ts[i]
  BY <1>1, <1>2
<1> HIDE DEF us, ts, b, e
<1>6. b \in SvcType /\ b.tabs = us /\ b.next = sv.next + 1 /\ b.up = sv.up
  <2>1. sv.next + 1 \in Nat \ {0}
    BY <1>1
  <2>2. b \in SvcType
    BY <1>1, <1>4, <1>5, <2>1 DEF SvcType
  <2>3. b.tabs = us /\ b.next = sv.next + 1 /\ b.up = sv.up
    BY <1>1, <1>4 DEF SvcType
  <2> QED BY <2>2, <2>3
<1>7. \A i \in DOMAIN us : us[i].id < sv.next + 1
  BY <1>1, <1>2, <1>3, <1>5
<1>8. Distinct(us)
  BY <1>1, <1>2, <1>3, <1>5 DEF Distinct
<1>9. Sound(b)
  BY <1>6, <1>7, <1>8 DEF Sound
<1>10. \A id \in Terminals(us) : id < sv.next => id \in Terminals(ts)
  <2>1. ~(sv.next < sv.next)
    BY <1>1
  <2> QED BY <1>2, <1>5, <2>1 DEF Terminals
<1>11. \A v, id : Controls(sv, v, id) => Controls(b, v, id)
  BY <1>5, <1>6 DEF Controls, ts
<1>12. Controls(b, owner, sv.next)
  BY <1>2, <1>5, <1>6 DEF Controls
<1> QED BY <1>6, <1>9, <1>10, <1>11, <1>12 DEF b, ts

LEMMA ClosedSound ==
    ASSUME NEW sv, Sound(sv), NEW i \in DOMAIN sv.tabs
    PROVE  LET b == Closed(sv, i) IN
           /\ Sound(b) /\ b.next = sv.next /\ b.up = sv.up /\ b.closed # NoTab
           /\ Terminals(b.tabs) \subseteq Terminals(sv.tabs)
           /\ \A v, id : id \in Terminals(b.tabs) /\ Controls(sv, v, id) => Controls(b, v, id)
<1> DEFINE ts == sv.tabs
          us == SubSeq(ts, 1, i - 1) \o SubSeq(ts, i + 1, Len(ts))
          f == IF i < Len(ts) THEN ts[i + 1].id ELSE IF i > 1 THEN ts[i - 1].id ELSE NoTab
          b == Closed(sv, i)
          At2(j) == IF j < i THEN j ELSE j + 1
<1>1. sv \in SvcType /\ ts \in Seq(TabType) /\ Distinct(ts) /\ Len(ts) \in Nat /\ i \in 1..Len(ts)
      /\ \A j \in DOMAIN ts : ts[j].id < sv.next
  BY DEF Sound, SvcType
<1>2. \A j \in DOMAIN ts : ts[j] \in TabType
  BY <1>1
<1>3. b = [sv EXCEPT !.tabs = us, !.closed = ts[i].id, !.fallback = f]
  BY DEF Closed
<1>4. /\ us \in Seq(TabType) /\ Len(us) = Len(ts) - 1
      /\ \A j \in 1..(Len(ts) - 1) : us[j] = IF j < i THEN ts[j] ELSE ts[j + 1]
  <2> DEFINE a == SubSeq(ts, 1, i - 1)
             c == SubSeq(ts, i + 1, Len(ts))
  <2>1. /\ a \in Seq(TabType) /\ Len(a) = i - 1 /\ \A j \in 1..(i - 1) : a[j] = ts[j]
    BY <1>1
  <2>2. /\ c \in Seq(TabType) /\ Len(c) = Len(ts) - i
        /\ \A j \in 1..(Len(ts) - i) : c[j] = ts[j + i]
    <3>1. i + 1 \in 1..(Len(ts) + 1) /\ Len(ts) \in 0..Len(ts) /\ i \in Nat /\ i <= Len(ts)
      BY <1>1
    <3>2. c \in Seq(TabType)
      BY <1>1, <3>1
    <3>3. Len(c) = Len(ts) - i
      BY <1>1, <3>1
    <3>4. ASSUME NEW j \in 1..(Len(ts) - i) PROVE c[j] = ts[j + i]
      <4>0. \A n \in Nat : \A k \in Nat : \A h \in 1..(n - k) :
                h \in 1..(n - (k + 1) + 1) /\ (k + 1) + h - 1 = h + k
        OBVIOUS
      <4>1. j \in 1..(Len(ts) - (i + 1) + 1) /\ (i + 1) + j - 1 = j + i
        <5>1. Len(ts) \in Nat /\ i \in Nat
          BY <1>1
        <5> HIDE DEF ts
        <5> QED BY ONLY <4>0, <5>1, j \in 1..(Len(ts) - i)
      <4> HIDE DEF ts
      <4> QED BY ONLY <1>1, <3>1, <4>1, j \in 1..(Len(ts) - i)
    <3> QED BY <3>2, <3>3, <3>4
  <2> HIDE DEF a, c, ts
  <2>5. i \in Nat /\ 1 <= i /\ i <= Len(ts)
    BY <1>1
  <2>3. /\ a \o c \in Seq(TabType) /\ Len(a \o c) = Len(ts) - 1
        /\ \A j \in 1..(Len(ts) - 1) : (a \o c)[j] = IF j <= Len(a) THEN a[j] ELSE c[j - Len(a)]
    <3>1. a \o c \in Seq(TabType)
      BY <2>1, <2>2
    <3>2. Len(a \o c) = Len(a) + Len(c)
      BY <2>1, <2>2
    <3>3. Len(a) + Len(c) = Len(ts) - 1
      BY <1>1, <2>1, <2>2, <2>5
    <3>4. \A j \in 1..(Len(a) + Len(c)) : (a \o c)[j] = IF j <= Len(a) THEN a[j] ELSE c[j - Len(a)]
      <4>1. a \in Seq(TabType) /\ c \in Seq(TabType)
        BY <2>1, <2>2
      <4> QED BY ONLY <4>1
    <3> QED BY <3>1, <3>2, <3>3, <3>4
  <2>4. ASSUME NEW j \in 1..(Len(ts) - 1)
        PROVE  (a \o c)[j] = IF j < i THEN ts[j] ELSE ts[j + 1]
    <3>1. CASE j < i
      <4>1. j \in 1..(i - 1) /\ j <= Len(a)
        BY <1>1, <2>1, <2>5, <3>1
      <4> QED BY <2>1, <2>3, <3>1, <4>1
    <3>2. CASE ~(j < i)
      <4>1. j - (i - 1) \in 1..(Len(ts) - i) /\ ~(j <= Len(a)) /\ j - Len(a) = j - (i - 1)
            /\ (j - (i - 1)) + i = j + 1
        BY <1>1, <2>1, <2>5, <3>2
      <4> QED BY <2>2, <2>3, <3>2, <4>1
    <3> QED BY <3>1, <3>2
  <2> QED BY <2>3, <2>4 DEF a, c
<1>5. f \in Nat /\ ts[i].id \in Nat \ {0}
  BY <1>1, <1>2 DEF TabType, NoTab
<1> HIDE DEF us, f, b
<1>6. ASSUME NEW j \in DOMAIN us
      PROVE  /\ At2(j) \in DOMAIN ts /\ us[j] = ts[At2(j)] /\ At2(j) # i
             /\ \A k \in DOMAIN us : At2(j) = At2(k) => j = k
  <2>1. DOMAIN us = 1..(Len(ts) - 1)
    BY <1>1, <1>4
  <2>2. At2(j) \in DOMAIN ts /\ us[j] = ts[At2(j)] /\ At2(j) # i
    BY <1>1, <1>4, <2>1
  <2>3. \A k \in DOMAIN us : At2(j) = At2(k) => j = k
    BY <1>1, <2>1
  <2> QED BY <2>2, <2>3
<1>7. ASSUME NEW j \in DOMAIN ts, j # i PROVE \E k \in DOMAIN us : us[k] = ts[j]
  <2>1. DOMAIN us = 1..(Len(ts) - 1) /\ DOMAIN ts = 1..Len(ts)
    BY <1>1, <1>4
  <2>2. CASE j < i
    BY <1>1, <1>4, <2>1, <2>2
  <2>3. CASE j > i
    <3>1. j - 1 \in DOMAIN us /\ us[j - 1] = ts[j]
      BY <1>1, <1>4, <2>1, <2>3
    <3> QED BY <3>1
  <2> QED BY <1>1, <1>7, <2>1, <2>2, <2>3
<1>8. b \in SvcType /\ b.tabs = us /\ b.next = sv.next /\ b.up = sv.up /\ b.closed = ts[i].id
  BY <1>1, <1>3, <1>4, <1>5 DEF SvcType
<1> HIDE DEF ts, At2
<1>9. Distinct(us)
  BY <1>1, <1>6 DEF Distinct
<1>10. \A j \in DOMAIN us : us[j].id < sv.next
  BY <1>1, <1>6
<1>11. Terminals(us) \subseteq Terminals(ts)
  BY <1>6 DEF Terminals
<1>12. ASSUME NEW v, NEW id, id \in Terminals(us), Controls(sv, v, id)
       PROVE  Controls(b, v, id)
  <2>1. PICK k \in DOMAIN us : us[k].id = id
    BY <1>12 DEF Terminals
  <2>2. PICK j \in DOMAIN ts : ts[j].id = id /\ ts[j].owner = v
    BY <1>12 DEF Controls, ts
  <2>3. j = At2(k)
    BY <1>1, <1>6, <2>1, <2>2 DEF Distinct
  <2>4. us[k].owner = v
    BY <1>6, <2>2, <2>3
  <2> QED BY <1>8, <2>1, <2>4 DEF Controls
<1> QED BY <1>5, <1>8, <1>9, <1>10, <1>11, <1>12 DEF Sound, b, ts, NoTab

LEMMA CarriesCatalog ==
    ASSUME NEW v, NEW a, NEW b, Sound(a), Sound(b), NEW ms, NEW j \in DOMAIN ms, j \in Nat \ {0},
           ms[j].kind = "catalog", Terminals(ms[j].tabs) = Terminals(b.tabs),
           \A id \in Terminals(b.tabs) : id < a.next =>
               id \in Terminals(a.tabs) /\ (Controls(a, v, id) => Controls(b, v, id))
    PROVE  Carries(v, a, b, ms)
<1> SUFFICES ASSUME NEW id \in Nat, id < a.next
             PROVE  /\ (id \in Terminals(a.tabs) \/ GoneUntold(a, id))
                           => (id \in Terminals(b.tabs) \/ GoneUntold(b, id) \/ Doomed(ms, 0, id))
                    /\ (Controls(a, v, id) \/ GoneUntold(a, id))
                           => (Controls(b, v, id) \/ GoneUntold(b, id) \/ Notified(ms, 0, id))
  BY DEF Carries
<1>1. CASE id \in Terminals(b.tabs)
  <2>1. ~GoneUntold(a, id)
    BY <1>1, GoneIs
  <2> QED BY <1>1, <2>1
<1>2. CASE id \notin Terminals(b.tabs)
  <2>1. Doomed(ms, 0, id) /\ Notified(ms, 0, id)
    BY <1>2 DEF Doomed, Notified, Dispossesses
  <2> QED BY <2>1
<1> QED BY <1>1, <1>2

LEMMA CarriesUntold ==
    ASSUME NEW v, NEW a, NEW b, Sound(a), Sound(b), NEW ms, b.due \/ b.closed # NoTab,
           Terminals(b.tabs) \subseteq Terminals(a.tabs),
           \A id \in Terminals(b.tabs) : Controls(a, v, id) => Controls(b, v, id)
    PROVE  Carries(v, a, b, ms)
<1>1. \A id : GoneUntold(b, id) <=> id \notin Terminals(b.tabs)
  BY GoneIs
<1>2. \A id : GoneUntold(a, id) => id \notin Terminals(a.tabs)
  BY GoneIs
<1> QED BY <1>1, <1>2 DEF Carries

(* Nothing but owners changes, and a window that loses control is told.      *)
LEMMA CarriesOwners ==
    ASSUME NEW v, NEW a, NEW b, Sound(a), Sound(b), NEW ms, b.due = a.due, b.closed = a.closed,
           Terminals(b.tabs) = Terminals(a.tabs),
           \A id : Controls(a, v, id) => Controls(b, v, id) \/ Notified(ms, 0, id)
    PROVE  Carries(v, a, b, ms)
<1>1. \A id : GoneUntold(b, id) <=> GoneUntold(a, id)
  BY GoneIs
<1> QED BY <1>1 DEF Carries

-----------------------------------------------------------------------------
(* The service's messages. *)

Links == [Window -> LinkType]
AddTo(l, m) == [l EXCEPT !.in = Append(@, m)]

LEMMA AddFields ==
    ASSUME NEW l \in LinkType, NEW m \in NoticeType
    PROVE  /\ AddTo(l, m) \in LinkType /\ AddTo(l, m).in = Append(l.in, m)
           /\ AddTo(l, m).up = l.up /\ AddTo(l, m).ready = l.ready /\ AddTo(l, m).out = l.out
<1>1. Append(l.in, m) \in Seq(NoticeType)
  BY DEF LinkType
<1>2. AddTo(l, m) \in LinkType
  BY <1>1 DEF LinkType, AddTo
<1>3. /\ AddTo(l, m).in = Append(l.in, m)
      /\ AddTo(l, m).up = l.up /\ AddTo(l, m).ready = l.ready /\ AddTo(l, m).out = l.out
  BY DEF LinkType, AddTo
<1> QED BY <1>2, <1>3

LEMMA ToldFields ==
    ASSUME NEW lk \in Links, NEW w \in Window, NEW m \in NoticeType
    PROVE  /\ Told(lk, w, m) \in Links
           /\ \A v \in Window :
                /\ Told(lk, w, m)[v].up = lk[v].up /\ Told(lk, w, m)[v].ready = lk[v].ready
                /\ Told(lk, w, m)[v].out = lk[v].out
                /\ Told(lk, w, m)[v].in = IF v = w /\ lk[v].up /\ win[v].conn
                                          THEN Append(lk[v].in, m) ELSE lk[v].in
<1>1. CASE lk[w].up /\ win[w].conn
  <2>1. Told(lk, w, m) = [lk EXCEPT ![w] = AddTo(lk[w], m)]
    BY <1>1 DEF Told, AddTo
  <2>2. lk[w] \in LinkType
    BY DEF Links
  <2>3. Told(lk, w, m)[w] = AddTo(lk[w], m) /\ \A v \in Window : v # w => Told(lk, w, m)[v] = lk[v]
    BY <2>1 DEF Links
  <2>4. Told(lk, w, m) \in Links
    BY <2>1, <2>2, AddFields DEF Links
  <2>5. /\ AddTo(lk[w], m).in = Append(lk[w].in, m) /\ AddTo(lk[w], m).up = lk[w].up
        /\ AddTo(lk[w], m).ready = lk[w].ready /\ AddTo(lk[w], m).out = lk[w].out
    BY <2>2, AddFields
  <2>6. ASSUME NEW v \in Window
        PROVE  /\ Told(lk, w, m)[v].up = lk[v].up /\ Told(lk, w, m)[v].ready = lk[v].ready
               /\ Told(lk, w, m)[v].out = lk[v].out
               /\ Told(lk, w, m)[v].in = IF v = w /\ lk[v].up /\ win[v].conn
                                         THEN Append(lk[v].in, m) ELSE lk[v].in
    <3>1. CASE v = w
      BY <1>1, <2>3, <2>5, <3>1
    <3>2. CASE v # w
      BY <2>3, <3>2
    <3> QED BY <3>1, <3>2
  <2> QED BY <2>4, <2>6
<1>2. CASE ~(lk[w].up /\ win[w].conn)
  <2>1. Told(lk, w, m) = lk
    BY <1>2 DEF Told
  <2> QED BY <1>2, <2>1
<1> QED BY <1>1, <1>2

(* The links after Service::publish.                                         *)
Spread(lk, m) == [w \in Window |-> IF lk[w].ready THEN Told(lk, w, m)[w] ELSE lk[w]]
LEMMA SpreadFields ==
    ASSUME NEW lk \in Links, NEW m \in NoticeType
    PROVE  /\ Spread(lk, m) \in Links
           /\ \A v \in Window :
                /\ Spread(lk, m)[v].up = lk[v].up /\ Spread(lk, m)[v].ready = lk[v].ready
                /\ Spread(lk, m)[v].out = lk[v].out
                /\ Spread(lk, m)[v].in = IF lk[v].ready /\ lk[v].up /\ win[v].conn
                                         THEN Append(lk[v].in, m) ELSE lk[v].in
<1> DEFINE s == Spread(lk, m)
<1>1. ASSUME NEW v \in Window
      PROVE  /\ s[v] \in LinkType /\ s[v].up = lk[v].up /\ s[v].ready = lk[v].ready
             /\ s[v].out = lk[v].out
             /\ s[v].in = IF lk[v].ready /\ lk[v].up /\ win[v].conn
                          THEN Append(lk[v].in, m) ELSE lk[v].in
  <2>1. s[v] = IF lk[v].ready THEN Told(lk, v, m)[v] ELSE lk[v]
    BY DEF Spread
  <2> HIDE DEF s
  <2>2. CASE lk[v].ready
    <3>1. s[v] = Told(lk, v, m)[v]
      BY <2>1, <2>2
    <3> DEFINE t == Told(lk, v, m)
    <3>2. /\ t \in Links /\ t[v].up = lk[v].up /\ t[v].ready = lk[v].ready
          /\ t[v].out = lk[v].out
          /\ t[v].in = IF v = v /\ lk[v].up /\ win[v].conn THEN Append(lk[v].in, m) ELSE lk[v].in
      BY ToldFields
    <3> HIDE DEF t
    <3>3. s[v] = t[v] /\ t[v] \in LinkType
      BY <3>1, <3>2 DEF t, Links
    <3> QED BY <2>2, <3>2, <3>3
  <2>3. CASE ~lk[v].ready
    BY <2>1, <2>3 DEF Links
  <2> QED BY <2>2, <2>3
<1>2. s = [v \in Window |-> s[v]]
  BY DEF Spread
<1> HIDE DEF s
<1>3. s \in Links
  BY <1>1, <1>2 DEF Links
<1> QED BY <1>1, <1>3 DEF s

LEMMA BroadcastIs ==
    ASSUME NEW sv, NEW lk, Broadcast(sv, lk)
    PROVE  svc' = Announced(sv) /\ link' = Spread(lk, CatalogOf(sv))
  BY DEF Broadcast, Announced, Spread

(* The keys that are sent, once the service has taken one, or all are lost.  *)
LEMMA KeyedOut ==
    ASSUME NEW p, NEW out \in Seq(MessageType), NEW last, NEW x, Keyed(p, out, last, x)
    PROVE  /\ Keyed(p, <<>>, last, x)
           /\ out # <<>> => Keyed(p, Tail(out), IF Head(out).kind = "input" THEN Head(out).key
                                                ELSE last, x)
<1>1. Inputs(<<>>) = {}
  BY DEF Inputs
<1>2. Keyed(p, <<>>, last, x)
  BY <1>1 DEF Keyed, InOrder
<1>3. ASSUME out # <<>>
      PROVE  Keyed(p, Tail(out), IF Head(out).kind = "input" THEN Head(out).key ELSE last, x)
  <2> DEFINE t == Tail(out)
             h == IF Head(out).kind = "input" THEN Head(out).key ELSE last
  <2>1. /\ Head(out) = out[1] /\ 1 \in DOMAIN out
        /\ \A i \in DOMAIN t : i + 1 \in DOMAIN out /\ t[i] = out[i + 1] /\ i + 1 > 1 /\ i \in Nat
    BY <1>3
  <2>2. \A i \in Inputs(t) : i + 1 \in Inputs(out) /\ t[i] = out[i + 1] /\ 1 < i + 1 /\ i \in Nat
    BY <2>1 DEF Inputs
  <2>3. Head(out).kind = "input" => 1 \in Inputs(out)
    BY <2>1 DEF Inputs
  <2>4. \A i, j \in Inputs(t) : i < j => i + 1 < j + 1
    BY <2>2
  <2> HIDE DEF t
  <2>5. h <= x.top /\ \A i \in Inputs(t) : t[i].key <= x.top
    BY <2>1, <2>2, <2>3 DEF Keyed
  <2>6. ASSUME ~p.missed
        PROVE  /\ InOrder(h, t, p.early)
               /\ \A m \in x.later : h < m /\ \A i \in Inputs(t) : t[i].key < m
    <3>1. /\ InOrder(last, out, p.early)
          /\ \A m \in x.later : last < m /\ \A i \in Inputs(out) : out[i].key < m
      BY <2>6 DEF Keyed
    <3>2. \A i \in Inputs(t) : h < t[i].key
      BY <2>1, <2>2, <2>3, <3>1 DEF InOrder
    <3>3. \A i \in Inputs(t) : \A j \in Inputs(t) : i < j => t[i].key < t[j].key
      BY <2>2, <2>4, <3>1 DEF InOrder
    <3>4. \A i \in DOMAIN p.early :
            /\ h < p.early[i].n /\ \A j \in Inputs(t) : t[j].key < p.early[i].n
            /\ \A j \in DOMAIN p.early : i < j => p.early[i].n < p.early[j].n
      BY <2>1, <2>2, <2>3, <3>1 DEF InOrder
    <3>5. \A m \in x.later : h < m /\ \A i \in Inputs(t) : t[i].key < m
      BY <2>1, <2>2, <2>3, <3>1
    <3> QED BY <3>2, <3>3, <3>4, <3>5 DEF InOrder
  <2> QED BY <2>5, <2>6 DEF Keyed, t
<1> QED BY <1>2, <1>3

LEMMA WindowKeyed ==
    ASSUME WindowsInv, NEW v \in Window
    PROVE  /\ Keyed(win[v], link[v].out, heard[v], Rest(v))
           /\ Keyed(win[v], <<>>, heard[v], Rest(v))
           /\ link[v].out \in Seq(MessageType) /\ link[v].in \in Seq(NoticeType)
<1>1. Good(v, win[v], link[v], Rest(v)) /\ link[v] \in LinkType
  BY RestFields, Idles
<1>2. link[v].out \in Seq(MessageType) /\ link[v].in \in Seq(NoticeType)
  BY <1>1 DEF LinkType
<1>3. Keyed(win[v], link[v].out, heard[v], Rest(v))
  BY <1>1 DEF Good
<1> QED BY <1>2, <1>3, KeyedOut

LEMMA ServiceLands ==
    ASSUME WindowsInv, UNCHANGED <<win, typed>>, link' \in Links, heard' \in [Window -> Nat],
           Sound(svc'), ~svc'.up => \A v \in Window : ~link'[v].up,
           \A v \in Window : (Arriving(v) /\ Good(v, win[v], link[v], Rest(v)))'
    PROVE  WindowsInv'
<1>1. Ui' \in UiType /\ typed' \in Nat /\ Disjoint(win')
  BY DEF WindowsInv, Ui, UiType, Links
<1>2. SvcOK'
  BY DEF SvcOK
<1> QED BY <1>1, <1>2 DEF WindowsInv

LEMMA SpreadStep ==
    ASSUME WindowsInv, NEW sv, Sound(sv), sv.up, sv.next = svc.next,
           Terminals(sv.tabs) \subseteq Terminals(svc.tabs),
           \A v, id : id \in Terminals(sv.tabs) /\ Controls(svc, v, id) => Controls(sv, v, id),
           Broadcast(sv, link), UNCHANGED <<win, typed, heard>>
    PROVE  WindowsInv'
<1> DEFINE m == CatalogOf(sv)
<1>1. link \in Links /\ heard \in [Window -> Nat] /\ Sound(svc)
  BY DEF Links, WindowsInv, UiType, Ui, SvcOK
<1>2. m \in NoticeType /\ m.kind = "catalog" /\ Terminals(m.tabs) = Terminals(sv.tabs)
  BY CatalogFields
<1>3. svc' = Announced(sv) /\ link' = Spread(link, m)
  BY BroadcastIs
<1>4. /\ Sound(svc') /\ svc'.tabs = sv.tabs /\ svc'.next = svc.next /\ svc'.up
  BY <1>3, AnnouncedSound
<1> HIDE DEF m
<1>5. /\ link' \in Links
      /\ \A v \in Window :
           /\ link'[v].up = link[v].up /\ link'[v].ready = link[v].ready
           /\ link'[v].out = link[v].out
           /\ link'[v].in = IF link[v].ready /\ link[v].up /\ win[v].conn
                            THEN Append(link[v].in, m) ELSE link[v].in
  BY <1>1, <1>2, <1>3, SpreadFields
<1>6. ASSUME NEW v \in Window
      PROVE  (Arriving(v) /\ Good(v, win[v], link[v], Rest(v)))'
  <2> DEFINE ms == IF link[v].ready THEN <<m>> ELSE <<>>
  <2>1. ms \in Seq(NoticeType)
    BY <1>2
  <2>2. win[v].conn /\ link'[v].up => link'[v].in = link[v].in \o ms
    <3>1. link[v].in \in Seq(NoticeType)
      BY WindowKeyed
    <3>2. Append(link[v].in, m) = link[v].in \o <<m>> /\ link[v].in \o <<>> = link[v].in
      BY <1>2, <3>1
    <3> QED BY <1>5, <3>2
  <2>3. link[v].ready => Carries(v, svc, svc', ms)
    <3>1. ASSUME link[v].ready PROVE Carries(v, svc, svc', ms)
      <4>1. /\ 1 \in DOMAIN ms /\ 1 \in Nat \ {0} /\ ms[1] = m
        BY <3>1
      <4>2. \A id \in Terminals(svc'.tabs) : id < svc.next =>
               id \in Terminals(svc.tabs) /\ (Controls(svc, v, id) => Controls(svc', v, id))
        BY <1>4 DEF Controls
      <4> HIDE DEF ms
      <4> QED BY <1>1, <1>2, <1>4, <4>1, <4>2, CarriesCatalog
    <3> QED BY <3>1
  <2>4. Truthful(v, svc', ms)
    BY <1>2, <1>4 DEF Truthful
  <2>5. svc.next <= svc'.next
    BY <1>1, <1>4 DEF Sound, SvcType
  <2>6. (ms # <<>> => link'[v].ready) /\ win'[v] = win[v]
    BY <1>5
  <2> HIDE DEF ms
  <2>7. Keyed(win[v], link'[v].out, heard'[v], Rest(v))
    BY <1>5, WindowKeyed
  <2> QED BY <1>4, <1>5, <2>1, <2>2, <2>3, <2>4, <2>5, <2>6, <2>7, ServedGood
<1> QED BY <1>1, <1>4, <1>5, <1>6, ServiceLands

LEMMA PublishStep ==
    ASSUME WindowsInv, Publish
    PROVE  WindowsInv'
<1>1. svc.up /\ Broadcast(svc, link) /\ UNCHANGED <<win, typed, heard>> /\ Sound(svc)
  BY DEF Publish, WindowsInv, SvcOK
<1> QED BY <1>1, SpreadStep

LEMMA ShellEndsStep ==
    ASSUME WindowsInv, NEW i \in DOMAIN svc.tabs, ShellEnds(i)
    PROVE  WindowsInv'
<1> DEFINE b == Closed(svc, i)
<1>1. svc.up /\ Broadcast(b, link) /\ UNCHANGED <<win, typed, heard>> /\ Sound(svc)
  BY DEF ShellEnds, WindowsInv, SvcOK
<1>2. /\ Sound(b) /\ b.next = svc.next /\ b.up = svc.up
      /\ Terminals(b.tabs) \subseteq Terminals(svc.tabs)
      /\ \A v, id : id \in Terminals(b.tabs) /\ Controls(svc, v, id) => Controls(b, v, id)
  BY <1>1, ClosedSound
<1> HIDE DEF b
<1> QED BY <1>1, <1>2, SpreadStep

(* A change of the service that no window is told of yet.                    *)
LEMMA QuietStep ==
    ASSUME WindowsInv, UNCHANGED <<win, typed, heard>>, link' \in Links, Sound(svc'),
           svc.next <= svc'.next, ~svc'.up => \A v \in Window : ~link'[v].up,
           \A v \in Window :
               /\ link'[v].out = link[v].out \/ link'[v].out = <<>>
               /\ link'[v].up => /\ link[v].up /\ link'[v].ready = link[v].ready
                                 /\ link'[v].in = link[v].in /\ link'[v].out = link[v].out
                                 /\ Carries(v, svc, svc', <<>>)
    PROVE  WindowsInv'
<1>1. <<>> \in Seq(NoticeType) /\ heard' \in [Window -> Nat]
  BY DEF WindowsInv
<1>2. ASSUME NEW v \in Window
      PROVE  (Arriving(v) /\ Good(v, win[v], link[v], Rest(v)))'
  <2>1. Keyed(win[v], link'[v].out, heard'[v], Rest(v)) /\ link[v].in \o <<>> = link[v].in
    BY WindowKeyed
  <2>2. Truthful(v, svc', <<>>)
    BY DEF Truthful
  <2>3. link'[v].up => /\ link[v].up /\ link'[v].ready = link[v].ready
                       /\ link'[v].in = link[v].in \o <<>> /\ link'[v].out = link[v].out
                       /\ Carries(v, svc, svc', <<>>)
    BY <2>1
  <2> QED BY <1>1, <2>1, <2>2, <2>3, NoNotice, ServedGood
<1> QED BY <1>1, <1>2, ServiceLands

LEMMA ConvertStep ==
    ASSUME WindowsInv, NEW i \in DOMAIN svc.tabs, Convert(i)
    PROVE  WindowsInv'
<1> DEFINE t == [svc.tabs[i] EXCEPT !.browser = TRUE, !.owner = None]
          us == [svc.tabs EXCEPT ![i] = t]
          b == [svc EXCEPT !.tabs = us, !.due = TRUE]
<1>1. /\ Sound(svc) /\ svc \in SvcType /\ svc.tabs \in Seq(TabType) /\ Distinct(svc.tabs) /\ svc.up
      /\ svc' = [svc EXCEPT !.tabs[i].browser = TRUE, !.tabs[i].owner = None, !.due = TRUE]
      /\ UNCHANGED <<win, typed, heard, link>> /\ link \in Links
      /\ \A j \in DOMAIN svc.tabs : svc.tabs[j].id < svc.next
  BY DEF Convert, WindowsInv, SvcOK, Sound, SvcType, UiType, Ui, Links
<1>2. t \in TabType /\ t.id = svc.tabs[i].id /\ t.browser
  <2>1. svc.tabs[i] \in TabType
    BY <1>1
  <2> QED BY <2>1 DEF TabType
<1> HIDE DEF t
<1>3. /\ us \in Seq(TabType) /\ DOMAIN us = DOMAIN svc.tabs /\ us[i] = t
      /\ \A j \in DOMAIN svc.tabs : j # i => us[j] = svc.tabs[j]
  BY <1>1, <1>2
<1>4. svc' = b
  BY <1>1 DEF SvcType, t
<1> HIDE DEF us
<1>5. b \in SvcType /\ b.tabs = us /\ b.next = svc.next /\ b.up = svc.up /\ b.due
  BY <1>1, <1>3 DEF SvcType
<1> HIDE DEF b
<1>6. \A j \in DOMAIN us : us[j].id = svc.tabs[j].id
  BY <1>2, <1>3
<1>7. Sound(b)
  BY <1>1, <1>3, <1>5, <1>6 DEF Sound, Distinct
<1>8. Terminals(us) \subseteq Terminals(svc.tabs)
  BY <1>2, <1>3 DEF Terminals
<1>9. ASSUME NEW v, NEW id \in Terminals(us), Controls(svc, v, id) PROVE Controls(b, v, id)
  <2>1. PICK k \in DOMAIN us : us[k].id = id /\ ~us[k].browser
    BY DEF Terminals
  <2>2. PICK j \in DOMAIN svc.tabs : svc.tabs[j].id = id /\ svc.tabs[j].owner = v
    BY <1>9 DEF Controls
  <2>3. k # i /\ j = k
    BY <1>1, <1>2, <1>3, <1>6, <2>1, <2>2 DEF Distinct
  <2> QED BY <1>3, <1>5, <2>2, <2>3 DEF Controls
<1>10. \A v : Carries(v, svc, b, <<>>)
  BY <1>1, <1>5, <1>7, <1>8, <1>9, CarriesUntold
<1>11. svc.next <= b.next
  BY <1>1, <1>5 DEF SvcType
<1> QED BY <1>1, <1>4, <1>5, <1>7, <1>10, <1>11, QuietStep

LEMMA DroppedStep ==
    ASSUME WindowsInv, NEW w \in Window, Dropped(w)
    PROVE  WindowsInv'
<1> DEFINE us == [i \in DOMAIN svc.tabs |->
                     [svc.tabs[i] EXCEPT !.owner = IF @ = w THEN None ELSE @]]
          b == [svc EXCEPT !.tabs = us]
          l == [link[w] EXCEPT !.up = FALSE, !.ready = FALSE, !.out = <<>>]
<1>1. /\ Sound(svc) /\ svc \in SvcType /\ svc.tabs \in Seq(TabType) /\ svc.up
      /\ Distinct(svc.tabs) /\ \A j \in DOMAIN svc.tabs : svc.tabs[j].id < svc.next
      /\ svc' = b /\ link' = [link EXCEPT ![w] = l]
      /\ UNCHANGED <<win, typed, heard>> /\ link \in Links /\ link \in [Window -> LinkType]
  BY DEF Dropped, Forgotten, WindowsInv, SvcOK, Sound, SvcType, UiType, Ui, Links
<1>2. ASSUME NEW i \in DOMAIN svc.tabs
      PROVE  /\ us[i] \in TabType /\ us[i].id = svc.tabs[i].id
             /\ us[i].browser = svc.tabs[i].browser
             /\ svc.tabs[i].owner # w => us[i].owner = svc.tabs[i].owner
  <2>1. svc.tabs[i] \in TabType
    BY <1>1
  <2> QED BY <2>1 DEF TabType
<1>3. us \in Seq(TabType) /\ DOMAIN us = DOMAIN svc.tabs
  <2>1. Len(svc.tabs) \in Nat /\ DOMAIN svc.tabs = 1..Len(svc.tabs)
    BY <1>1
  <2>2. us \in [1..Len(svc.tabs) -> TabType] /\ DOMAIN us = DOMAIN svc.tabs
    BY <1>2, <2>1
  <2> HIDE DEF us
  <2> QED BY <2>1, <2>2
<1> HIDE DEF us
<1>4. b \in SvcType /\ b.tabs = us /\ b.next = svc.next /\ b.up = svc.up /\ b.due = svc.due
      /\ b.closed = svc.closed
  BY <1>1, <1>3 DEF SvcType
<1> HIDE DEF b
<1>5. Sound(b)
  BY <1>1, <1>2, <1>3, <1>4 DEF Sound, Distinct
<1>6. Terminals(us) = Terminals(svc.tabs)
  BY <1>2, <1>3 DEF Terminals
<1>7. ASSUME NEW v \in Window, v # w, NEW id, Controls(svc, v, id) PROVE Controls(b, v, id)
  BY <1>2, <1>3, <1>4, <1>7 DEF Controls
<1>8. \A v \in Window : v # w => Carries(v, svc, b, <<>>)
  BY <1>1, <1>4, <1>5, <1>6, <1>7, CarriesOwners
<1>9. l \in LinkType /\ l.up = FALSE /\ l.out = <<>>
  <2>1. <<>> \in Seq(MessageType) /\ link[w] \in LinkType
    BY <1>1
  <2> QED BY <2>1 DEF LinkType
<1> HIDE DEF l
<1>10. link' \in Links /\ link'[w] = l /\ \A v \in Window : v # w => link'[v] = link[v]
  BY <1>1, <1>9 DEF Links
<1>11. svc.next <= b.next
  BY <1>1, <1>4 DEF SvcType
<1>12. ASSUME NEW v \in Window
       PROVE  /\ link'[v].out = link[v].out \/ link'[v].out = <<>>
              /\ link'[v].up => /\ link[v].up /\ link'[v].ready = link[v].ready
                                /\ link'[v].in = link[v].in /\ link'[v].out = link[v].out
                                /\ Carries(v, svc, svc', <<>>)
  BY <1>1, <1>8, <1>9, <1>10
<1> QED BY <1>1, <1>4, <1>5, <1>10, <1>11, <1>12, QuietStep

LEMMA DownStep ==
    ASSUME WindowsInv, Down
    PROVE  WindowsInv'
<1> DEFINE k(v) == [link[v] EXCEPT !.up = FALSE, !.ready = FALSE, !.out = <<>>]
          b == [svc EXCEPT !.up = FALSE]
<1>1. /\ Sound(svc) /\ svc \in SvcType /\ svc' = b /\ link' = [v \in Window |-> k(v)]
      /\ UNCHANGED <<win, typed, heard>> /\ link \in [Window -> LinkType]
  BY DEF Down, WindowsInv, SvcOK, Sound, UiType, Ui
<1>2. ASSUME NEW v \in Window
      PROVE  k(v) \in LinkType /\ k(v).up = FALSE /\ k(v).out = <<>>
  <2>1. <<>> \in Seq(MessageType)
    OBVIOUS
  <2>2. link[v] \in LinkType
    BY Idles
  <2> QED BY <2>1, <2>2 DEF LinkType
<1> HIDE DEF k
<1>3. link' \in Links /\ \A v \in Window : ~link'[v].up /\ link'[v].out = <<>>
  BY <1>1, <1>2 DEF Links
<1>4. b \in SvcType /\ b.tabs = svc.tabs /\ b.next = svc.next /\ svc.next <= b.next
  <2>1. svc \in SvcType /\ svc.next \in Nat
    BY <1>1 DEF SvcType
  <2>2. b \in SvcType
    BY ONLY <2>1 DEF SvcType
  <2>3. b.tabs = svc.tabs /\ b.next = svc.next
    BY ONLY <2>1 DEF SvcType
  <2> HIDE DEF b
  <2> QED BY <2>1, <2>2, <2>3
<1> HIDE DEF b
<1>5. Sound(b)
  BY <1>1, <1>4 DEF Sound
<1> QED BY <1>1, <1>3, <1>4, <1>5, QuietStep

LEMMA StartStep ==
    ASSUME WindowsInv, NEW kept \in BOOLEAN, Start(kept)
    PROVE  WindowsInv'
<1> DEFINE us == [i \in DOMAIN svc.tabs |->
                     [svc.tabs[i] EXCEPT !.owner = None, !.id = IF kept THEN @ ELSE i]]
          n == IF kept THEN svc.next ELSE Len(svc.tabs) + 1
          b == [up |-> TRUE, closed |-> NoTab, fallback |-> NoTab, due |-> FALSE,
                tabs |-> us, next |-> n]
<1>1. /\ Sound(svc) /\ svc \in SvcType /\ svc.tabs \in Seq(TabType) /\ svc.next \in Nat \ {0}
      /\ Distinct(svc.tabs) /\ \A j \in DOMAIN svc.tabs : svc.tabs[j].id < svc.next
  BY DEF WindowsInv, SvcOK, Sound, SvcType
<1>11. /\ svc' = b /\ link' = link /\ \A v \in Window : ~link[v].up
       /\ UNCHANGED <<win, typed, heard>> /\ link \in Links
  BY DEF Start, WindowsInv, SvcOK, UiType, Ui, Links
<1> HIDE DEF b, n, us
<1>2. Len(svc.tabs) \in Nat /\ DOMAIN svc.tabs = 1..Len(svc.tabs)
  BY <1>1
<1>3. ASSUME NEW i \in DOMAIN svc.tabs
      PROVE  us[i] \in TabType /\ us[i].id = IF kept THEN svc.tabs[i].id ELSE i
  <2>1. svc.tabs[i] \in TabType /\ i \in Nat \ {0}
    BY <1>1, <1>2
  <2> QED BY <2>1 DEF TabType, us
<1>4. us \in Seq(TabType) /\ DOMAIN us = DOMAIN svc.tabs
  <2>1. us \in [1..Len(svc.tabs) -> TabType] /\ DOMAIN us = DOMAIN svc.tabs
    BY <1>2, <1>3 DEF us
  <2> QED BY <1>2, <2>1
<1>5. n \in Nat \ {0} /\ \A i \in DOMAIN us : us[i].id < n
  BY <1>1, <1>2, <1>3, <1>4 DEF n
<1>6. Distinct(us)
  BY <1>1, <1>3, <1>4 DEF Distinct
<1>7. b \in SvcType /\ b.tabs = us /\ b.next = n /\ b.up
  BY <1>4, <1>5 DEF SvcType, NoTab, b
<1>8. Sound(b) /\ b.up
  BY <1>5, <1>6, <1>7 DEF Sound
<1>9. <<>> \in Seq(NoticeType) /\ heard' \in [Window -> Nat]
  BY <1>11 DEF WindowsInv
<1>10. ASSUME NEW v \in Window
       PROVE  (Arriving(v) /\ Good(v, win[v], link[v], Rest(v)))'
  <2>1. Keyed(win[v], link'[v].out, heard'[v], Rest(v))
    BY <1>11, WindowKeyed
  <2>2. ~link'[v].up
    BY <1>11
  <2> QED BY <1>11, <1>8, <1>9, <2>1, <2>2, ServedGood
<1> QED BY <1>11, <1>8, <1>9, <1>10, ServiceLands

-----------------------------------------------------------------------------
(* The service takes the next packet of window w, and each window v is told  *)
(* ms[v].                                                                    *)
LEMMA TakenStep ==
    ASSUME WindowsInv, NEW w \in Window, svc.up, link[w].up, link[w].out # <<>>,
           UNCHANGED <<win, typed>>,
           heard' = IF Head(link[w].out).kind = "input"
                    THEN [heard EXCEPT ![w] = Head(link[w].out).key] ELSE heard,
           Sound(svc'), svc'.up, svc.next <= svc'.next, link' \in Links,
           NEW ms \in [Window -> Seq(NoticeType)],
           \A v \in Window :
               /\ link'[v].up = link[v].up /\ (link[v].ready => link'[v].ready)
               /\ link'[v].out = IF v = w THEN Tail(link[v].out) ELSE link[v].out
               /\ win[v].conn /\ link[v].up =>
                    /\ link'[v].in = link[v].in \o ms[v]
                    /\ \A j \in DOMAIN ms[v] : Shows(ms[v][j]) => link'[v].ready
                    /\ link[v].ready => Carries(v, svc, svc', ms[v])
                    /\ Truthful(v, svc', ms[v]),
           win[w].conn /\ link[w].ready /\ win[w].active \in win[w].live /\ ~win[w].initial
           /\ Head(link[w].out) = Focus(win[w].active)
               => \/ Controls(svc', w, win[w].active) \/ GoneUntold(svc', win[w].active)
                  \/ Notified(link'[w].in, 0, win[w].active)
    PROVE  WindowsInv'
<1>1. link[w].out \in Seq(MessageType) /\ Head(link[w].out) \in MessageType
  BY WindowKeyed
<1>2. heard \in [Window -> Nat] /\ Head(link[w].out).key \in Nat
  BY <1>1 DEF WindowsInv, MessageType
<1>3. heard' \in [Window -> Nat]
  BY <1>2
<1>4. ASSUME NEW v \in Window
      PROVE  (Arriving(v) /\ Good(v, win[v], link[v], Rest(v)))'
  <2>1. Keyed(win[v], link'[v].out, heard'[v], Rest(v))
    <3>1. CASE v = w
      <4>1. /\ link'[v].out = Tail(link[v].out)
            /\ heard'[v] = IF Head(link[v].out).kind = "input" THEN Head(link[v].out).key
                           ELSE heard[v]
        BY <1>2, <3>1
      <4>2. Keyed(win[v], link[v].out, heard[v], Rest(v)) /\ link[v].out # <<>>
        BY <3>1, WindowKeyed
      <4> QED BY <1>1, <3>1, <4>1, <4>2, KeyedOut
    <3>2. CASE v # w
      <4>1. heard'[v] = heard[v] /\ link'[v].out = link[v].out
        BY <1>2, <3>2
      <4> QED BY <4>1, WindowKeyed
    <3> QED BY <3>1, <3>2
  <2>2. ASSUME win[v].conn, link[v].up,
               NEW i \in DOMAIN link[v].out, link[v].out[i] = Focus(win[v].active), link[v].ready,
               win[v].active \in win[v].live, ~win[v].initial
        PROVE  \/ \E j \in DOMAIN link'[v].out : link'[v].out[j] = Focus(win[v].active)
               \/ Controls(svc', v, win[v].active) \/ GoneUntold(svc', win[v].active)
               \/ Notified(link'[v].in, 0, win[v].active)
    <3>1. CASE v # w
      <4>1. link'[v].out = link[v].out
        BY <3>1
      <4> QED BY <2>2, <4>1
    <3>2. CASE v = w /\ i = 1
      <4>1. Head(link[v].out) = Focus(win[v].active)
        BY <1>1, <2>2, <3>2
      <4> QED BY <2>2, <3>2, <4>1
    <3>3. CASE v = w /\ i # 1
      <4>1. link'[v].out = Tail(link[v].out) /\ link[v].out \in Seq(MessageType)
        BY <1>1, <3>3
      <4>2. i - 1 \in DOMAIN Tail(link[v].out) /\ Tail(link[v].out)[i - 1] = link[v].out[i]
        BY <3>3, <4>1
      <4> QED BY <2>2, <4>1, <4>2
    <3> QED BY <3>1, <3>2, <3>3
  <2>3. win'[v] = win[v] /\ ms[v] \in Seq(NoticeType)
    OBVIOUS
  <2> QED BY <2>1, <2>2, <2>3, ServedGood
<1> QED BY <1>3, <1>4, ServiceLands

Taken(w) == [link EXCEPT ![w].out = Tail(@)]
Admitted(w) == [Taken(w) EXCEPT ![w].ready = TRUE]
LEMMA TakenFields ==
    ASSUME WindowsInv, NEW w \in Window, link[w].out # <<>>
    PROVE  /\ Taken(w) \in Links /\ Admitted(w) \in Links
           /\ \A v \in Window :
                /\ Taken(w)[v].up = link[v].up /\ Taken(w)[v].ready = link[v].ready
                /\ Taken(w)[v].in = link[v].in
                /\ Taken(w)[v].out = IF v = w THEN Tail(link[v].out) ELSE link[v].out
                /\ Admitted(w)[v].up = link[v].up
                /\ Admitted(w)[v].ready = IF v = w THEN TRUE ELSE link[v].ready
                /\ Admitted(w)[v].in = link[v].in
                /\ Admitted(w)[v].out = IF v = w THEN Tail(link[v].out) ELSE link[v].out
<1> DEFINE a == [link[w] EXCEPT !.out = Tail(@)]
          b == [link[w] EXCEPT !.out = Tail(@), !.ready = TRUE]
<1>1. link \in [Window -> LinkType] /\ link[w] \in LinkType /\ link[w].out \in Seq(MessageType)
  BY Idles, WindowKeyed DEF WindowsInv, UiType, Ui
<1>2. Tail(link[w].out) \in Seq(MessageType)
  BY <1>1
<1>3. /\ a \in LinkType /\ a.up = link[w].up /\ a.ready = link[w].ready /\ a.in = link[w].in
      /\ a.out = Tail(link[w].out)
  BY ONLY <1>1, <1>2 DEF LinkType
<1>4. /\ b \in LinkType /\ b.up = link[w].up /\ b.ready = TRUE /\ b.in = link[w].in
      /\ b.out = Tail(link[w].out)
  BY ONLY <1>1, <1>2 DEF LinkType
<1>5. Taken(w) = [link EXCEPT ![w] = a] /\ Admitted(w) = [link EXCEPT ![w] = b]
  BY <1>1 DEF Taken, Admitted, LinkType
<1> HIDE DEF a, b
<1> QED BY <1>1, <1>3, <1>4, <1>5 DEF Links

(* What Serve(w) does besides its branch.                                    *)
Serving(w) ==
    /\ svc.up /\ link[w].up /\ link[w].out # <<>> /\ UNCHANGED <<win, typed>>
    /\ heard' = IF Head(link[w].out).kind = "input"
                THEN [heard EXCEPT ![w] = Head(link[w].out).key] ELSE heard

LEMMA NoticeIs ==
    ASSUME NEW kind \in {"created", "release", "frame"}, NEW id \in Nat
    PROVE  /\ Notice(kind, id) \in NoticeType
           /\ Notice(kind, id).kind = kind /\ Notice(kind, id).tab = id
  BY DEF Notice, NoticeType

LEMMA Queued ==
    ASSUME NEW q \in Seq(NoticeType), NEW a \in NoticeType, NEW b \in NoticeType,
           NEW c \in NoticeType
    PROVE  /\ q \o <<>> = q /\ Append(q, a) = q \o <<a>>
           /\ Append(Append(q, a), b) = q \o <<a, b>>
           /\ Append(Append(Append(q, a), b), c) = q \o <<a, b, c>>
           /\ <<>> \in Seq(NoticeType) /\ <<a>> \in Seq(NoticeType)
           /\ <<a, b>> \in Seq(NoticeType) /\ <<a, b, c>> \in Seq(NoticeType)
<1>1. q \o <<>> = q /\ Append(q, a) = q \o <<a>>
  OBVIOUS
<1>2. Append(Append(q, a), b) = q \o <<a, b>>
  OBVIOUS
<1>3. Append(Append(Append(q, a), b), c) = q \o <<a, b, c>>
  OBVIOUS
<1>4. <<>> \in Seq(NoticeType) /\ <<a>> \in Seq(NoticeType)
  OBVIOUS
<1>5. <<a, b>> \in Seq(NoticeType)
  OBVIOUS
<1>6. <<a, b, c>> \in Seq(NoticeType)
  OBVIOUS
<1> QED BY <1>1, <1>2, <1>3, <1>4, <1>5, <1>6

LEMMA AttachStep ==
    ASSUME WindowsInv, NEW w \in Window, Serving(w), Head(link[w].out).kind = "attach",
           Attach(w, Taken(w))
    PROVE  WindowsInv'
<1> DEFINE c == CatalogOf(svc)
          ms == [v \in Window |-> IF v = w THEN <<c>> ELSE <<>>]
<1>1. Sound(svc) /\ svc \in SvcType /\ svc.next \in Nat
  BY DEF WindowsInv, SvcOK, Sound, SvcType
<1>2. c \in NoticeType /\ c.kind = "catalog" /\ Terminals(c.tabs) = Terminals(svc.tabs)
  BY <1>1, CatalogFields
<1>3. svc' = svc /\ link' = Told(Admitted(w), w, c)
  BY DEF Attach, Admitted
<1> HIDE DEF c
<1>4. /\ link' \in Links
      /\ \A v \in Window :
           /\ link'[v].up = Admitted(w)[v].up /\ link'[v].ready = Admitted(w)[v].ready
           /\ link'[v].out = Admitted(w)[v].out
           /\ link'[v].in = IF v = w /\ Admitted(w)[v].up /\ win[v].conn
                            THEN Append(Admitted(w)[v].in, c) ELSE Admitted(w)[v].in
  <2>1. Admitted(w) \in Links
    BY TakenFields DEF Serving
  <2> QED BY ONLY <1>2, <1>3, <2>1, ToldFields
<1>5. \A v \in Window :
           /\ link'[v].up = link[v].up
           /\ link'[v].ready = IF v = w THEN TRUE ELSE link[v].ready
           /\ link'[v].out = IF v = w THEN Tail(link[v].out) ELSE link[v].out
           /\ link'[v].in = IF v = w /\ link[v].up /\ win[v].conn
                            THEN Append(link[v].in, c) ELSE link[v].in
  <2>1. \A v \in Window :
           /\ Admitted(w)[v].up = link[v].up
           /\ Admitted(w)[v].ready = IF v = w THEN TRUE ELSE link[v].ready
           /\ Admitted(w)[v].in = link[v].in
           /\ Admitted(w)[v].out = IF v = w THEN Tail(link[v].out) ELSE link[v].out
    BY TakenFields DEF Serving
  <2> QED BY ONLY <1>4, <2>1
<1>6. ms \in [Window -> Seq(NoticeType)]
  BY <1>2
<1>7. ASSUME NEW v \in Window
      PROVE  Carries(v, svc, svc, ms[v]) /\ Truthful(v, svc, ms[v])
  <2>1. Carries(v, svc, svc, ms[v])
    BY <1>1, CarriesOwners
  <2>2. Truthful(v, svc, ms[v])
    BY <1>2 DEF Truthful
  <2> QED BY <2>1, <2>2
<1>8. ASSUME NEW v \in Window, win[v].conn, link[v].up
      PROVE  link'[v].in = link[v].in \o ms[v] /\ (ms[v] # <<>> => link'[v].ready)
  <2>1. link[v].in \in Seq(NoticeType)
    BY WindowKeyed
  <2>2. Append(link[v].in, c) = link[v].in \o <<c>> /\ link[v].in \o <<>> = link[v].in
    BY <1>2, <2>1, Queued
  <2> QED BY <1>5, <1>8, <2>2
<1>9. Head(link[w].out) # Focus(win[w].active)
  BY DEF Focus, Message
<1> HIDE DEF ms
<1>10. svc.next <= svc'.next /\ svc'.up /\ Sound(svc')
  BY <1>1, <1>3 DEF Serving
<1>11. \A v \in Window :
               /\ link'[v].up = link[v].up /\ (link[v].ready => link'[v].ready)
               /\ link'[v].out = IF v = w THEN Tail(link[v].out) ELSE link[v].out
               /\ win[v].conn /\ link[v].up =>
                    /\ link'[v].in = link[v].in \o ms[v]
                    /\ \A j \in DOMAIN ms[v] : Shows(ms[v][j]) => link'[v].ready
                    /\ link[v].ready => Carries(v, svc, svc', ms[v])
                    /\ Truthful(v, svc', ms[v])
  BY ONLY <1>3, <1>5, <1>7, <1>8, NoNotice
<1>12. /\ svc.up /\ link[w].up /\ link[w].out # <<>> /\ UNCHANGED <<win, typed>>
       /\ heard' = IF Head(link[w].out).kind = "input"
                   THEN [heard EXCEPT ![w] = Head(link[w].out).key] ELSE heard
  BY DEF Serving
<1> QED BY <1>4, <1>6, <1>9, <1>10, <1>11, <1>12, TakenStep

LEMMA CloseTabStep ==
    ASSUME WindowsInv, NEW w \in Window, Serving(w), NEW i \in DOMAIN svc.tabs,
           Head(link[w].out).kind = "close", svc' = Closed(svc, i), link' = Taken(w)
    PROVE  WindowsInv'
<1> DEFINE ms == [v \in Window |-> <<>>]
          b == Closed(svc, i)
<1>1. Sound(svc) /\ svc \in SvcType /\ svc.next \in Nat
  BY DEF WindowsInv, SvcOK, Sound, SvcType
<1>2. /\ Sound(b) /\ b.next = svc.next /\ b.up = svc.up /\ b.closed # NoTab
      /\ Terminals(b.tabs) \subseteq Terminals(svc.tabs)
      /\ \A v, id : id \in Terminals(b.tabs) /\ Controls(svc, v, id) => Controls(b, v, id)
  BY <1>1, ClosedSound
<1> HIDE DEF b
<1>3. svc' = b
  BY DEF b
<1>4. <<>> \in Seq(NoticeType) /\ ms \in [Window -> Seq(NoticeType)]
  OBVIOUS
<1>5. ASSUME NEW v \in Window
      PROVE  Carries(v, svc, b, ms[v]) /\ Truthful(v, b, ms[v])
  <2>1. Carries(v, svc, b, ms[v])
    BY <1>1, <1>2, CarriesUntold
  <2>2. Truthful(v, b, ms[v])
    BY DEF Truthful
  <2> QED BY <2>1, <2>2
<1>6. ASSUME NEW v \in Window
      PROVE  link[v].in \o ms[v] = link[v].in /\ ms[v] = <<>>
  BY WindowKeyed
<1>7. Head(link[w].out) # Focus(win[w].active)
  BY DEF Focus, Message
<1> HIDE DEF ms
<1>8. /\ link' \in Links
      /\ \A v \in Window :
           /\ link'[v].up = link[v].up /\ link'[v].ready = link[v].ready
           /\ link'[v].in = link[v].in
           /\ link'[v].out = IF v = w THEN Tail(link[v].out) ELSE link[v].out
  BY TakenFields DEF Serving
<1>9. svc.next <= svc'.next /\ svc'.up /\ Sound(svc')
  <2>1. svc.up /\ svc.next <= svc.next
    BY <1>1 DEF Serving
  <2> QED BY ONLY <1>2, <1>3, <2>1
<1>10. \A v \in Window :
               /\ link'[v].up = link[v].up /\ (link[v].ready => link'[v].ready)
               /\ link'[v].out = IF v = w THEN Tail(link[v].out) ELSE link[v].out
               /\ win[v].conn /\ link[v].up =>
                    /\ link'[v].in = link[v].in \o ms[v]
                    /\ \A j \in DOMAIN ms[v] : Shows(ms[v][j]) => link'[v].ready
                    /\ link[v].ready => Carries(v, svc, svc', ms[v])
                    /\ Truthful(v, svc', ms[v])
  BY ONLY <1>3, <1>5, <1>6, <1>8, NoNotice
<1>11. /\ svc.up /\ link[w].up /\ link[w].out # <<>> /\ UNCHANGED <<win, typed>>
       /\ heard' = IF Head(link[w].out).kind = "input"
                   THEN [heard EXCEPT ![w] = Head(link[w].out).key] ELSE heard
  BY DEF Serving
<1> QED BY <1>4, <1>7, <1>8, <1>9, <1>10, <1>11, TakenStep

(* A packet for a tab that is not there, or a claim of a browser tab.        *)
LEMMA IgnoredStep ==
    ASSUME WindowsInv, NEW w \in Window, Serving(w), UNCHANGED svc, link' = Taken(w),
           \A i \in DOMAIN svc.tabs : svc.tabs[i].id = Head(link[w].out).tab /\ link[w].ready
               => Head(link[w].out).kind # "close" /\ svc.tabs[i].browser
    PROVE  WindowsInv'
<1> DEFINE ms == [v \in Window |-> <<>>]
          m == Head(link[w].out)
          id == win[w].active
<1>1. Sound(svc) /\ svc \in SvcType /\ svc.next \in Nat
  BY DEF WindowsInv, SvcOK, Sound, SvcType
<1>2. <<>> \in Seq(NoticeType) /\ ms \in [Window -> Seq(NoticeType)]
  OBVIOUS
<1>3. ASSUME NEW v \in Window
      PROVE  Carries(v, svc, svc, ms[v]) /\ Truthful(v, svc, ms[v])
  <2>1. Carries(v, svc, svc, ms[v])
    BY <1>1, CarriesOwners
  <2>2. Truthful(v, svc, ms[v])
    BY DEF Truthful
  <2> QED BY <2>1, <2>2
<1>4. ASSUME NEW v \in Window
      PROVE  link[v].in \o ms[v] = link[v].in /\ ms[v] = <<>>
  BY WindowKeyed
<1> HIDE DEF ms
<1>5. /\ link' \in Links
      /\ \A v \in Window :
           /\ link'[v].up = link[v].up /\ link'[v].ready = link[v].ready
           /\ link'[v].in = link[v].in
           /\ link'[v].out = IF v = w THEN Tail(link[v].out) ELSE link[v].out
  BY TakenFields DEF Serving
<1>6. ASSUME win[w].conn, link[w].ready, id \in win[w].live, ~win[w].initial, m = Focus(id)
      PROVE  GoneUntold(svc', id) \/ Notified(link'[w].in, 0, id)
  <2>1. Good(w, win[w], link[w], Rest(w)) /\ Rest(w).at = 0
    BY RestFields, Idles
  <2>2. m.tab = id
    BY <1>6 DEF Focus, Message
  <2>3. id \in Terminals(win[w].pages)
    BY <1>6, <2>1 DEF Good, Placed
  <2>4. Stands(link[w].in, 0, id)
    BY <1>6, <2>1, <2>3 DEF Good, Follows, Online, Serving
  <2>5. id \notin Terminals(svc.tabs)
    BY <1>6, <2>2 DEF Terminals
  <2>6. Doomed(link[w].in, 0, id) => Notified(link[w].in, 0, id)
    BY DEF Doomed, Notified, Dispossesses
  <2> QED BY <1>5, <2>4, <2>5, <2>6 DEF Stands
<1>7. svc.next <= svc'.next /\ svc'.up /\ Sound(svc')
  BY <1>1 DEF Serving
<1>8. \A v \in Window :
               /\ link'[v].up = link[v].up /\ (link[v].ready => link'[v].ready)
               /\ link'[v].out = IF v = w THEN Tail(link[v].out) ELSE link[v].out
               /\ win[v].conn /\ link[v].up =>
                    /\ link'[v].in = link[v].in \o ms[v]
                    /\ \A j \in DOMAIN ms[v] : Shows(ms[v][j]) => link'[v].ready
                    /\ link[v].ready => Carries(v, svc, svc', ms[v])
                    /\ Truthful(v, svc', ms[v])
  BY ONLY <1>3, <1>4, <1>5, UNCHANGED svc, NoNotice
<1>9. /\ svc.up /\ link[w].up /\ link[w].out # <<>> /\ UNCHANGED <<win, typed>>
      /\ heard' = IF Head(link[w].out).kind = "input"
                  THEN [heard EXCEPT ![w] = Head(link[w].out).key] ELSE heard
  BY DEF Serving
<1> QED BY <1>2, <1>5, <1>6, <1>7, <1>8, <1>9, TakenStep

(* HELLO, NEW and BROWSER: the tab, the catalog, and what else its client    *)
(* gets.                                                                     *)
LEMMA MadeStep ==
    ASSUME WindowsInv, NEW w \in Window, Serving(w),
           Head(link[w].out).kind \in {"hello", "new", "browser"},
           NEW browser \in BOOLEAN, NEW owner \in Window \cup {None},
           svc' = Announced(Created(svc, browser, owner)), NEW lk \in Links,
           lk = Spread(Told(Admitted(w), w, Notice("created", svc.next)),
                       CatalogOf(Created(svc, browser, owner))),
           \/ link' = lk
           \/ owner = w /\ link' = Told(lk, w, Notice("frame", svc.next))
    PROVE  WindowsInv'
<1> DEFINE sv == Created(svc, browser, owner)
          a == Notice("created", svc.next)
          c == CatalogOf(sv)
          f == Notice("frame", svc.next)
          framed == link' # lk
          mine == IF framed THEN <<a, c, f>> ELSE <<a, c>>
          ms == [v \in Window |-> IF v = w THEN mine
                                  ELSE IF link[v].ready THEN <<c>> ELSE <<>>]
          made == Told(Admitted(w), w, a)
<1>1. Sound(svc) /\ svc \in SvcType /\ svc.next \in Nat /\ svc.up /\ link[w].up
  BY DEF WindowsInv, SvcOK, Sound, SvcType, Serving
<1>2. /\ Sound(sv) /\ sv.next = svc.next + 1 /\ sv.up = svc.up
      /\ \A id \in Terminals(sv.tabs) : id < svc.next => id \in Terminals(svc.tabs)
      /\ \A v, id : Controls(svc, v, id) => Controls(sv, v, id)
      /\ Controls(sv, owner, svc.next)
  BY <1>1, CreatedSound
<1> HIDE DEF sv
<1>3. svc' = Announced(sv)
  BY DEF sv
<1>4. /\ Sound(svc') /\ svc'.tabs = sv.tabs /\ svc'.next = svc.next + 1 /\ svc'.up
  BY <1>1, <1>2, <1>3, AnnouncedSound
<1>5. c \in NoticeType /\ c.kind = "catalog" /\ Terminals(c.tabs) = Terminals(sv.tabs)
  BY <1>2, CatalogFields
<1>6. /\ a \in NoticeType /\ a.kind = "created" /\ f \in NoticeType /\ f.kind = "frame"
      /\ f.tab = svc.next
  BY <1>1, NoticeIs
<1> HIDE DEF a, c, f
<1>7. lk = Spread(made, c) /\ (framed => owner = w /\ link' = Told(lk, w, f))
  BY DEF c, a, f, sv
<1>8. Admitted(w) \in Links /\ link \in Links
  BY TakenFields DEF Serving, WindowsInv, UiType, Ui, Links
<1>9. \A v \in Window :
           /\ Admitted(w)[v].up = link[v].up
           /\ Admitted(w)[v].ready = IF v = w THEN TRUE ELSE link[v].ready
           /\ Admitted(w)[v].in = link[v].in
           /\ Admitted(w)[v].out = IF v = w THEN Tail(link[v].out) ELSE link[v].out
  BY TakenFields DEF Serving
<1>10. /\ made \in Links
       /\ \A v \in Window :
            /\ made[v].up = Admitted(w)[v].up /\ made[v].ready = Admitted(w)[v].ready
            /\ made[v].out = Admitted(w)[v].out
            /\ made[v].in = IF v = w /\ Admitted(w)[v].up /\ win[v].conn
                            THEN Append(Admitted(w)[v].in, a) ELSE Admitted(w)[v].in
  BY ONLY <1>6, <1>8, ToldFields
<1> HIDE DEF made
<1>11. \A v \in Window :
            /\ lk[v].up = made[v].up /\ lk[v].ready = made[v].ready
            /\ lk[v].out = made[v].out
            /\ lk[v].in = IF made[v].ready /\ made[v].up /\ win[v].conn
                          THEN Append(made[v].in, c) ELSE made[v].in
  BY ONLY <1>5, <1>7, <1>10, SpreadFields
<1>12. /\ link' \in Links
       /\ \A v \in Window :
            /\ link'[v].up = lk[v].up /\ link'[v].ready = lk[v].ready
            /\ link'[v].out = lk[v].out
            /\ link'[v].in = IF framed /\ v = w /\ lk[v].up /\ win[v].conn
                             THEN Append(lk[v].in, f) ELSE lk[v].in
  <2>1. CASE framed
    <3>1. link' = Told(lk, w, f)
      BY <1>7, <2>1
    <3> DEFINE t == Told(lk, w, f)
    <3>2. /\ t \in Links
          /\ \A v \in Window :
               /\ t[v].up = lk[v].up /\ t[v].ready = lk[v].ready
               /\ t[v].out = lk[v].out
               /\ t[v].in = IF v = w /\ lk[v].up /\ win[v].conn
                           THEN Append(lk[v].in, f) ELSE lk[v].in
      BY ONLY <1>6, lk \in Links, w \in Window, ToldFields
    <3>3. link' = t
      BY <3>1
    <3> HIDE DEF framed, t
    <3> QED BY ONLY <2>1, <3>2, <3>3
  <2>2. CASE ~framed
    BY <2>2
  <2> QED BY <2>1, <2>2
<1> HIDE DEF framed
<1>13. ASSUME NEW v \in Window
       PROVE  /\ link'[v].up = link[v].up
              /\ link'[v].ready = IF v = w THEN TRUE ELSE link[v].ready
              /\ link'[v].out = IF v = w THEN Tail(link[v].out) ELSE link[v].out
  <2>1. /\ link'[v].up = lk[v].up /\ link'[v].ready = lk[v].ready /\ link'[v].out = lk[v].out
    BY ONLY <1>12, v \in Window
  <2>2. lk[v].up = made[v].up /\ lk[v].ready = made[v].ready /\ lk[v].out = made[v].out
    BY ONLY <1>11, v \in Window
  <2>3. /\ made[v].up = Admitted(w)[v].up /\ made[v].ready = Admitted(w)[v].ready
        /\ made[v].out = Admitted(w)[v].out
    BY ONLY <1>10, v \in Window
  <2>4. /\ Admitted(w)[v].up = link[v].up
        /\ Admitted(w)[v].ready = IF v = w THEN TRUE ELSE link[v].ready
        /\ Admitted(w)[v].out = IF v = w THEN Tail(link[v].out) ELSE link[v].out
    BY ONLY <1>9, v \in Window
  <2> QED BY ONLY <2>1, <2>2, <2>3, <2>4
<1>14. ASSUME NEW v \in Window, win[v].conn, link[v].up
       PROVE  link'[v].in = link[v].in \o ms[v]
  <2>1. link[v].in \in Seq(NoticeType)
    BY WindowKeyed
  <2>2. CASE v # w
    <3>1. link'[v].in = IF link[v].ready THEN Append(link[v].in, c) ELSE link[v].in
      <4>1. link'[v].in = lk[v].in
        BY ONLY <1>12, <2>2, v \in Window
      <4>2. lk[v].in = IF made[v].ready /\ made[v].up /\ win[v].conn
                      THEN Append(made[v].in, c) ELSE made[v].in
        BY ONLY <1>11, v \in Window
      <4>3. /\ made[v].in = Admitted(w)[v].in /\ made[v].up = Admitted(w)[v].up
            /\ made[v].ready = Admitted(w)[v].ready
        BY ONLY <1>10, <2>2, v \in Window
      <4>4. /\ Admitted(w)[v].up = link[v].up /\ Admitted(w)[v].ready = link[v].ready
            /\ Admitted(w)[v].in = link[v].in
        BY ONLY <1>9, <2>2, v \in Window
      <4> QED BY ONLY <1>14, <4>1, <4>2, <4>3, <4>4
    <3>2. ms[v] = IF link[v].ready THEN <<c>> ELSE <<>>
      BY <2>2
    <3>3. link[v].in \o <<>> = link[v].in /\ Append(link[v].in, c) = link[v].in \o <<c>>
      BY ONLY <1>5, <2>1, Queued
    <3> HIDE DEF ms
    <3> QED BY ONLY <3>1, <3>2, <3>3
  <2>3. CASE v = w
    <3>1. made[v].in = Append(link[v].in, a) /\ made[v].ready /\ made[v].up
      BY ONLY <1>1, <1>9, <1>10, <1>14, <2>3
    <3>2. lk[v].in = Append(Append(link[v].in, a), c) /\ lk[v].up
      BY ONLY <1>11, <1>14, <3>1
    <3>3. link'[v].in = IF framed THEN Append(Append(Append(link[v].in, a), c), f)
                        ELSE Append(Append(link[v].in, a), c)
      BY ONLY <1>12, <1>14, <2>3, <3>2
    <3>4. ms[v] = IF framed THEN <<a, c, f>> ELSE <<a, c>>
      BY <2>3
    <3>5. /\ Append(Append(link[v].in, a), c) = link[v].in \o <<a, c>>
          /\ Append(Append(Append(link[v].in, a), c), f) = link[v].in \o <<a, c, f>>
      <4>1. a \in NoticeType /\ c \in NoticeType /\ f \in NoticeType
        BY ONLY <1>5, <1>6
      <4> DEFINE q == link[v].in
      <4>2. q \in Seq(NoticeType)
        BY ONLY <2>1
      <4> HIDE DEF q
      <4>3. Append(Append(q, a), c) = q \o <<a, c>>
        BY ONLY <4>1, <4>2, Queued
      <4>4. Append(Append(Append(q, a), c), f) = q \o <<a, c, f>>
        BY ONLY <4>1, <4>2, Queued
      <4> QED BY <4>3, <4>4 DEF q
    <3> HIDE DEF ms, mine
    <3> QED BY ONLY <3>3, <3>4, <3>5
  <2> QED BY <2>2, <2>3
<1>15. ASSUME NEW v \in Window
       PROVE  /\ ms[v] \in Seq(NoticeType) /\ (ms[v] # <<>> => link'[v].ready)
              /\ \A j \in DOMAIN ms[v] : \/ ms[v][j] = a \/ ms[v][j] = c
                                         \/ framed /\ v = w /\ ms[v][j] = f
              /\ link[v].ready => \E j \in DOMAIN ms[v] : j \in Nat \ {0} /\ ms[v][j] = c
  <2>1. CASE v # w
    <3>1. ms[v] = IF link[v].ready THEN <<c>> ELSE <<>>
      BY <2>1
    <3>2. <<c>> \in Seq(NoticeType) /\ <<>> \in Seq(NoticeType)
      BY <1>5
    <3>3. link[v].ready => link'[v].ready
      BY <1>13
    <3>4. <<c>>[1] = c /\ 1 \in DOMAIN <<c>> /\ \A j \in DOMAIN <<c>> : <<c>>[j] = c
      OBVIOUS
    <3>5. DOMAIN <<>> = {}
      OBVIOUS
    <3> HIDE DEF ms, mine
    <3>6. CASE link[v].ready
      BY ONLY <3>1, <3>2, <3>3, <3>4, <3>6
    <3>7. CASE ~link[v].ready
      BY ONLY <3>1, <3>2, <3>5, <3>7
    <3> QED BY <3>6, <3>7
  <2>2. CASE v = w /\ framed
    <3>1. ms[v] = <<a, c, f>> /\ <<a, c, f>> \in Seq(NoticeType)
      BY <1>5, <1>6, <2>2
    <3>2. ms[v][2] = c /\ 2 \in DOMAIN ms[v]
      BY <3>1
    <3>3. link'[v].ready
      BY <1>13, <2>2
    <3>4. \A j \in DOMAIN <<a, c, f>> : \/ <<a, c, f>>[j] = a \/ <<a, c, f>>[j] = c
                                \/ <<a, c, f>>[j] = f
      OBVIOUS
    <3> HIDE DEF ms, mine
    <3> QED BY ONLY <2>2, <3>1, <3>2, <3>3, <3>4
  <2>3. CASE v = w /\ ~framed
    <3>1. ms[v] = <<a, c>> /\ <<a, c>> \in Seq(NoticeType)
      BY <1>5, <1>6, <2>3
    <3>2. ms[v][2] = c /\ 2 \in DOMAIN ms[v]
      BY <3>1
    <3>3. link'[v].ready
      BY <1>13, <2>3
    <3>4. \A j \in DOMAIN <<a, c>> : \/ <<a, c>>[j] = a \/ <<a, c>>[j] = c
                                
      OBVIOUS
    <3> HIDE DEF ms, mine
    <3> QED BY ONLY <2>3, <3>1, <3>2, <3>3, <3>4
  <2> QED BY <2>1, <2>2, <2>3
<1>16. ms = [v \in Window |-> ms[v]]
  OBVIOUS
<1> HIDE DEF ms, mine
<1>17. ms \in [Window -> Seq(NoticeType)]
  BY <1>15, <1>16
<1>18. \A v, id : Controls(svc', v, id) <=> Controls(sv, v, id)
  BY <1>4 DEF Controls
<1>19. ASSUME NEW v \in Window, link[v].ready
       PROVE  Carries(v, svc, svc', ms[v])
  <2>1. PICK j \in DOMAIN ms[v] : j \in Nat \ {0} /\ ms[v][j] = c
    BY <1>15, <1>19
  <2>2. ms[v][j].kind = "catalog" /\ Terminals(ms[v][j].tabs) = Terminals(svc'.tabs)
    BY <1>4, <1>5, <2>1
  <2>3. \A id \in Terminals(svc'.tabs) : id < svc.next =>
           id \in Terminals(svc.tabs) /\ (Controls(svc, v, id) => Controls(svc', v, id))
    BY <1>2, <1>4, <1>18
  <2> QED BY <1>1, <1>4, <2>1, <2>2, <2>3, CarriesCatalog
<1>20. ASSUME NEW v \in Window
       PROVE  Truthful(v, svc', ms[v])
  <2>1. svc.next < svc'.next
    BY <1>1, <1>4
  <2>2. framed /\ v = w => Controls(svc', v, svc.next)
    BY <1>2, <1>7, <1>18
  <2>3. Terminals(c.tabs) = Terminals(svc'.tabs)
    BY <1>4, <1>5
  <2> QED BY ONLY <1>5, <1>6, <1>15, <2>1, <2>2, <2>3 DEF Truthful
<1>21. Head(link[w].out) # Focus(win[w].active)
  BY DEF Focus, Message
<1>22. svc.next <= svc'.next
  BY <1>1, <1>4
<1>23. \A v \in Window :
               /\ link'[v].up = link[v].up /\ (link[v].ready => link'[v].ready)
               /\ link'[v].out = IF v = w THEN Tail(link[v].out) ELSE link[v].out
               /\ win[v].conn /\ link[v].up =>
                    /\ link'[v].in = link[v].in \o ms[v]
                    /\ \A j \in DOMAIN ms[v] : Shows(ms[v][j]) => link'[v].ready
                    /\ link[v].ready => Carries(v, svc, svc', ms[v])
                    /\ Truthful(v, svc', ms[v])
  BY ONLY <1>13, <1>14, <1>15, <1>19, <1>20, NoNotice
<1>24. /\ svc.up /\ link[w].up /\ link[w].out # <<>> /\ UNCHANGED <<win, typed>>
       /\ heard' = IF Head(link[w].out).kind = "input"
                   THEN [heard EXCEPT ![w] = Head(link[w].out).key] ELSE heard
  BY DEF Serving
<1> QED BY <1>4, <1>12, <1>17, <1>21, <1>22, <1>23, <1>24, TakenStep

LEMMA ControlledSound ==
    ASSUME NEW sv, Sound(sv), NEW i \in DOMAIN sv.tabs, NEW w \in Window
    PROVE  LET b == Controlled(sv, i, w) IN
           /\ Sound(b) /\ b.next = sv.next /\ b.up = sv.up /\ b.due = sv.due
           /\ b.closed = sv.closed /\ Terminals(b.tabs) = Terminals(sv.tabs)
           /\ Controls(b, w, sv.tabs[i].id)
           /\ \A v, id : Controls(sv, v, id) =>
                \/ Controls(b, v, id)
                \/ id = sv.tabs[i].id /\ v = sv.tabs[i].owner
<1> DEFINE t == [sv.tabs[i] EXCEPT !.owner = w]
          us == [sv.tabs EXCEPT ![i] = t]
          b == [sv EXCEPT !.tabs = us]
<1>1. /\ sv \in SvcType /\ sv.tabs \in Seq(TabType) /\ Distinct(sv.tabs)
      /\ \A j \in DOMAIN sv.tabs : sv.tabs[j].id < sv.next
  BY DEF Sound, SvcType
<1>2. t \in TabType /\ t.id = sv.tabs[i].id /\ t.browser = sv.tabs[i].browser /\ t.owner = w
  <2>1. sv.tabs[i] \in TabType
    BY <1>1
  <2> QED BY <2>1 DEF TabType
<1>3. Controlled(sv, i, w) = b
  BY <1>1 DEF SvcType, Controlled
<1> HIDE DEF t
<1>4. /\ us \in Seq(TabType) /\ DOMAIN us = DOMAIN sv.tabs /\ us[i] = t
      /\ \A j \in DOMAIN sv.tabs : j # i => us[j] = sv.tabs[j]
  BY <1>1, <1>2
<1> HIDE DEF us
<1>5. /\ b \in SvcType /\ b.tabs = us /\ b.next = sv.next /\ b.up = sv.up /\ b.due = sv.due
      /\ b.closed = sv.closed
  BY <1>1, <1>4 DEF SvcType
<1> HIDE DEF b
<1>6. \A j \in DOMAIN us : us[j].id = sv.tabs[j].id /\ us[j].browser = sv.tabs[j].browser
  BY <1>2, <1>4
<1>7. Sound(b)
  BY <1>1, <1>4, <1>5, <1>6 DEF Sound, Distinct
<1>8. Terminals(us) = Terminals(sv.tabs)
  BY <1>4, <1>6 DEF Terminals
<1>9. Controls(b, w, sv.tabs[i].id)
  BY <1>2, <1>4, <1>5 DEF Controls
<1>10. ASSUME NEW v, NEW id, Controls(sv, v, id)
       PROVE  Controls(b, v, id) \/ (id = sv.tabs[i].id /\ v = sv.tabs[i].owner)
  <2>1. PICK j \in DOMAIN sv.tabs : sv.tabs[j].id = id /\ sv.tabs[j].owner = v
    BY <1>10 DEF Controls
  <2>2. CASE j = i
    BY <2>1, <2>2
  <2>3. CASE j # i
    BY <1>4, <1>5, <2>1, <2>3 DEF Controls
  <2> QED BY <2>2, <2>3
<1> QED BY <1>3, <1>5, <1>7, <1>8, <1>9, <1>10

LEMMA TakeControlStep ==
    ASSUME WindowsInv, NEW w \in Window, Serving(w), NEW i \in DOMAIN svc.tabs,
           Head(link[w].out).tab = svc.tabs[i].id, link[w].ready,
           TakeControl(i, w, Taken(w), Head(link[w].out).kind = "focus")
    PROVE  WindowsInv'
<1> DEFINE b == Controlled(svc, i, w)
          id == svc.tabs[i].id
          old == svc.tabs[i].owner
          r == Notice("release", id)
          f == Notice("frame", id)
          ousts == old \notin {w, None}
          framed == Head(link[w].out).kind = "focus" /\ old # w
          lk == Ousted(Taken(w), i, w)
          ms == [v \in Window |-> IF v = w THEN IF framed THEN <<f>> ELSE <<>>
                                  ELSE IF ousts /\ v = old THEN <<r>> ELSE <<>>]
<1>1. /\ Sound(svc) /\ svc \in SvcType /\ svc.next \in Nat /\ svc.up /\ link[w].up
      /\ id \in Nat /\ id < svc.next /\ (ousts => old \in Window)
  <2>1. Sound(svc) /\ svc \in SvcType /\ svc.next \in Nat /\ svc.tabs \in Seq(TabType)
    BY DEF WindowsInv, SvcOK, Sound, SvcType
  <2>2. svc.tabs[i] \in TabType
    BY <2>1
  <2> QED BY <2>1, <2>2 DEF Sound, TabType, Serving
<1>2. /\ Sound(b) /\ b.next = svc.next /\ b.up = svc.up /\ b.due = svc.due
      /\ b.closed = svc.closed /\ Terminals(b.tabs) = Terminals(svc.tabs)
      /\ Controls(b, w, id)
      /\ \A v, n : Controls(svc, v, n) => Controls(b, v, n) \/ (n = id /\ v = old)
  BY <1>1, ControlledSound
<1>3. /\ r \in NoticeType /\ r.kind = "release" /\ r.tab = id
      /\ f \in NoticeType /\ f.kind = "frame" /\ f.tab = id
  BY <1>1, NoticeIs
<1>4. /\ svc' = b
      /\ lk = IF ousts THEN Told(Taken(w), old, r) ELSE Taken(w)
      /\ link' = IF framed THEN Told(lk, w, f) ELSE lk
  BY DEF TakeControl, Ousted
<1>5. Taken(w) \in Links /\ \A v \in Window :
           /\ Taken(w)[v].up = link[v].up /\ Taken(w)[v].ready = link[v].ready
           /\ Taken(w)[v].in = link[v].in
           /\ Taken(w)[v].out = IF v = w THEN Tail(link[v].out) ELSE link[v].out
  BY TakenFields DEF Serving
<1> HIDE DEF b, r, f, lk
<1>6. /\ lk \in Links
      /\ \A v \in Window :
           /\ lk[v].up = link[v].up /\ lk[v].ready = link[v].ready
           /\ lk[v].out = IF v = w THEN Tail(link[v].out) ELSE link[v].out
           /\ lk[v].in = IF ousts /\ v = old /\ link[v].up /\ win[v].conn
                         THEN Append(link[v].in, r) ELSE link[v].in
  <2>1. CASE ousts
    <3> DEFINE t == Told(Taken(w), old, r)
    <3>1. /\ t \in Links
          /\ \A v \in Window :
               /\ t[v].up = Taken(w)[v].up /\ t[v].ready = Taken(w)[v].ready
               /\ t[v].out = Taken(w)[v].out
               /\ t[v].in = IF v = old /\ Taken(w)[v].up /\ win[v].conn
                           THEN Append(Taken(w)[v].in, r) ELSE Taken(w)[v].in
      BY ONLY <1>1, <1>3, <1>5, <2>1, ToldFields
    <3>2. lk = t
      BY <1>4, <2>1
    <3> HIDE DEF t, ousts, old
    <3> QED BY ONLY <1>5, <2>1, <3>1, <3>2
  <2>2. CASE ~ousts
    <3> HIDE DEF ousts, old
    <3> QED BY ONLY <1>4, <1>5, <2>2
  <2> QED BY <2>1, <2>2
<1>7. /\ link' \in Links
      /\ \A v \in Window :
           /\ link'[v].up = lk[v].up /\ link'[v].ready = lk[v].ready
           /\ link'[v].out = lk[v].out
           /\ link'[v].in = IF framed /\ v = w /\ lk[v].up /\ win[v].conn
                            THEN Append(lk[v].in, f) ELSE lk[v].in
  <2>1. CASE framed
    <3> DEFINE t == Told(lk, w, f)
    <3>1. /\ t \in Links
          /\ \A v \in Window :
               /\ t[v].up = lk[v].up /\ t[v].ready = lk[v].ready
               /\ t[v].out = lk[v].out
               /\ t[v].in = IF v = w /\ lk[v].up /\ win[v].conn
                           THEN Append(lk[v].in, f) ELSE lk[v].in
      BY ONLY <1>3, <1>6, w \in Window, ToldFields
    <3>2. link' = t
      BY <1>4, <2>1
    <3> HIDE DEF framed, t
    <3> QED BY ONLY <2>1, <3>1, <3>2
  <2>2. CASE ~framed
    <3> HIDE DEF framed
    <3> QED BY ONLY <1>4, <1>6, <2>2
  <2> QED BY <2>1, <2>2
<1>8. ASSUME NEW v \in Window
      PROVE  /\ link'[v].up = link[v].up /\ link'[v].ready = link[v].ready
             /\ link'[v].out = IF v = w THEN Tail(link[v].out) ELSE link[v].out
  <2> HIDE DEF framed, ousts, old
  <2>1. /\ link'[v].up = lk[v].up /\ link'[v].ready = lk[v].ready /\ link'[v].out = lk[v].out
    BY ONLY <1>7, v \in Window
  <2>2. /\ lk[v].up = link[v].up /\ lk[v].ready = link[v].ready
        /\ lk[v].out = IF v = w THEN Tail(link[v].out) ELSE link[v].out
    BY ONLY <1>6, v \in Window
  <2> QED BY ONLY <2>1, <2>2
<1>9. ousts => old # w
  OBVIOUS
<1>10. ASSUME NEW v \in Window
       PROVE  ms[v] = IF v = w THEN IF framed THEN <<f>> ELSE <<>>
                      ELSE IF ousts /\ v = old THEN <<r>> ELSE <<>>
  BY DEF ms
<1>12. ms = [v \in Window |-> ms[v]]
  OBVIOUS
<1> HIDE DEF ms, framed, ousts
<1>13. ASSUME NEW v \in Window, win[v].conn, link[v].up
       PROVE  link'[v].in = link[v].in \o ms[v]
  <2>1. link[v].in \in Seq(NoticeType)
    BY WindowKeyed
  <2>2. lk[v].in = IF ousts /\ v = old THEN Append(link[v].in, r) ELSE link[v].in
    BY ONLY <1>6, <1>13
  <2>3. link'[v].in = IF framed /\ v = w THEN Append(lk[v].in, f) ELSE lk[v].in
    BY ONLY <1>6, <1>7, <1>13
  <2>4. /\ link[v].in \o <<>> = link[v].in /\ Append(link[v].in, r) = link[v].in \o <<r>>
        /\ Append(link[v].in, f) = link[v].in \o <<f>>
    BY ONLY <1>3, <2>1, Queued
  <2> HIDE DEF old
  <2> QED BY ONLY <1>9, <1>10, <2>2, <2>3, <2>4, v \in Window
<1>14. ASSUME NEW v \in Window
       PROVE  /\ ms[v] \in Seq(NoticeType)
              /\ \A j \in DOMAIN ms[v] : ms[v][j] = r \/ (v = w /\ ms[v][j] = f)
              /\ ousts /\ v = old => ms[v] = <<r>>
  <2>1. <<>> \in Seq(NoticeType) /\ <<r>> \in Seq(NoticeType) /\ <<f>> \in Seq(NoticeType)
    BY ONLY <1>3, Queued
  <2>2. \A j \in DOMAIN <<r>> : <<r>>[j] = r
    OBVIOUS
  <2>3. \A j \in DOMAIN <<f>> : <<f>>[j] = f
    OBVIOUS
  <2>4. DOMAIN <<>> = {}
    OBVIOUS
  <2> HIDE DEF old
  <2>5. CASE ms[v] = <<r>>
    <3> DEFINE z == <<r>>
    <3>1. z \in Seq(NoticeType) /\ (\A j \in DOMAIN z : z[j] = r) /\ ms[v] = z
      BY ONLY <2>1, <2>2, <2>5
    <3>2. ms[v] = <<r>>
      BY <2>5
    <3> HIDE DEF z
    <3> QED BY ONLY <3>1, <3>2
  <2>6. CASE ms[v] = <<>>
    BY ONLY <1>9, <1>10, <2>1, <2>4, <2>6, v \in Window
  <2>7. CASE ms[v] = <<f>> /\ v = w
    BY ONLY <1>9, <1>10, <2>1, <2>3, <2>7, v \in Window
  <2> QED BY ONLY <1>10, <2>5, <2>6, <2>7, v \in Window
<1>15. ms \in [Window -> Seq(NoticeType)]
  BY ONLY <1>12, <1>14
<1>16. ASSUME NEW v \in Window
       PROVE  Carries(v, svc, svc', ms[v])
  <2>1. ASSUME NEW n, Controls(svc, v, n)
        PROVE  Controls(b, v, n) \/ Notified(ms[v], 0, n)
    <3>1. CASE n = id /\ v = old /\ v # w
      <4>1. None \notin Window
        BY WindowsAssumption
      <4>2. ousts
        BY <3>1, <4>1 DEF ousts
      <4>3. ms[v] = <<r>>
        BY <1>14, <3>1, <4>2
      <4>4. 1 \in DOMAIN ms[v] /\ ms[v][1] = r /\ 1 > 0
        BY <4>3
      <4> QED BY <1>3, <3>1, <4>4 DEF Notified, Dispossesses
    <3>2. CASE n = id /\ v = w
      BY <1>2, <3>2
    <3>3. CASE ~(n = id /\ v = old)
      BY <1>2, <2>1, <3>3
    <3> QED BY <3>1, <3>2, <3>3
  <2> QED BY <1>1, <1>2, <1>4, <2>1, CarriesOwners
<1>17. ASSUME NEW v \in Window
       PROVE  Truthful(v, svc', ms[v])
  <2> HIDE DEF id, old
  <2> QED BY ONLY <1>1, <1>2, <1>3, <1>4, <1>14, v \in Window DEF Truthful
<1>18. ASSUME NEW v \in Window, NEW j \in DOMAIN ms[v], Shows(ms[v][j])
       PROVE  link'[v].ready
  BY <1>3, <1>8, <1>14, <1>18 DEF Shows
<1>19. Head(link[w].out) = Focus(win[w].active) => Controls(svc', w, win[w].active)
  BY <1>2, <1>4 DEF Focus, Message
<1>20. svc.next <= svc'.next /\ svc'.up /\ Sound(svc')
  <2>1. svc.up /\ svc.next <= svc.next
    BY <1>1
  <2> QED BY ONLY <1>2, <1>4, <2>1
<1>21. \A v \in Window :
               /\ link'[v].up = link[v].up /\ (link[v].ready => link'[v].ready)
               /\ link'[v].out = IF v = w THEN Tail(link[v].out) ELSE link[v].out
               /\ win[v].conn /\ link[v].up =>
                    /\ link'[v].in = link[v].in \o ms[v]
                    /\ \A j \in DOMAIN ms[v] : Shows(ms[v][j]) => link'[v].ready
                    /\ link[v].ready => Carries(v, svc, svc', ms[v])
                    /\ Truthful(v, svc', ms[v])
  BY ONLY <1>8, <1>13, <1>16, <1>17, <1>18
<1>22. /\ svc.up /\ link[w].up /\ link[w].out # <<>> /\ UNCHANGED <<win, typed>>
       /\ heard' = IF Head(link[w].out).kind = "input"
                   THEN [heard EXCEPT ![w] = Head(link[w].out).key] ELSE heard
  BY DEF Serving
<1> QED BY <1>7, <1>15, <1>19, <1>20, <1>21, <1>22, TakenStep

LEMMA ServeStep ==
    ASSUME WindowsInv, NEW w \in Window, Serve(w)
    PROVE  WindowsInv'
<1> DEFINE m == Head(link[w].out)
          lk == [link EXCEPT ![w].out = Tail(@)]
          at == {i \in DOMAIN svc.tabs : svc.tabs[i].id = m.tab /\ link[w].ready}
<1>1. /\ svc.up /\ link[w].up /\ link[w].out # <<>> /\ UNCHANGED <<win, typed>>
      /\ heard' = IF m.kind = "input" THEN [heard EXCEPT ![w] = m.key] ELSE heard
      /\ \/ m.kind \in {"hello", "new"} /\ NewShell(w, lk)
         \/ m.kind = "browser" /\ NewBrowser(w, lk)
         \/ m.kind = "attach" /\ Attach(w, lk)
         \/ \E i \in at : m.kind = "close" /\ svc' = Closed(svc, i) /\ link' = lk
         \/ \E i \in at : /\ m.kind \in {"focus", "input"} /\ ~svc.tabs[i].browser
                          /\ TakeControl(i, w, lk, m.kind = "focus")
         \/ /\ m.kind \in {"close", "focus", "input"}
            /\ \A i \in at : m.kind # "close" /\ svc.tabs[i].browser
            /\ link' = lk /\ UNCHANGED svc
  BY DEF Serve
<1>2. lk = Taken(w)
  BY DEF Taken
<1>3. Serving(w)
  BY <1>1 DEF Serving
<1>4. /\ Admitted(w) \in Links /\ Sound(svc)
      /\ Notice("created", svc.next) \in NoticeType /\ Notice("frame", svc.next) \in NoticeType
  <2>1. Sound(svc) /\ svc.next \in Nat
    BY DEF WindowsInv, SvcOK, Sound, SvcType
  <2>2. Admitted(w) \in Links
    BY <1>1, TakenFields
  <2> QED BY <2>1, <2>2, NoticeIs
<1> HIDE DEF lk
<1>5. CASE m.kind \in {"hello", "new"} /\ NewShell(w, lk)
  <2> DEFINE sv == Created(svc, FALSE, w)
             a == Notice("created", svc.next)
             l == Spread(Told(Admitted(w), w, a), CatalogOf(sv))
  <2>1. svc' = Announced(sv) /\ link' = Told(l, w, Notice("frame", svc.next))
    BY <1>2, <1>5 DEF NewShell, Announced, Spread, Admitted
  <2>2. CatalogOf(sv) \in NoticeType
    BY <1>4, CreatedSound, CatalogFields
  <2>3. l \in Links
    BY <1>4, <2>2, ToldFields, SpreadFields
  <2> HIDE DEF l, m
  <2>4. l = Spread(Told(Admitted(w), w, Notice("created", svc.next)), CatalogOf(Created(svc, FALSE, w)))
    BY DEF l
  <2>5. Head(link[w].out).kind \in {"hello", "new", "browser"} /\ svc' = Announced(Created(svc, FALSE, w))
    BY <1>5, <2>1 DEF m
  <2> QED BY <1>3, <2>1, <2>3, <2>4, <2>5, MadeStep
<1>6. CASE m.kind = "browser" /\ NewBrowser(w, lk)
  <2> DEFINE sv == Created(svc, TRUE, None)
             a == Notice("created", svc.next)
             l == Spread(Told(Admitted(w), w, a), CatalogOf(sv))
  <2>1. svc' = Announced(sv) /\ link' = l
    BY <1>2, <1>6, BroadcastIs DEF NewBrowser, Admitted
  <2>2. CatalogOf(sv) \in NoticeType
    BY <1>4, CreatedSound, CatalogFields
  <2>3. l \in Links
    BY <1>4, <2>2, ToldFields, SpreadFields
  <2> HIDE DEF l, m
  <2>4. l = Spread(Told(Admitted(w), w, Notice("created", svc.next)), CatalogOf(Created(svc, TRUE, None)))
    BY DEF l
  <2>5. Head(link[w].out).kind \in {"hello", "new", "browser"} /\ svc' = Announced(Created(svc, TRUE, None))
    BY <1>6, <2>1 DEF m
  <2> QED BY <1>3, <2>1, <2>3, <2>4, <2>5, MadeStep
<1>7. CASE m.kind = "attach" /\ Attach(w, lk)
  BY <1>2, <1>3, <1>7, AttachStep
<1>8. CASE \E i \in at : m.kind = "close" /\ svc' = Closed(svc, i) /\ link' = lk
  BY <1>2, <1>3, <1>8, CloseTabStep
<1>9. CASE \E i \in at : /\ m.kind \in {"focus", "input"} /\ ~svc.tabs[i].browser
                         /\ TakeControl(i, w, lk, m.kind = "focus")
  BY <1>2, <1>3, <1>9, TakeControlStep
<1>10. CASE /\ m.kind \in {"close", "focus", "input"}
            /\ \A i \in at : m.kind # "close" /\ svc.tabs[i].browser
            /\ link' = lk /\ UNCHANGED svc
  BY <1>2, <1>3, <1>10, IgnoredStep
<1> QED BY <1>1, <1>5, <1>6, <1>7, <1>8, <1>9, <1>10

-----------------------------------------------------------------------------
(* The invariant holds at first, and every step keeps it.                    *)

LEMMA AppFields ==
    ASSUME NEW life \in {"none", "open"}
    PROVE  /\ App(life) \in AppType /\ App(life).views = {} /\ App(life).live = {}
           /\ App(life).early = <<>> /\ App(life).pages = <<>> /\ App(life).initial
           /\ App(life).active = NoTab
<1>1. <<>> \in Pages
  <2>1. <<>> \in Seq(PageType) /\ DOMAIN <<>> = {}
    OBVIOUS
  <2> QED BY <2>1 DEF Pages, Distinct
<1>2. <<>> \in Seq(KeyType)
  OBVIOUS
<1>3. (life = "open") \in BOOLEAN
  OBVIOUS
<1> QED BY <1>1, <1>2, <1>3 DEF App, AppType, NoTab

LEMMA InitInv == Init => WindowsInv
<1> SUFFICES ASSUME Init PROVE WindowsInv
  OBVIOUS
<1> DEFINE w1 == CHOOSE w \in Window : TRUE
<1>1. PICK first \in FirstLaunch :
        /\ svc = [up |-> TRUE, tabs |-> <<>>, next |-> 1, closed |-> NoTab,
                  fallback |-> NoTab, due |-> FALSE]
        /\ win = [w \in Window |-> App(IF w = w1 THEN "open" ELSE "none")]
        /\ link = [w \in Window |-> IF w = w1 THEN FreshLink(Message(first, NoTab, 0)) ELSE NoLink]
        /\ typed = 0 /\ heard = [w \in Window |-> 0]
  <2>1. PICK first \in FirstLaunch :
            link = [w \in Window |-> IF w = w1 THEN FreshLink(Message(first, NoTab, 0)) ELSE NoLink]
    BY DEF Init
  <2>2. /\ svc = [up |-> TRUE, tabs |-> <<>>, next |-> 1, closed |-> NoTab,
                  fallback |-> NoTab, due |-> FALSE]
        /\ win = [w \in Window |-> App(IF w = w1 THEN "open" ELSE "none")]
        /\ typed = 0 /\ heard = [w \in Window |-> 0]
    BY DEF Init
  <2> HIDE DEF w1
  <2> QED BY <2>1, <2>2
<1> HIDE DEF w1
<1>2. <<>> \in Seq(TabType) /\ <<>> \in Seq(NoticeType) /\ <<>> \in Seq(MessageType)
      /\ DOMAIN <<>> = {}
  OBVIOUS
<1>3. Sound(svc)
  BY <1>1, <1>2 DEF Sound, SvcType, NoTab, Distinct
<1>4. ASSUME NEW v \in Window
      PROVE  /\ win[v] \in AppType /\ win[v].views = {} /\ win[v].live = {}
             /\ win[v].early = <<>> /\ win[v].pages = <<>> /\ win[v].initial
             /\ win[v].active = NoTab
  <2>1. \E life \in {"none", "open"} : win[v] = App(life)
    BY <1>1
  <2> QED BY <2>1, AppFields
<1>5. ASSUME NEW v \in Window
      PROVE  /\ link[v] \in LinkType /\ link[v].in = <<>> /\ Inputs(link[v].out) = {}
  <2> DEFINE m == Message(first, NoTab, 0)
  <2>1. m \in MessageType /\ m.kind # "input"
    BY WindowsAssumption DEF Message, MessageType, NoTab
  <2> HIDE DEF m
  <2>2. <<m>> \in Seq(MessageType) /\ DOMAIN <<m>> = {1} /\ <<m>>[1] = m
    BY <2>1
  <2>3. CASE v = w1
    <3>1. link[v] = FreshLink(m)
      BY <1>1, <2>3 DEF m
    <3>2. FreshLink(m).out = <<m>> /\ FreshLink(m).in = <<>> /\ FreshLink(m) \in LinkType
      BY <1>2, <2>2 DEF FreshLink, LinkType
    <3>3. Inputs(<<m>>) = {}
      BY <2>1, <2>2 DEF Inputs
    <3> QED BY <3>1, <3>2, <3>3
  <2>4. CASE v # w1
    <3>1. link[v] = NoLink
      BY <1>1, <2>4
    <3>2. Inputs(<<>>) = {}
      BY <1>2 DEF Inputs
    <3> QED BY <1>2, <3>1, <3>2 DEF NoLink, LinkType
  <2> QED BY <2>3, <2>4
<1>6. Ui \in UiType
  BY <1>1, <1>4, <1>5 DEF Ui, UiType
<1>7. SvcOK /\ typed \in Nat /\ heard \in [Window -> Nat]
  BY <1>1, <1>3 DEF SvcOK
<1>8. Disjoint(win)
  BY <1>4 DEF Disjoint
<1>9. ASSUME NEW v \in Window
      PROVE  Arriving(v) /\ Good(v, win[v], link[v], Rest(v))
  <2>1. Arriving(v)
    BY <1>2, <1>5 DEF Arriving
  <2>2. Placed(win[v]) /\ Shown(win[v]) /\ Quiet(win[v])
    BY <1>4 DEF Placed, Shown, Quiet
  <2>3. Bound(win[v], link[v], v, Rest(v))
    BY DEF Bound, Rest
  <2>4. Keyed(win[v], link[v].out, heard[v], Rest(v))
    <3>1. heard[v] = 0 /\ typed = 0
      BY <1>1
    <3>2. Rest(v).top = 0 /\ Rest(v).later = {}
      BY <3>1 DEF Rest
    <3>3. DOMAIN win[v].early = {} /\ Inputs(link[v].out) = {}
      BY <1>2, <1>4, <1>5
    <3> QED BY ONLY <3>1, <3>2, <3>3 DEF Keyed, InOrder, Ascending
  <2>5. Follows(v, win[v], link[v], Rest(v).at) /\ Claimed(v, win[v], link[v], Rest(v).at)
    BY <1>4 DEF Follows, Claimed, Online
  <2>6. Rest(v).alive => Alive(win[v])
    BY DEF Rest
  <2> QED BY <2>1, <2>2, <2>3, <2>4, <2>5, <2>6 DEF Good
<1> QED BY <1>6, <1>7, <1>8, <1>9 DEF WindowsInv

LEMMA StepInv == WindowsInv /\ [Next]_vars => WindowsInv'
<1> SUFFICES ASSUME WindowsInv, [Next]_vars PROVE WindowsInv'
  OBVIOUS
<1>1. ASSUME NEW w \in Window,
             \/ \E n \in 1..Len(link[w].in) : Receive(w, n)
             \/ ReadEnd(w) \/ Reconnect(w) \/ CloseAsked(w) \/ Serve(w) \/ DropClosed(w)
      PROVE  WindowsInv'
  <2>1. ASSUME NEW n \in 1..Len(link[w].in), Receive(w, n) PROVE WindowsInv'
    BY <2>1, ReceiveStep
  <2>2. CASE ReadEnd(w)
    BY <2>2, ReadEndStep
  <2>3. CASE Reconnect(w)
    BY <2>3, ReconnectStep
  <2>4. CASE CloseAsked(w)
    BY <2>4, CloseStep
  <2>5. CASE Serve(w)
    BY <2>5, ServeStep
  <2>6. CASE DropClosed(w)
    BY <2>6, DroppedStep DEF DropClosed
  <2> QED BY <1>1, <2>1, <2>2, <2>3, <2>4, <2>5, <2>6
<1>2. ASSUME NEW w \in Window,
             \/ \E first \in {"hello", "attach", "browser"} : Open(w, first)
             \/ \E what \in {"text", "new", "close"} : Press(w, what)
             \/ \E id \in Ids(win[w].pages) : Select(w, id)
             \/ ShowBrowser(w) \/ Close(w) \/ DropClient(w) \/ ReconnectBreaks(w)
      PROVE  WindowsInv'
  <2>1. ASSUME NEW first \in {"hello", "attach", "browser"}, Open(w, first) PROVE WindowsInv'
    BY <2>1, OpenStep
  <2>2. ASSUME NEW what \in {"text", "new", "close"}, Press(w, what) PROVE WindowsInv'
    BY <2>2, PressStep
  <2>3. ASSUME NEW id \in Ids(win[w].pages), Select(w, id) PROVE WindowsInv'
    BY <2>3, SelectStep
  <2>4. CASE ShowBrowser(w)
    BY <2>4, ShowBrowserStep
  <2>5. CASE Close(w)
    BY <2>5, CloseStep
  <2>6. CASE DropClient(w)
    BY <2>6, DroppedStep DEF DropClient
  <2>7. CASE ReconnectBreaks(w)
    BY <2>7, ReconnectBreaksStep
  <2> QED BY <1>2, <2>1, <2>2, <2>3, <2>4, <2>5, <2>6, <2>7
<1>3. CASE Publish
  BY <1>3, PublishStep
<1>4. ASSUME NEW kept \in BOOLEAN, Start(kept) PROVE WindowsInv'
  BY <1>4, StartStep
<1>5. CASE Down
  BY <1>5, DownStep
<1>6. ASSUME NEW i \in DOMAIN svc.tabs, ShellEnds(i) \/ Convert(i) PROVE WindowsInv'
  BY <1>6, ShellEndsStep, ConvertStep
<1>7. CASE UNCHANGED vars
  <2>1. Ui' \in UiType /\ SvcOK' /\ typed' \in Nat /\ heard' \in [Window -> Nat] /\ Disjoint(win')
    BY <1>7 DEF vars, WindowsInv, Ui, SvcOK, Sound
  <2>2. \A v \in Window : (Arriving(v) /\ Good(v, win[v], link[v], Rest(v)))'
    <3>1. /\ svc' = svc /\ link' = link /\ win' = win /\ typed' = typed /\ heard' = heard
      BY <1>7 DEF vars
    <3> TAKE v \in Window
    <3> QED BY <3>1, Untouched
  <2> QED BY <2>1, <2>2 DEF WindowsInv
<1>8. CASE Next
  <2>1. CASE Progress
    BY <1>1, <1>3, <2>1 DEF Progress
  <2>2. CASE Environment
    BY <1>2, <1>5, <1>6, <2>2 DEF Environment
  <2>3. CASE Begins
    BY <1>4, <2>3 DEF Begins
  <2> QED BY <1>8, <2>1, <2>2, <2>3 DEF Next
<1> QED BY <1>7, <1>8

LEMMA WindowsInvariant == Spec => []WindowsInv
<1> QED BY InitInv, StepInv, PTL DEF Spec

(* However many windows, tabs and lost connections: the live view of a       *)
(* browser tab is in one window at most, and that window has its page        *)
(* (App::claim_browser, App::release_browsers, App::catalog).                *)
THEOREM BrowserHasOneView == Spec => []OneView
<1>1. WindowsInv => OneView
  <2> SUFFICES ASSUME WindowsInv, NEW v \in Window, NEW w \in Window
               PROVE  /\ \A id \in win[w].views : HasBrowser(win[w].pages, id)
                      /\ v # w => win[v].views \cap win[w].views = {}
    BY DEF OneView
  <2>1. win[w].views \subseteq Browsers(win[w].pages)
    BY DEF WindowsInv, Good, Placed
  <2>2. v # w => win[v].views \cap win[w].views = {}
    BY DEF WindowsInv, Disjoint
  <2> QED BY <2>1, <2>2, Kinds
<1> QED BY <1>1, WindowsInvariant, PTL

(* A window types without a claim only into a terminal it controls, or has   *)
(* claimed, or is about to learn that it lost, through broken connections,   *)
(* restarts and tabs that end or become browser tabs.                        *)
THEOREM LiveTerminalIsControlled == Spec => []LiveIsControlled
<1>1. WindowsInv => LiveIsControlled
  <2> SUFFICES ASSUME WindowsInv, NEW w \in Window,
                      win[w].conn /\ link[w].up /\ ~win[w].initial /\ ~win[w].missed
                      /\ win[w].active \in win[w].live
               PROVE  \/ Controls(svc, w, win[w].active)
                      \/ Focus(win[w].active) \in ToSet(link[w].out)
                      \/ \E m \in ToSet(link[w].in) : Dispossesses(m, win[w].active)
                      \/ GoneUntold(svc, win[w].active)
    BY DEF LiveIsControlled
  <2>1. Claimed(w, win[w], link[w], 0)
    BY RestFields, Idles DEF Good
  <2>2. \/ \E i \in DOMAIN link[w].out : link[w].out[i] = Focus(win[w].active)
        \/ Explained(w, link[w].in, 0, win[w].active)
    BY <2>1 DEF Claimed, Online
  <2>3. ToSet(link[w].out) = {link[w].out[i] : i \in DOMAIN link[w].out}
        /\ ToSet(link[w].in) = {link[w].in[i] : i \in DOMAIN link[w].in}
    BY DEF ToSet
  <2> QED BY <2>2, <2>3 DEF Explained, Notified
<1> QED BY <1>1, WindowsInvariant, PTL

(* Keys reach the programs in the order they were typed: no broken           *)
(* connection, tab switch or buffer that a catalog empties lets a later key  *)
(* pass an earlier one (App::shortcut, App::catalog, App::input).            *)
THEOREM KeysArriveInOrder == Spec => []KeysStayInOrder
<1>1. WindowsInv => KeysStayInOrder
  BY DEF WindowsInv, Good, Keyed, KeysStayInOrder
<1> QED BY <1>1, WindowsInvariant, PTL
=============================================================================
