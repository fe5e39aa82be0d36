----------------------------- MODULE FramesProofs -----------------------------
(***************************************************************************)
(* Replication of a terminal to the window that controls it, for any       *)
(* number of windows, screens of any size, queues of any bound and any     *)
(* number of requests.  Every handler is a set of outcomes; each outcome   *)
(* of a sound tab with its windows is sound, and owes a frame whenever it  *)
(* comes from send_frame.                                                  *)
(***************************************************************************)
EXTENDS Frames, FrameRowsProofs, WellFoundedInduction

-----------------------------------------------------------------------------
(* Reading a queue. *)

(* A set of numbers that is not empty has a least one.                     *)
LEMMA LeastExists ==
    ASSUME NEW T, T \subseteq Nat, T # {}
    PROVE  \E n \in T : \A m \in T : n <= m
<1> DEFINE less == OpToRel(<, Nat)
<1>1. IsWellFoundedOn(less, Nat)
  BY NatLessThanWellFounded
<1>2. \A x, y \in Nat : x < y => <<x, y>> \in less
  BY DEF OpToRel
<1> HIDE DEF less
<1>3. PICK n \in T : \A m \in T : ~(<<m, n>> \in less)
  BY <1>1, WFMin
<1>4. \A m \in T : m \in Nat /\ n \in Nat /\ ~(m < n)
  BY <1>2, <1>3
<1> QED BY <1>4

(* What a window shows after each of the first n entries.                  *)
IsRun(f, view, queue, n) ==
    f = [k \in 0..n |-> IF k = 0 THEN view ELSE Imported(f[k - 1], queue[k])]

(* Two readings of the same entries agree as far as both go.               *)
LEMMA RunUnique ==
    ASSUME NEW view, NEW q, NEW f, NEW g, NEW n \in Nat,
           IsRun(f, view, q, n), IsRun(g, view, q, n)
    PROVE  f[n] = g[n]
<1> DEFINE T == {k \in 0..n : f[k] # g[k]}
<1>1. T \subseteq Nat
  OBVIOUS
<1>2. \A k \in 0..n :
        /\ f[k] = IF k = 0 THEN view ELSE Imported(f[k - 1], q[k])
        /\ g[k] = IF k = 0 THEN view ELSE Imported(g[k - 1], q[k])
  BY DEF IsRun
<1>3. CASE T = {}
  BY <1>3
<1>4. CASE T # {}
  <2> HIDE DEF T
  <2>1. PICK k \in T : \A m \in T : k <= m
    BY <1>1, <1>4, LeastExists
  <2>2. k \in 0..n /\ f[k] # g[k] /\ \A m \in 0..n : f[m] # g[m] => k <= m
    BY <2>1 DEF T
  <2>3. k # 0
    BY <1>2, <2>2
  <2>4. k - 1 \in 0..n /\ ~(k <= k - 1)
    BY <2>2, <2>3
  <2>5. f[k - 1] = g[k - 1]
    BY <2>2, <2>4
  <2> QED BY <1>2, <2>2, <2>3, <2>5
<1> QED BY <1>3, <1>4

(* A reading of n entries goes on to the next.                             *)
LEMMA RunExtends ==
    ASSUME NEW view, NEW q, NEW f, NEW n \in Nat, IsRun(f, view, q, n)
    PROVE  \E g : IsRun(g, view, q, n + 1) /\ g[n + 1] = Imported(f[n], q[n + 1])
<1> DEFINE g == [k \in 0..(n + 1) |-> IF k = n + 1 THEN Imported(f[n], q[n + 1]) ELSE f[k]]
<1>1. \A k \in 0..n : f[k] = IF k = 0 THEN view ELSE Imported(f[k - 1], q[k])
  BY DEF IsRun
<1>2. /\ DOMAIN g = 0..(n + 1) /\ g[n + 1] = Imported(f[n], q[n + 1])
      /\ \A k \in 0..n : g[k] = f[k]
  OBVIOUS
<1>3. ASSUME NEW k \in 0..(n + 1)
      PROVE  g[k] = IF k = 0 THEN view ELSE Imported(g[k - 1], q[k])
  <2>1. CASE k = n + 1
    <3>1. k - 1 = n /\ k # 0 /\ n \in 0..n
      BY <2>1
    <3> QED BY <1>2, <2>1, <3>1
  <2>2. CASE k # n + 1
    <3>1. k \in 0..n /\ (k # 0 => k - 1 \in 0..n)
      BY <2>2
    <3> QED BY <1>1, <1>2, <3>1
  <2> QED BY <2>1, <2>2
<1>4. g = [k \in 0..(n + 1) |-> g[k]]
  OBVIOUS
<1> HIDE DEF g
<1>5. IsRun(g, view, q, n + 1)
  BY <1>3, <1>4 DEF IsRun
<1> QED BY <1>2, <1>5

(* Every number of entries can be read.                                    *)
LEMMA RunExists ==
    ASSUME NEW view, NEW q, NEW n \in Nat
    PROVE  \E f : IsRun(f, view, q, n)
<1> DEFINE T == {k \in Nat : ~\E f : IsRun(f, view, q, k)}
<1> SUFFICES ASSUME T # {} PROVE FALSE
  OBVIOUS
<1>1. T \subseteq Nat
  OBVIOUS
<1> HIDE DEF T
<1>2. PICK k \in T : \A m \in T : k <= m
  BY <1>1, LeastExists
<1>3. k \in Nat /\ ~(\E f : IsRun(f, view, q, k))
  BY <1>2 DEF T
<1>4. IsRun([j \in 0..0 |-> view], view, q, 0)
  BY DEF IsRun
<1>5. k # 0
  BY <1>3, <1>4
<1>6. k - 1 \in Nat /\ ~(k <= k - 1) /\ (k - 1) + 1 = k
  BY <1>3, <1>5
<1>7. k - 1 \notin T
  BY <1>2, <1>6
<1>8. PICK f : IsRun(f, view, q, k - 1)
  BY <1>6, <1>7 DEF T
<1>9. \E g : IsRun(g, view, q, (k - 1) + 1)
  BY <1>6, <1>8, RunExtends
<1> QED BY <1>3, <1>6, <1>9

(* Reading a queue is the end of such a reading, of any.                   *)
LEMMA ReadingIsRun ==
    ASSUME NEW view, NEW q, Len(q) \in Nat, NEW f, IsRun(f, view, q, Len(q))
    PROVE  Reading(view, q) = f[Len(q)]
<1> DEFINE g == CHOOSE h : h = [k \in 0..Len(q) |->
                                  IF k = 0 THEN view ELSE Imported(h[k - 1], q[k])]
<1>1. \E h : h = [k \in 0..Len(q) |-> IF k = 0 THEN view ELSE Imported(h[k - 1], q[k])]
  BY DEF IsRun
<1>2. g = [k \in 0..Len(q) |-> IF k = 0 THEN view ELSE Imported(g[k - 1], q[k])]
  BY <1>1
<1>3. Reading(view, q) = g[Len(q)]
  BY DEF Reading
<1> HIDE DEF g
<1>4. IsRun(g, view, q, Len(q))
  BY <1>2 DEF IsRun
<1> QED BY <1>3, <1>4, RunUnique

IsSeq(q) == \E S : q \in Seq(S)

(* An empty queue leaves the view.                                         *)
LEMMA ReadNothing ==
    ASSUME NEW view PROVE Reading(view, <<>>) = view
<1> DEFINE f == [j \in 0..0 |-> view]
<1>1. Len(<<>>) = 0 /\ f[0] = view
  OBVIOUS
<1>2. IsRun(f, view, <<>>, 0)
  BY DEF IsRun
<1> HIDE DEF f
<1>3. Reading(view, <<>>) = f[Len(<<>>)]
  BY <1>1, <1>2, ReadingIsRun
<1> QED BY <1>1, <1>3

(* The last entry is imported last.                                        *)
LEMMA ReadAppended ==
    ASSUME NEW view, NEW q, IsSeq(q), NEW e
    PROVE  Reading(view, Append(q, e)) = Imported(Reading(view, q), e)
<1> DEFINE p == Append(q, e)
           n == Len(q)
<1>1. /\ n \in Nat /\ Len(p) = n + 1 /\ p[n + 1] = e
      /\ \A k \in 1..n : p[k] = q[k]
  BY DEF IsSeq
<1> HIDE DEF p
<1>2. PICK f : IsRun(f, view, q, n)
  BY <1>1, RunExists
<1>3. Reading(view, q) = f[n]
  BY <1>1, <1>2, ReadingIsRun
<1>4. IsRun(f, view, p, n)
  <2>1. \A k \in 0..n : (IF k = 0 THEN view ELSE Imported(f[k - 1], p[k]))
                       = (IF k = 0 THEN view ELSE Imported(f[k - 1], q[k]))
    BY <1>1
  <2> QED BY <1>2, <2>1 DEF IsRun
<1>5. PICK g : IsRun(g, view, p, n + 1) /\ g[n + 1] = Imported(f[n], p[n + 1])
  BY <1>1, <1>4, RunExtends
<1>6. Reading(view, p) = g[n + 1]
  BY <1>1, <1>5, ReadingIsRun
<1> QED BY <1>1, <1>3, <1>5, <1>6 DEF p

(* The first entry may be imported first.                                  *)
LEMMA ReadFirst ==
    ASSUME NEW view, NEW q, IsSeq(q), q # <<>>
    PROVE  Reading(Imported(view, Head(q)), Tail(q)) = Reading(view, q)
<1> DEFINE n == Len(q) - 1
           p == Tail(q)
           v == Imported(view, Head(q))
<1>1. /\ n \in Nat /\ Len(q) = n + 1 /\ Len(p) = n /\ Head(q) = q[1]
      /\ \A k \in 1..n : p[k] = q[k + 1]
  BY DEF IsSeq
<1>2. PICK f : IsRun(f, view, q, n + 1)
  BY <1>1, RunExists
<1>3. Reading(view, q) = f[n + 1]
  BY <1>1, <1>2, ReadingIsRun
<1>4. \A k \in 0..(n + 1) : f[k] = IF k = 0 THEN view ELSE Imported(f[k - 1], q[k])
  BY <1>2 DEF IsRun
<1> DEFINE g == [k \in 0..n |-> f[k + 1]]
<1>5. ASSUME NEW k \in 0..n
      PROVE  g[k] = IF k = 0 THEN v ELSE Imported(g[k - 1], p[k])
  <2>1. CASE k = 0
    <3>1. f[1] = Imported(f[0], q[1]) /\ f[0] = view
      BY <1>1, <1>4
    <3> QED BY <1>1, <2>1, <3>1
  <2>2. CASE k # 0
    <3>1. k - 1 \in 0..n /\ k + 1 \in 0..(n + 1) /\ k + 1 # 0 /\ (k + 1) - 1 = k
          /\ (k - 1) + 1 = k /\ k \in 1..n
      BY <1>1, <2>2
    <3>2. f[k + 1] = Imported(f[(k + 1) - 1], q[k + 1])
      BY <1>4, <3>1
    <3>3. g[k - 1] = f[k]
      BY <3>1
    <3> QED BY <1>1, <2>2, <3>1, <3>2, <3>3
  <2> QED BY <2>1, <2>2
<1>6. g = [k \in 0..n |-> g[k]] /\ g[n] = f[n + 1]
  BY <1>1
<1> HIDE DEF g, v, p
<1>7. IsRun(g, v, p, n)
  BY <1>5, <1>6 DEF IsRun
<1>8. Reading(v, p) = g[n]
  BY <1>1, <1>7, ReadingIsRun
<1> QED BY <1>3, <1>6, <1>8 DEF v, p

-----------------------------------------------------------------------------
(* What stays true of a tab and of the windows. *)

TabType == [screen : Screens, head : FrameHead, dirty : SUBSET Nat,
            gate : {"open", "held", "expired"}, base : {<<>>} \cup Screens,
            baseHead : FrameHead, controller : Client \cup {None},
            pending : BOOLEAN, reply : BOOLEAN]

Retained(t) ==
    (t.base # <<>> /\ Len(t.base) = Len(t.screen) /\ t.head \notin Scrolled)
        => Changed(t.base, t.screen) \subseteq t.dirty

TabOK(t) ==
    /\ t \in TabType
    /\ t.dirty \subseteq DOMAIN t.screen
    /\ t.controller = None => t.base = <<>>
    /\ Retained(t)

PeerOK(p) ==
    /\ p = [resync |-> p.resync, queue |-> p.queue]
    /\ p.resync \in BOOLEAN
    /\ IsSeq(p.queue)

PeersOK(ps) ==
    /\ DOMAIN ps \subseteq DOMAIN views
    /\ \A c \in DOMAIN ps : PeerOK(ps[c])

Synced(t, ps) ==
    (t.controller # None /\ t.base # <<>>) =>
        Reading(views[t.controller], ps[t.controller].queue)
            = [cells |-> t.base, head |-> t.baseHead]

Sound(t, ps) ==
    /\ TabOK(t) /\ PeersOK(ps)
    /\ t.controller \in DOMAIN ps \cup {None}
    /\ Synced(t, ps)

(* Owed, of any tab with its windows. *)
Owing(t, ps) ==
    \/ t.controller = None
    \/ t.base = t.screen /\ t.baseHead = t.head
    \/ t.head \in Scrolled /\ t.baseHead = t.head
    \/ t.pending
    \/ ps[t.controller].resync

FramesInv == Sound(tab, peers) /\ DOMAIN views = DOMAIN peers

LEMMA AppendIsSeq ==
    ASSUME NEW q, IsSeq(q), NEW e PROVE IsSeq(Append(q, e))
<1>1. PICK S : q \in Seq(S)
  BY DEF IsSeq
<1>2. q \in Seq(S \cup {e})
  BY <1>1
<1>3. Append(q, e) \in Seq(S \cup {e})
  BY <1>2
<1> QED BY <1>3 DEF IsSeq

LEMMA TailIsSeq ==
    ASSUME NEW q, IsSeq(q), q # <<>> PROVE IsSeq(Tail(q))
<1>1. PICK S : q \in Seq(S)
  BY DEF IsSeq
<1>2. Tail(q) \in Seq(S)
  BY <1>1
<1> QED BY <1>2 DEF IsSeq

(* A screen has one of the heights, and a row in every place.               *)
LEMMA ScreenHeight ==
    ASSUME NEW s \in Screens
    PROVE  /\ Len(s) \in Heights /\ Len(s) \in Nat \ {0}
           /\ s \in Screen(Len(s)) /\ DOMAIN s = 1..Len(s) /\ s # <<>>
<1>1. PICK h \in Heights : s \in [1..h -> Row]
  BY DEF Screens
<1>2. h \in Nat \ {0}
  BY FramesAssumption
<1>3. DOMAIN s = 1..h /\ Len(s) = h
  BY <1>1, <1>2
<1>4. s # <<>>
  BY <1>2, <1>3
<1> QED BY <1>1, <1>2, <1>3, <1>4 DEF Screen

LEMMA ScreenIsOne ==
    ASSUME NEW h \in Heights, NEW s \in Screen(h)
    PROVE  s \in Screens /\ Len(s) = h /\ DOMAIN s = 1..h
<1>1. h \in Nat \ {0}
  BY FramesAssumption
<1> QED BY <1>1 DEF Screens, Screen

LEMMA FreshIsHead ==
    Fresh.head \in FrameHead /\ Fresh.head \notin Scrolled
BY FramesAssumption DEF Fresh

(* A baseline that is kept with its controller stays right, whatever        *)
(* happens to the engine and to the flags.                                  *)
LEMMA SameBaseline ==
    ASSUME NEW t, NEW ps, Sound(t, ps), NEW u, TabOK(u),
           u.controller = t.controller, u.base = t.base, u.baseHead = t.baseHead
    PROVE  Sound(u, ps)
BY DEF Sound, Synced

(* Without a baseline there is nothing to describe.                         *)
LEMMA NoBaseline ==
    ASSUME NEW u, NEW qs, TabOK(u), PeersOK(qs),
           u.controller \in DOMAIN qs \cup {None}, u.base = <<>>
    PROVE  Sound(u, qs)
BY DEF Sound, Synced

(* Queues that read the same leave the baseline right.                      *)
LEMMA SameReading ==
    ASSUME NEW t, NEW ps, Sound(t, ps), NEW qs, PeersOK(qs),
           t.controller \in DOMAIN qs \cup {None},
           t.controller # None =>
               Reading(views[t.controller], qs[t.controller].queue)
                   = Reading(views[t.controller], ps[t.controller].queue)
    PROVE  Sound(t, qs)
BY DEF Sound, Synced

(* A tab without its baseline. *)
LEMMA ClearedOK ==
    ASSUME NEW t, TabOK(t), NEW full \in BOOLEAN
    PROVE  /\ TabOK(Cleared(t, full))
           /\ Cleared(t, full).base \in {t.base, <<>>}
           /\ Cleared(t, full).baseHead = t.baseHead
           /\ Cleared(t, full).controller = t.controller
           /\ Cleared(t, full).dirty = t.dirty
           /\ Cleared(t, full).head = t.head
           /\ Cleared(t, full).screen = t.screen
BY DEF TabOK, TabType, Cleared, Retained

LEMMA ReleaseOK ==
    ASSUME NEW t, TabOK(t)
    PROVE  /\ TabOK(Release(t))
           /\ Release(t).controller = None /\ Release(t).base = <<>>
BY FreshIsHead DEF TabOK, TabType, Release, Retained

(* Control goes to a window and the baseline goes.                          *)
LEMMA TakenOK ==
    ASSUME NEW t, TabOK(t), NEW c \in Client
    PROVE  /\ TabOK([Release(t) EXCEPT !.controller = c])
           /\ [Release(t) EXCEPT !.controller = c].controller = c
           /\ [Release(t) EXCEPT !.controller = c].base = <<>>
<1>1. Release(t) \in TabType /\ Release(t).base = <<>> /\ Release(t).dirty \subseteq DOMAIN Release(t).screen
  BY ReleaseOK DEF TabOK
<1> DEFINE u == [Release(t) EXCEPT !.controller = c]
<1>2. u \in TabType /\ u.base = <<>> /\ u.controller = c /\ u.dirty = Release(t).dirty /\ u.screen = Release(t).screen
  BY <1>1 DEF TabType
<1>3. c # None
  BY FramesAssumption
<1> QED BY <1>1, <1>2, <1>3 DEF TabOK, Retained

(* A closed connection takes its queue, and its control of the tab.         *)
LEMMA DropOK ==
    ASSUME NEW t, NEW ps, TabOK(t), PeersOK(ps), NEW c,
           t.controller = c \/ Sound(t, ps)
    PROVE  LET o == Drop(t, ps, c) IN
           /\ Sound(o.tab, o.peers)
           /\ o.tab.controller \in {None, t.controller}
           /\ t.controller = c => o.tab.controller = None
           /\ t.controller # c => /\ o.tab = t
                                  /\ \A d \in DOMAIN ps \ {c} : o.peers[d] = ps[d]
           /\ DOMAIN o.peers = DOMAIN ps \ {c}
<1> DEFINE qs == [d \in DOMAIN ps \ {c} |-> ps[d]]
<1>1. PeersOK(qs) /\ DOMAIN qs = DOMAIN ps \ {c} /\ \A d \in DOMAIN qs : qs[d] = ps[d]
  BY DEF PeersOK
<1> HIDE DEF qs
<1>2. CASE t.controller = c
  <2>1. Drop(t, ps, c) = [tab |-> Release(t), peers |-> qs]
    BY <1>2 DEF Drop, Outcome, qs
  <2>2. Sound(Release(t), qs)
    BY <1>1, ReleaseOK, NoBaseline
  <2> QED BY <1>1, <1>2, <2>1, <2>2, ReleaseOK
<1>3. CASE t.controller # c
  <2>1. Drop(t, ps, c) = [tab |-> t, peers |-> qs]
    BY <1>3 DEF Drop, Outcome, qs
  <2>2. Sound(t, ps)
    BY <1>3
  <2>3. t.controller \in DOMAIN qs \cup {None}
    BY <1>1, <1>3, <2>2 DEF Sound
  <2>4. t.controller # None => qs[t.controller] = ps[t.controller]
    BY <1>1, <2>3, FramesAssumption
  <2>5. Sound(t, qs)
    BY <1>1, <2>2, <2>3, <2>4, SameReading
  <2> QED BY <1>1, <1>3, <2>1, <2>5
<1> QED BY <1>2, <1>3

(* An entry more in a queue.                                                *)
LEMMA AppendedPeer ==
    ASSUME NEW p, PeerOK(p), NEW e
    PROVE  LET r == [p EXCEPT !.queue = Append(@, e)] IN
           PeerOK(r) /\ r.resync = p.resync /\ r.queue = Append(p.queue, e)
<1> DEFINE r == [p EXCEPT !.queue = Append(@, e)]
<1>1. r = [resync |-> p.resync, queue |-> Append(p.queue, e)]
  BY DEF PeerOK
<1>2. p.resync \in BOOLEAN /\ IsSeq(Append(p.queue, e))
  BY AppendIsSeq DEF PeerOK
<1> HIDE DEF r
<1> QED BY <1>1, <1>2 DEF PeerOK, r

(* Another packet at the end of a queue is read past.                       *)
LEMMA NotePeer ==
    ASSUME NEW p, PeerOK(p), NEW view
    PROVE  LET r == [p EXCEPT !.queue = Append(@, Note)] IN
           /\ PeerOK(r) /\ r.resync = p.resync
           /\ Reading(view, r.queue) = Reading(view, p.queue)
<1>1. Reading(view, Append(p.queue, Note)) = Imported(Reading(view, p.queue), Note)
  BY ReadAppended DEF PeerOK
<1>2. Imported(Reading(view, p.queue), Note) = Reading(view, p.queue)
  BY DEF Imported
<1> QED BY <1>1, <1>2, AppendedPeer

(* Service::queue keeps the baseline right, and what is owed.               *)
LEMMA QueueOK ==
    ASSUME NEW t, NEW ps, Sound(t, ps), NEW c \in DOMAIN ps, NEW o \in Queue(t, ps, c)
    PROVE  /\ Sound(o.tab, o.peers)
           /\ Owing(t, ps) => Owing(o.tab, o.peers)
           /\ DOMAIN o.peers \subseteq DOMAIN ps
<1>1. TabOK(t) /\ PeersOK(ps) /\ t.controller \in DOMAIN ps \cup {None}
  BY DEF Sound
<1>2. CASE o = Drop(t, ps, c)
  <2>1. /\ Sound(o.tab, o.peers) /\ DOMAIN o.peers = DOMAIN ps \ {c}
        /\ t.controller = c => o.tab.controller = None
        /\ t.controller # c => o.tab = t /\ \A d \in DOMAIN ps \ {c} : o.peers[d] = ps[d]
    BY <1>1, <1>2, DropOK
  <2>2. Owing(t, ps) => Owing(o.tab, o.peers)
    BY <1>1, <2>1 DEF Owing
  <2> QED BY <2>1, <2>2
<1>3. CASE o # Drop(t, ps, c)
  <2> DEFINE qs == [ps EXCEPT ![c].queue = Append(@, Note)]
             r == [ps[c] EXCEPT !.queue = Append(@, Note)]
  <2>1. o = [tab |-> t, peers |-> qs]
    BY <1>3 DEF Queue, Outcome
  <2>2. /\ DOMAIN qs = DOMAIN ps /\ qs[c] = r
        /\ \A d \in DOMAIN ps \ {c} : qs[d] = ps[d]
    OBVIOUS
  <2>3. PeerOK(ps[c])
    BY <1>1 DEF PeersOK
  <2>4. /\ PeerOK(r) /\ r.resync = ps[c].resync
        /\ \A view : Reading(view, r.queue) = Reading(view, ps[c].queue)
    BY <2>3, NotePeer
  <2> HIDE DEF qs, r
  <2>5. PeersOK(qs)
    BY <1>1, <2>2, <2>4 DEF PeersOK
  <2>6. /\ t.controller \in DOMAIN qs \cup {None}
        /\ t.controller # None =>
             /\ qs[t.controller].resync = ps[t.controller].resync
             /\ Reading(views[t.controller], qs[t.controller].queue)
                  = Reading(views[t.controller], ps[t.controller].queue)
    BY <1>1, <2>2, <2>4
  <2>7. Sound(t, qs)
    BY <2>5, <2>6, SameReading
  <2> QED BY <2>1, <2>2, <2>6, <2>7 DEF Owing
<1> QED BY <1>2, <1>3

(* The same for a packet to every window.                                   *)
LEMMA QueueAllOK ==
    ASSUME NEW t, NEW ps, Sound(t, ps), NEW o \in QueueAll(t, ps)
    PROVE  /\ Sound(o.tab, o.peers)
           /\ Owing(t, ps) => Owing(o.tab, o.peers)
           /\ DOMAIN o.peers \subseteq DOMAIN ps
<1>1. TabOK(t) /\ PeersOK(ps) /\ t.controller \in DOMAIN ps \cup {None}
  BY DEF Sound
<1>2. PICK lost \in SUBSET DOMAIN ps :
        o = Outcome(IF t.controller \in lost THEN Release(t) ELSE t,
                    [c \in DOMAIN ps \ lost |-> [ps[c] EXCEPT !.queue = Append(@, Note)]])
  BY DEF QueueAll
<1> DEFINE qs == [c \in DOMAIN ps \ lost |-> [ps[c] EXCEPT !.queue = Append(@, Note)]]
<1>3. /\ DOMAIN qs = DOMAIN ps \ lost
      /\ \A c \in DOMAIN qs : qs[c] = [ps[c] EXCEPT !.queue = Append(@, Note)]
  OBVIOUS
<1> HIDE DEF qs
<1>4. \A c \in DOMAIN qs :
        /\ PeerOK(qs[c]) /\ qs[c].resync = ps[c].resync
        /\ \A view : Reading(view, qs[c].queue) = Reading(view, ps[c].queue)
  <2> TAKE c \in DOMAIN qs
  <2>1. c \in DOMAIN ps /\ PeerOK(ps[c])
    BY <1>1, <1>3 DEF PeersOK
  <2> QED BY <1>3, <2>1, NotePeer
<1>5. PeersOK(qs)
  BY <1>1, <1>3, <1>4 DEF PeersOK
<1>6. CASE t.controller \in lost
  <2>1. o.tab = Release(t) /\ o.peers = qs
    BY <1>2, <1>6 DEF Outcome, qs
  <2>2. Sound(o.tab, o.peers)
    BY <1>1, <1>5, <2>1, ReleaseOK, NoBaseline
  <2> QED BY <1>1, <1>3, <2>1, <2>2, ReleaseOK DEF Owing
<1>7. CASE t.controller \notin lost
  <2>1. o.tab = t /\ o.peers = qs
    BY <1>2, <1>7 DEF Outcome, qs
  <2>2. t.controller \in DOMAIN qs \cup {None}
    BY <1>1, <1>3, <1>7
  <2>3. t.controller # None =>
             /\ qs[t.controller].resync = ps[t.controller].resync
             /\ Reading(views[t.controller], qs[t.controller].queue)
                  = Reading(views[t.controller], ps[t.controller].queue)
    BY <1>4, <2>2
  <2>4. Sound(t, qs)
    BY <1>5, <2>2, <2>3, SameReading
  <2> QED BY <1>3, <2>1, <2>3, <2>4 DEF Owing
<1> QED BY <1>6, <1>7

(* take_control                                                             *)
LEMMA TakeControlOK ==
    ASSUME NEW t, NEW ps, Sound(t, ps), NEW c \in Client, c \in DOMAIN ps,
           NEW o \in TakeControl(t, ps, c)
    PROVE  /\ Sound(o.tab, o.peers)
           /\ t.controller = c => o.tab = t /\ o.peers = ps
           /\ DOMAIN o.peers \subseteq DOMAIN ps
<1>1. TabOK(t) /\ PeersOK(ps) /\ t.controller \in DOMAIN ps \cup {None}
  BY DEF Sound
<1>2. CASE t.controller = c
  BY <1>2 DEF TakeControl, Outcome
<1>3. CASE t.controller # c
  <2> DEFINE taken == [Release(t) EXCEPT !.controller = c]
  <2>1. /\ TabOK(taken) /\ taken.controller = c /\ taken.base = <<>>
    BY <1>1, TakenOK
  <2>2. \/ o = Outcome(taken, ps)
        \/ t.controller # None /\ o \in Queue(taken, ps, t.controller)
    BY <1>3 DEF TakeControl
  <2> HIDE DEF taken
  <2>3. Sound(taken, ps)
    BY <1>1, <2>1, NoBaseline
  <2>4. CASE o = Outcome(taken, ps)
    BY <1>3, <2>3, <2>4 DEF Outcome
  <2>5. CASE t.controller # None /\ o \in Queue(taken, ps, t.controller)
    BY <1>1, <1>3, <2>3, <2>5, QueueOK
  <2> QED BY <2>2, <2>4, <2>5
<1> QED BY <1>2, <1>3

(* A frame that was prepared from a sound tab: its commit is the screen,     *)
(* but for rows that changed under a scrolled view.                          *)
LEMMA CommitCatchesUp ==
    ASSUME NEW t, TabOK(t), NEW full \in BOOLEAN, NEW cells, Shows(cells, t.base)
    PROVE  LET plan == Plan(t.base, t.screen, t.dirty, full, Negotiated)
               after == Commit(t.base, t.screen, plan)
           IN /\ after \in Screens
              /\ Len(after) = Len(t.screen)
              /\ Finish(cells, plan, Blank) = after
              /\ t.head \notin Scrolled => after = t.screen
              /\ Empty(plan) => t.base = after
<1> DEFINE plan == Plan(t.base, t.screen, t.dirty, full, Negotiated)
           after == Commit(t.base, t.screen, plan)
           h == Len(t.screen)
<1>1. /\ h \in Heights /\ h \in Nat \ {0} /\ t.screen \in Screen(h) /\ DOMAIN t.screen = 1..h
  BY ScreenHeight DEF TabOK, TabType
<1>2. t.dirty \in SUBSET (1..h)
  BY <1>1 DEF TabOK
<1>3. Exact(h, t.base, t.screen, t.dirty, full, Negotiated, cells, Blank)
  BY <1>1, <1>2, PlanIsExact
<1>4. /\ after \in Screen(h)
      /\ Finish(cells, plan, Blank) = after
      /\ \A r \in 1..h :
           \/ after[r] = t.screen[r]
           \/ t.base # <<>> /\ Len(t.base) = h /\ r \notin t.dirty /\ after[r] = t.base[r]
      /\ Empty(plan) => t.base = after
  BY <1>3 DEF Exact
<1>5. after \in Screens /\ Len(after) = h
  BY <1>1, <1>4, ScreenIsOne
<1> HIDE DEF plan, after
<1>6. ASSUME t.head \notin Scrolled PROVE after = t.screen
  <2>1. \A r \in 1..h : after[r] = t.screen[r]
    BY <1>1, <1>4, <1>6 DEF TabOK, Retained, Changed
  <2> QED BY <1>1, <1>4, <2>1 DEF Screen
<1> QED BY <1>4, <1>5, <1>6 DEF plan, after

(* A frame is appended whole and the baseline committed with it: a window    *)
(* that has read its queue shows the new baseline.                           *)
LEMMA SentOK ==
    ASSUME NEW t, NEW ps, Sound(t, ps), t.controller # None, NEW full \in BOOLEAN
    PROVE  LET o == Sent(t, ps, Plan(t.base, t.screen, t.dirty, full, Negotiated)) IN
           /\ Sound(o.tab, o.peers)
           /\ Owing(o.tab, o.peers)
           /\ DOMAIN o.peers \subseteq DOMAIN ps
<1> DEFINE plan == Plan(t.base, t.screen, t.dirty, full, Negotiated)
           after == Commit(t.base, t.screen, plan)
           c == t.controller
           view == Reading(views[c], ps[c].queue)
           frame == [plan |-> plan, head |-> t.head]
           u == [t EXCEPT !.base = after, !.baseHead = t.head,
                          !.dirty = {}, !.pending = FALSE, !.reply = FALSE]
           qs == [ps EXCEPT ![c].queue = Append(@, {frame})]
           r == [ps[c] EXCEPT !.queue = Append(@, {frame})]
<1>1. TabOK(t) /\ PeersOK(ps) /\ c \in DOMAIN ps /\ Synced(t, ps)
  BY DEF Sound
<1>2. Shows(view.cells, t.base)
  <2>1. t.base # <<>> => view = [cells |-> t.base, head |-> t.baseHead]
    BY <1>1 DEF Synced
  <2>2. t.base # <<>> => t.base \in Screen(Len(t.base))
    BY <1>1, ScreenHeight DEF TabOK, TabType
  <2> QED BY <2>1, <2>2 DEF Shows
<1>3. /\ after \in Screens /\ Len(after) = Len(t.screen)
      /\ Finish(view.cells, plan, Blank) = after
      /\ t.head \notin Scrolled => after = t.screen
  BY <1>1, <1>2, CommitCatchesUp
<1>4. Sent(t, ps, plan) = [tab |-> u, peers |-> qs]
  BY DEF Sent, Outcome
<1>5. /\ DOMAIN qs = DOMAIN ps /\ qs[c] = r
      /\ \A d \in DOMAIN ps \ {c} : qs[d] = ps[d]
  BY <1>1
<1> HIDE DEF plan, after, qs, view, frame
<1>6. PeerOK(ps[c])
  BY <1>1 DEF PeersOK
<1>7. IsSeq(ps[c].queue)
  BY <1>6 DEF PeerOK
<1>8. PeerOK(r) /\ r.queue = Append(ps[c].queue, {frame})
  BY <1>6, AppendedPeer
<1>9. Reading(views[c], r.queue) = [cells |-> after, head |-> t.head]
  <2>1. Reading(views[c], r.queue) = Imported(view, {frame})
    BY <1>7, <1>8, ReadAppended DEF view
  <2>2. {frame} # Note /\ (CHOOSE f \in {frame} : TRUE) = frame
    BY DEF Note
  <2>3. frame.plan = plan /\ frame.head = t.head
    BY DEF frame
  <2>4. Imported(view, {frame}) = [cells |-> Finish(view.cells, plan, Blank), head |-> t.head]
    BY <2>2, <2>3 DEF Imported
  <2> QED BY <1>3, <2>1, <2>4
<1>10. /\ u \in TabType /\ u.screen = t.screen /\ u.head = t.head /\ u.base = after
       /\ u.baseHead = t.head /\ u.dirty = {} /\ u.controller = c
  BY <1>1, <1>3 DEF TabOK, TabType
<1> HIDE DEF u, r
<1>11. u.head \notin Scrolled => Changed(u.base, u.screen) = {}
  BY <1>3, <1>10 DEF Changed
<1>12. TabOK(u)
  BY <1>10, <1>11 DEF TabOK, Retained
<1>13. PeersOK(qs)
  BY <1>1, <1>5, <1>8 DEF PeersOK
<1>14. Sound(u, qs)
  BY <1>1, <1>5, <1>9, <1>10, <1>12, <1>13 DEF Sound, Synced
<1>15. Owing(u, qs)
  BY <1>3, <1>10 DEF Owing
<1>16. Sent(t, ps, plan).tab = u /\ Sent(t, ps, plan).peers = qs
  BY <1>4
<1> QED BY <1>5, <1>14, <1>15, <1>16 DEF plan

(* Nothing is sent: the engine and the baseline already agree.               *)
LEMMA UnchangedOK ==
    ASSUME NEW t, NEW ps, Sound(t, ps), t.controller # None, NEW full \in BOOLEAN,
           Unchanged(t, Plan(t.base, t.screen, t.dirty, full, Negotiated))
    PROVE  LET u == [t EXCEPT !.dirty = {}, !.pending = FALSE] IN
           Sound(u, ps) /\ Owing(u, ps)
<1> DEFINE plan == Plan(t.base, t.screen, t.dirty, full, Negotiated)
           after == Commit(t.base, t.screen, plan)
           u == [t EXCEPT !.dirty = {}, !.pending = FALSE]
<1>1. TabOK(t)
  BY DEF Sound
<1>2. Shows(t.base, t.base)
  BY <1>1, ScreenHeight DEF Shows, TabOK, TabType
<1>3. (t.head \notin Scrolled => after = t.screen) /\ (Empty(plan) => t.base = after)
  BY <1>1, <1>2, CommitCatchesUp
<1> HIDE DEF plan, after
<1>4. t.head = t.baseHead /\ (t.head \notin Scrolled => t.base = t.screen)
  BY <1>3 DEF Unchanged, plan
<1>5. /\ u \in TabType /\ u.screen = t.screen /\ u.head = t.head /\ u.base = t.base
      /\ u.baseHead = t.baseHead /\ u.dirty = {} /\ u.controller = t.controller
  BY <1>1 DEF TabOK, TabType
<1> HIDE DEF u
<1>6. TabOK(u)
  BY <1>1, <1>4, <1>5 DEF TabOK, Retained, Changed
<1>7. Sound(u, ps)
  BY <1>5, <1>6, SameBaseline
<1>8. Owing(u, ps)
  BY <1>4, <1>5 DEF Owing
<1> QED BY <1>7, <1>8 DEF u

(* The congestion gate: the window will resume.                              *)
LEMMA CongestedOK ==
    ASSUME NEW t, NEW ps, Sound(t, ps), t.controller # None, NEW full \in BOOLEAN
    PROVE  LET o == Congested(t, ps, full) IN
           /\ Sound(o.tab, o.peers)
           /\ Owing(o.tab, o.peers)
           /\ DOMAIN o.peers \subseteq DOMAIN ps
<1> DEFINE c == t.controller
           k == Cleared(t, full)
           u == [k EXCEPT !.pending = FALSE]
           qs == [ps EXCEPT ![c].resync = TRUE]
<1>1. TabOK(t) /\ PeersOK(ps) /\ c \in DOMAIN ps
  BY DEF Sound
<1>2. /\ TabOK(k) /\ k.base \in {t.base, <<>>} /\ k.baseHead = t.baseHead
      /\ k.controller = c
  BY <1>1, ClearedOK
<1> HIDE DEF k
<1>3. /\ TabOK(u) /\ u.base = k.base /\ u.baseHead = k.baseHead /\ u.controller = c
  BY <1>2 DEF TabOK, TabType, Retained
<1>4. Congested(t, ps, full) = [tab |-> u, peers |-> qs]
  BY DEF Congested, Outcome, k
<1>5. /\ DOMAIN qs = DOMAIN ps /\ qs[c] = [ps[c] EXCEPT !.resync = TRUE]
      /\ \A d \in DOMAIN ps \ {c} : qs[d] = ps[d]
  BY <1>1
<1> HIDE DEF u, qs
<1>6. PeerOK(ps[c])
  BY <1>1 DEF PeersOK
<1>7. qs[c].queue = ps[c].queue /\ qs[c].resync = TRUE /\ PeerOK(qs[c])
  BY <1>5, <1>6 DEF PeerOK
<1>8. PeersOK(qs)
  BY <1>1, <1>5, <1>7 DEF PeersOK
<1>9. Sound(t, qs)
  BY <1>1, <1>5, <1>7, <1>8, SameReading
<1>10. Sound(u, qs)
  <2>1. CASE u.base = <<>>
    BY <1>1, <1>3, <1>5, <1>8, <2>1, NoBaseline
  <2>2. CASE u.base # <<>>
    <3>1. u.base = t.base /\ u.baseHead = t.baseHead
      BY <1>2, <1>3, <2>2
    <3> QED BY <1>3, <1>9, <3>1, SameBaseline
  <2> QED BY <2>1, <2>2
<1>11. Owing(u, qs)
  BY <1>3, <1>7 DEF Owing
<1> QED BY <1>4, <1>5, <1>10, <1>11

(* A synchronized update: the frame stays pending.                           *)
LEMMA HeldOK ==
    ASSUME NEW t, NEW ps, Sound(t, ps), NEW full \in BOOLEAN
    PROVE  Sound(Held(t, full), ps) /\ Owing(Held(t, full), ps)
<1> DEFINE k == Cleared(t, full)
           u == [k EXCEPT !.pending = TRUE]
<1>1. TabOK(t) /\ PeersOK(ps) /\ t.controller \in DOMAIN ps \cup {None}
  BY DEF Sound
<1>2. /\ TabOK(k) /\ k.base \in {t.base, <<>>} /\ k.baseHead = t.baseHead
      /\ k.controller = t.controller
  BY <1>1, ClearedOK
<1> HIDE DEF k
<1>3. /\ TabOK(u) /\ u.base = k.base /\ u.baseHead = k.baseHead
      /\ u.controller = t.controller /\ u.pending = TRUE
  BY <1>2 DEF TabOK, TabType, Retained
<1>4. Held(t, full) = u
  BY DEF Held, k
<1> HIDE DEF u
<1>5. CASE u.base = <<>>
  BY <1>1, <1>3, <1>4, <1>5, NoBaseline DEF Owing
<1>6. CASE u.base # <<>>
  <2>1. u.base = t.base /\ u.baseHead = t.baseHead
    BY <1>2, <1>3, <1>6
  <2> QED BY <1>3, <1>4, <2>1, SameBaseline DEF Owing
<1> QED BY <1>5, <1>6

(* send_frame: whatever it does, the baseline stays right and the window is  *)
(* not left out of date with nothing owed.                                   *)
LEMMA SendFrameOK ==
    ASSUME NEW t, NEW ps, Sound(t, ps), NEW full \in BOOLEAN,
           NEW o \in SendFrame(t, ps, full)
    PROVE  /\ Sound(o.tab, o.peers)
           /\ Owing(o.tab, o.peers)
           /\ DOMAIN o.peers \subseteq DOMAIN ps
<1> DEFINE plan == Plan(t.base, t.screen, t.dirty, full, Negotiated)
           quiet == [t EXCEPT !.dirty = {}, !.pending = FALSE]
<1>1. TabOK(t) /\ PeersOK(ps)
  BY DEF Sound
<1>2. CASE t.controller = None
  <2>1. o.peers = ps /\ o.tab \in {t, quiet}
    BY <1>2 DEF SendFrame, Outcome
  <2>2. t.base = <<>>
    BY <1>1, <1>2 DEF TabOK
  <2>3. TabOK(quiet) /\ quiet.controller = None /\ quiet.base = <<>>
    BY <1>1, <1>2, <2>2 DEF TabOK, TabType, Retained
  <2> HIDE DEF quiet
  <2>4. Sound(quiet, ps)
    BY <1>1, <2>3, NoBaseline
  <2> QED BY <1>2, <2>1, <2>3, <2>4 DEF Owing
<1>3. CASE t.controller # None
  <2> HIDE DEF plan
  <2>1. \/ o = Congested(t, ps, full)
        \/ o = Outcome(Held(t, full), ps)
        \/ Unchanged(t, plan) /\ o = Outcome(quiet, ps)
        \/ o = Sent(t, ps, plan)
        \/ o = Drop(t, ps, t.controller)
    BY <1>3 DEF SendFrame, plan
  <2>2. CASE o = Congested(t, ps, full)
    BY <1>3, <2>2, CongestedOK
  <2>3. CASE o = Outcome(Held(t, full), ps)
    BY <2>3, HeldOK DEF Outcome
  <2>4. CASE Unchanged(t, plan) /\ o = Outcome(quiet, ps)
    <3>1. Sound(quiet, ps) /\ Owing(quiet, ps)
      BY <1>3, <2>4, UnchangedOK DEF plan
    <3> QED BY <2>4, <3>1 DEF Outcome
  <2>5. CASE o = Sent(t, ps, plan)
    BY <1>3, <2>5, SentOK DEF plan
  <2>6. CASE o = Drop(t, ps, t.controller)
    BY <1>1, <2>6, DropOK DEF Owing
  <2> QED BY <2>1, <2>2, <2>3, <2>4, <2>5, <2>6
<1> QED BY <1>2, <1>3

(* A peer that may have resumed.                                            *)
LEMMA ResumedPeer ==
    ASSUME NEW p, PeerOK(p), NEW stays \in BOOLEAN
    PROVE  LET r == [p EXCEPT !.resync = @ /\ stays] IN
           PeerOK(r) /\ r.queue = p.queue /\ (stays => r.resync = p.resync)
<1> DEFINE r == [p EXCEPT !.resync = @ /\ stays]
<1>1. r = [resync |-> p.resync /\ stays, queue |-> p.queue]
  BY DEF PeerOK
<1>2. p.resync \in BOOLEAN /\ IsSeq(p.queue)
  BY DEF PeerOK
<1> HIDE DEF r
<1> QED BY <1>1, <1>2 DEF PeerOK, r

(* resync: windows that drained resume.                                      *)
LEMMA ResyncOK ==
    ASSUME NEW t, NEW ps, Sound(t, ps), NEW o \in Resync(t, ps)
    PROVE  /\ Sound(o.tab, o.peers)
           /\ Owing(t, ps) => Owing(o.tab, o.peers)
           /\ DOMAIN o.peers \subseteq DOMAIN ps
<1>1. TabOK(t) /\ PeersOK(ps) /\ t.controller \in DOMAIN ps \cup {None}
  BY DEF Sound
<1> DEFINE drained == {c \in DOMAIN ps : ps[c].resync /\ Len(ps[c].queue) < ResyncBacklog}
           qs == [c \in DOMAIN ps |-> [ps[c] EXCEPT !.resync = @ /\ c \notin drained]]
<1>2. o \in IF t.controller \in drained THEN SendFrame(t, qs, FALSE) ELSE {Outcome(t, qs)}
  BY DEF Resync
<1> HIDE DEF drained
<1>3. DOMAIN qs = DOMAIN ps
  OBVIOUS
<1>4. \A c \in DOMAIN ps :
        /\ PeerOK(qs[c]) /\ qs[c].queue = ps[c].queue
        /\ c \notin drained => qs[c].resync = ps[c].resync
  <2> TAKE c \in DOMAIN ps
  <2> DEFINE r == [ps[c] EXCEPT !.resync = @ /\ c \notin drained]
  <2>1. PeerOK(ps[c]) /\ qs[c] = r
    BY <1>1 DEF PeersOK
  <2>2. /\ PeerOK(r) /\ r.queue = ps[c].queue
        /\ c \notin drained => r.resync = ps[c].resync
    BY <2>1, ResumedPeer
  <2> QED BY <2>1, <2>2
<1> HIDE DEF qs
<1>5. PeersOK(qs)
  BY <1>1, <1>3, <1>4 DEF PeersOK
<1>6. Sound(t, qs)
  BY <1>1, <1>3, <1>4, <1>5, SameReading
<1>7. CASE t.controller \in drained
  BY <1>2, <1>3, <1>6, <1>7, SendFrameOK
<1>8. CASE t.controller \notin drained
  <2>1. o.tab = t /\ o.peers = qs
    BY <1>2, <1>8 DEF Outcome
  <2>2. Owing(t, ps) => Owing(t, qs)
    BY <1>1, <1>4, <1>8 DEF Owing
  <2> QED BY <1>3, <1>6, <2>1, <2>2
<1> QED BY <1>7, <1>8

(* The frame of a pending tab.                                               *)
LEMMA SendPendingOK ==
    ASSUME NEW t, NEW ps, Sound(t, ps), NEW o \in SendPending(t, ps)
    PROVE  /\ Sound(o.tab, o.peers)
           /\ Owing(t, ps) => Owing(o.tab, o.peers)
           /\ DOMAIN o.peers \subseteq DOMAIN ps
<1>1. CASE t.pending
  BY <1>1, SendFrameOK DEF SendPending
<1>2. CASE ~t.pending
  BY <1>2 DEF SendPending, Outcome
<1> QED BY <1>1, <1>2

-----------------------------------------------------------------------------
(* What the engine may do to the view under a baseline. *)

SameBase(t, u) ==
    /\ TabOK(u)
    /\ u.controller = t.controller /\ u.base = t.base /\ u.baseHead = t.baseHead

(* Output marks what it changes unless the view is scrolled, and then the    *)
(* view marks every row when it returns.                                     *)
LEMMA DrawnOK ==
    ASSUME NEW t, TabOK(t), NEW u \in Drawn(t)
    PROVE  SameBase(t, u)
<1>1. PICK rows \in [DOMAIN t.screen -> Row], head \in FrameHead,
           marks \in SUBSET DOMAIN t.screen :
        /\ u = [t EXCEPT !.screen = rows, !.head = head, !.dirty = @ \cup marks]
        /\ IF t.head \notin Scrolled
           THEN head \notin Scrolled /\ Changed(t.screen, rows) \subseteq marks
           ELSE head \notin Scrolled => marks = DOMAIN t.screen
  BY DEF Drawn
<1>2. /\ t \in TabType /\ t.dirty \subseteq DOMAIN t.screen
      /\ t.controller = None => t.base = <<>>
  BY DEF TabOK
<1>3. /\ Len(t.screen) \in Heights /\ DOMAIN t.screen = 1..Len(t.screen)
      /\ Len(t.screen) \in Nat
  BY <1>2, ScreenHeight DEF TabType
<1>4. rows \in Screen(Len(t.screen))
  BY <1>3 DEF Screen
<1>5. rows \in Screens /\ Len(rows) = Len(t.screen) /\ DOMAIN rows = DOMAIN t.screen
  BY <1>3, <1>4, ScreenIsOne
<1>6. t.dirty \cup marks \subseteq DOMAIN rows /\ t.dirty \cup marks \in SUBSET Nat
  BY <1>2, <1>3, <1>5
<1>7. /\ u \in TabType /\ u.screen = rows /\ u.head = head /\ u.dirty = t.dirty \cup marks
      /\ u.controller = t.controller /\ u.base = t.base /\ u.baseHead = t.baseHead
  BY <1>1, <1>2, <1>5, <1>6 DEF TabType
<1>8. Retained(u)
  <2> SUFFICES ASSUME u.base # <<>>, Len(u.base) = Len(u.screen), u.head \notin Scrolled,
                      NEW r \in Changed(u.base, u.screen)
               PROVE  r \in u.dirty
    BY DEF Retained
  <2>1. r \in DOMAIN t.screen /\ t.base[r] # rows[r]
    BY <1>5, <1>7 DEF Changed
  <2>2. CASE t.head \in Scrolled
    BY <1>1, <1>7, <2>1, <2>2
  <2>3. CASE t.head \notin Scrolled
    <3>1. t.base[r] # t.screen[r] => r \in t.dirty
      BY <1>5, <1>7, <2>1, <2>3 DEF TabOK, Retained, Changed
    <3>2. t.screen[r] # rows[r] => r \in marks
      BY <1>1, <1>5, <2>1, <2>3 DEF Changed
    <3> QED BY <1>7, <2>1, <3>1, <3>2
  <2> QED BY <2>2, <2>3
<1> QED BY <1>2, <1>5, <1>6, <1>7, <1>8 DEF TabOK, SameBase

(* A screen that is wholly marked.                                           *)
LEMMA MarkedOK ==
    ASSUME NEW t, TabOK(t), NEW h \in Heights, NEW rows \in [1..h -> Row],
           NEW head \in FrameHead
    PROVE  SameBase(t, [t EXCEPT !.screen = rows, !.head = head, !.dirty = 1..h])
<1> DEFINE u == [t EXCEPT !.screen = rows, !.head = head, !.dirty = 1..h]
<1>1. t \in TabType /\ (t.controller = None => t.base = <<>>)
  BY DEF TabOK
<1>2. rows \in Screens /\ DOMAIN rows = 1..h
  BY ScreenIsOne DEF Screen
<1>3. h \in Nat
  BY FramesAssumption
<1>4. 1..h \in SUBSET Nat
  BY <1>3
<1>5. /\ u \in TabType /\ u.screen = rows /\ u.dirty = 1..h
      /\ u.controller = t.controller /\ u.base = t.base /\ u.baseHead = t.baseHead
  BY <1>1, <1>2, <1>4 DEF TabType
<1> HIDE DEF u
<1>6. Retained(u)
  BY <1>2, <1>5 DEF Retained, Changed
<1>7. SameBase(t, u)
  BY <1>1, <1>2, <1>5, <1>6 DEF SameBase, TabOK
<1> QED BY <1>7 DEF u

LEMMA TurnedOK ==
    ASSUME NEW t, TabOK(t), NEW heads \in SUBSET FrameHead, NEW u \in Turned(t, heads)
    PROVE  SameBase(t, u)
<1>1. Len(t.screen) \in Heights /\ DOMAIN t.screen = 1..Len(t.screen)
  BY ScreenHeight DEF TabOK, TabType
<1>2. PICK v \in [rows : [DOMAIN t.screen -> Row], head : heads] :
        u = [t EXCEPT !.screen = v.rows, !.head = v.head, !.dirty = DOMAIN t.screen]
  BY DEF Turned
<1>3. v.rows \in [DOMAIN t.screen -> Row] /\ v.head \in FrameHead
  OBVIOUS
<1> QED BY <1>1, <1>2, <1>3, MarkedOK

LEMMA StaysOK ==
    ASSUME NEW t, TabOK(t) PROVE SameBase(t, t)
BY DEF SameBase

LEMMA UnscrolledOK ==
    ASSUME NEW t, TabOK(t), NEW u \in Unscrolled(t)
    PROVE  SameBase(t, u)
BY TurnedOK, StaysOK DEF Unscrolled

LEMMA LaidOK ==
    ASSUME NEW t, TabOK(t), NEW h \in Heights, NEW u \in Laid(t, h)
    PROVE  SameBase(t, u) /\ (Len(t.screen) = h => u = t)
<1>1. CASE Len(t.screen) = h
  BY <1>1, StaysOK DEF Laid
<1>2. CASE Len(t.screen) # h
  <2> DEFINE heads == IF t.head \in Scrolled THEN FrameHead ELSE FrameHead \ Scrolled
  <2>1. PICK v \in [rows : [1..h -> Row], head : heads] :
          u = [t EXCEPT !.screen = v.rows, !.head = v.head, !.dirty = 1..h]
    BY <1>2 DEF Laid
  <2>2. v.rows \in [1..h -> Row] /\ v.head \in FrameHead
    BY FramesAssumption
  <2> QED BY <1>2, <2>1, <2>2, MarkedOK
<1> QED BY <1>1, <1>2

(* The flags that a handler sets.                                            *)
LEMMA FlagsOK ==
    ASSUME NEW t, TabOK(t), NEW gate \in {"open", "held", "expired"}
    PROVE  /\ SameBase(t, [t EXCEPT !.gate = gate])
           /\ SameBase(t, [t EXCEPT !.gate = gate, !.pending = TRUE])
           /\ SameBase(t, [t EXCEPT !.reply = TRUE])
BY DEF SameBase, TabOK, TabType, Retained

LEMMA SameBaseSound ==
    ASSUME NEW t, NEW ps, Sound(t, ps), NEW u, SameBase(t, u)
    PROVE  Sound(u, ps)
BY SameBaseline DEF SameBase

LEMMA SameBaseAgain ==
    ASSUME NEW t, NEW u, SameBase(t, u), NEW v, SameBase(u, v)
    PROVE  SameBase(t, v) /\ TabOK(v)
BY DEF SameBase

-----------------------------------------------------------------------------
(* The actions. *)

AllSound(os) ==
    \A o \in os : Sound(o.tab, o.peers) /\ DOMAIN o.peers \subseteq DOMAIN peers

AllOwing(os) == \A o \in os : Owing(o.tab, o.peers)

(* A step to an outcome that is sound.                                       *)
LEMMA ReachingOK ==
    ASSUME FramesInv, NEW os, AllSound(os), Reaching(os)
    PROVE  FramesInv' /\ (AllOwing(os) => Owed')
<1>1. PICK o \in os : /\ tab' = o.tab
                      /\ peers' = o.peers
                      /\ views' = [c \in DOMAIN o.peers |-> views[c]]
  BY DEF Reaching
<1>2. Sound(o.tab, o.peers) /\ (AllOwing(os) => Owing(o.tab, o.peers))
  BY DEF AllSound, AllOwing
<1>3. DOMAIN views' = DOMAIN peers' /\ \A c \in DOMAIN peers' : views'[c] = views[c]
  BY <1>1
<1>4. /\ TabOK(tab') /\ tab'.controller \in DOMAIN peers' \cup {None}
      /\ \A c \in DOMAIN peers' : PeerOK(peers'[c])
      /\ Synced(o.tab, o.peers)
  BY <1>1, <1>2 DEF Sound, PeersOK
<1>5. PeersOK(peers)'
  BY <1>3, <1>4 DEF PeersOK
<1>6. Synced(tab, peers)'
  BY <1>1, <1>3, <1>4 DEF Synced
<1>7. FramesInv'
  BY <1>3, <1>4, <1>5, <1>6 DEF FramesInv, Sound
<1>8. Owing(tab', peers') => Owed'
  BY DEF Owing, Owed
<1> QED BY <1>1, <1>2, <1>7, <1>8

(* What every step keeps, except that two need not owe a frame.              *)
Kept == FramesInv' /\ (Owed => Owed')

LEMMA OwedIsOwing ==
    Owed = Owing(tab, peers)
BY DEF Owed, Owing

LEMMA ConnectKeeps ==
    ASSUME FramesInv, NEW c \in Client, Connect(c)
    PROVE  Kept
<1> DEFINE new == [resync |-> FALSE, queue |-> <<>>]
<1>1. /\ TabOK(tab) /\ PeersOK(peers) /\ tab.controller \in DOMAIN peers \cup {None}
      /\ Synced(tab, peers) /\ DOMAIN views = DOMAIN peers
  BY DEF FramesInv, Sound
<1>2. /\ tab' = tab /\ c \notin DOMAIN peers
      /\ DOMAIN peers' = DOMAIN peers \cup {c} /\ DOMAIN views' = DOMAIN peers'
      /\ peers'[c] = new
      /\ \A d \in DOMAIN peers : peers'[d] = peers[d] /\ views'[d] = views[d]
  BY <1>1 DEF Connect
<1>3. IsSeq(<<>>)
  BY DEF IsSeq
<1>4. PeerOK(new)
  BY <1>3 DEF PeerOK
<1> HIDE DEF new
<1>5. PeersOK(peers)'
  BY <1>1, <1>2, <1>4 DEF PeersOK
<1>6. Synced(tab, peers)'
  BY <1>1, <1>2 DEF Synced
<1>7. TabOK(tab') /\ tab'.controller \in DOMAIN peers' \cup {None}
  BY <1>1, <1>2
<1>8. Owed => Owed'
  BY <1>1, <1>2 DEF Owed
<1> QED BY <1>2, <1>5, <1>6, <1>7, <1>8 DEF Kept, FramesInv, Sound

LEMMA DisconnectKeeps ==
    ASSUME FramesInv, NEW c \in Client, Disconnect(c)
    PROVE  Kept
<1> DEFINE o == Drop(tab, peers, c)
<1>1. Sound(tab, peers) /\ TabOK(tab) /\ PeersOK(peers)
      /\ tab.controller \in DOMAIN peers \cup {None}
  BY DEF FramesInv, Sound
<1>2. /\ Sound(o.tab, o.peers) /\ DOMAIN o.peers = DOMAIN peers \ {c}
      /\ tab.controller = c => o.tab.controller = None
      /\ tab.controller # c =>
           o.tab = tab /\ \A d \in DOMAIN peers \ {c} : o.peers[d] = peers[d]
  BY <1>1, DropOK
<1>3. Owed => Owing(o.tab, o.peers)
  BY <1>1, <1>2 DEF Owed, Owing
<1> HIDE DEF o
<1>4. AllSound({o}) /\ (Owed => AllOwing({o})) /\ Reaching({o})
  BY <1>2, <1>3 DEF AllSound, AllOwing, Disconnect, Finishing, o
<1> QED BY <1>4, ReachingOK DEF Kept

LEMMA AnswerKeeps ==
    ASSUME FramesInv, NEW c \in Client, Answer(c)
    PROVE  Kept
<1>1. Sound(tab, peers) /\ c \in DOMAIN peers /\ Reaching(Queue(tab, peers, c))
  BY DEF FramesInv, Answer, Finishing
<1>2. AllSound(Queue(tab, peers, c)) /\ (Owed => AllOwing(Queue(tab, peers, c)))
  BY <1>1, QueueOK, OwedIsOwing DEF AllSound, AllOwing
<1> QED BY <1>1, <1>2, ReachingOK DEF Kept

LEMMA SendCatalogKeeps ==
    ASSUME FramesInv, NEW c \in Client, SendCatalog(c)
    PROVE  Kept
<1> DEFINE then(s) == IF c \in DOMAIN s.peers THEN Queue(s.tab, s.peers, c) ELSE {s}
           os == UNION {then(s) : s \in SendPending(tab, peers)}
<1>1. Sound(tab, peers) /\ Reaching(os)
  BY DEF FramesInv, SendCatalog, Finishing
<1>2. ASSUME NEW o \in os
      PROVE  /\ Sound(o.tab, o.peers) /\ DOMAIN o.peers \subseteq DOMAIN peers
             /\ Owed => Owing(o.tab, o.peers)
  <2>1. PICK s \in SendPending(tab, peers) : o \in then(s)
    OBVIOUS
  <2>2. /\ Sound(s.tab, s.peers) /\ DOMAIN s.peers \subseteq DOMAIN peers
        /\ Owed => Owing(s.tab, s.peers)
    BY <1>1, <2>1, SendPendingOK, OwedIsOwing
  <2>3. CASE c \in DOMAIN s.peers
    BY <2>1, <2>2, <2>3, QueueOK
  <2>4. CASE c \notin DOMAIN s.peers
    BY <2>1, <2>2, <2>4
  <2> QED BY <2>3, <2>4
<1> HIDE DEF os
<1>3. AllSound(os) /\ (Owed => AllOwing(os))
  BY <1>2 DEF AllSound, AllOwing
<1> QED BY <1>1, <1>3, ReachingOK DEF Kept

LEMMA MaintainKeeps ==
    ASSUME FramesInv, NEW due \in BOOLEAN, Maintain(due)
    PROVE  Kept
<1> DEFINE first == IF due THEN SendPending(tab, peers) ELSE {Outcome(tab, peers)}
           os == UNION {Resync(s.tab, s.peers) : s \in first}
<1>1. Sound(tab, peers) /\ Reaching(os)
  BY DEF FramesInv, Maintain
<1>2. ASSUME NEW o \in os
      PROVE  /\ Sound(o.tab, o.peers) /\ DOMAIN o.peers \subseteq DOMAIN peers
             /\ Owed => Owing(o.tab, o.peers)
  <2>1. PICK s \in first : o \in Resync(s.tab, s.peers)
    OBVIOUS
  <2>2. /\ Sound(s.tab, s.peers) /\ DOMAIN s.peers \subseteq DOMAIN peers
        /\ Owed => Owing(s.tab, s.peers)
    <3>1. CASE due
      BY <1>1, <2>1, <3>1, SendPendingOK, OwedIsOwing
    <3>2. CASE ~due
      <4>1. s.tab = tab /\ s.peers = peers
        BY <2>1, <3>2 DEF Outcome
      <4> QED BY <1>1, <4>1, OwedIsOwing
    <3> QED BY <3>1, <3>2
  <2> QED BY <2>1, <2>2, ResyncOK
<1> HIDE DEF os
<1>3. AllSound(os) /\ (Owed => AllOwing(os))
  BY <1>2 DEF AllSound, AllOwing
<1> QED BY <1>1, <1>3, ReachingOK DEF Kept

LEMMA PublishKeeps ==
    ASSUME FramesInv, Publish
    PROVE  Kept
<1> DEFINE told == UNION {QueueAll(s.tab, s.peers) : s \in SendPending(tab, peers)}
           os == UNION {Resync(o.tab, o.peers) : o \in told}
<1>1. Sound(tab, peers) /\ Reaching(os)
  BY DEF FramesInv, Publish, Finishing
<1>2. ASSUME NEW o \in told
      PROVE  /\ Sound(o.tab, o.peers) /\ DOMAIN o.peers \subseteq DOMAIN peers
             /\ Owed => Owing(o.tab, o.peers)
  <2>1. PICK s \in SendPending(tab, peers) : o \in QueueAll(s.tab, s.peers)
    OBVIOUS
  <2>2. /\ Sound(s.tab, s.peers) /\ DOMAIN s.peers \subseteq DOMAIN peers
        /\ Owed => Owing(s.tab, s.peers)
    BY <1>1, <2>1, SendPendingOK, OwedIsOwing
  <2> QED BY <2>1, <2>2, QueueAllOK
<1> HIDE DEF told
<1>3. ASSUME NEW o \in os
      PROVE  /\ Sound(o.tab, o.peers) /\ DOMAIN o.peers \subseteq DOMAIN peers
             /\ Owed => Owing(o.tab, o.peers)
  <2>1. PICK s \in told : o \in Resync(s.tab, s.peers)
    OBVIOUS
  <2> QED BY <1>2, <2>1, ResyncOK
<1> HIDE DEF os
<1>4. AllSound(os) /\ (Owed => AllOwing(os))
  BY <1>3 DEF AllSound, AllOwing
<1> QED BY <1>1, <1>4, ReachingOK DEF Kept

(* A peer whose window read an entry.                                       *)
LEMMA ReadPeer ==
    ASSUME NEW p, PeerOK(p), p.queue # <<>>
    PROVE  LET r == [p EXCEPT !.queue = Tail(@)] IN
           PeerOK(r) /\ r.resync = p.resync /\ r.queue = Tail(p.queue)
<1> DEFINE r == [p EXCEPT !.queue = Tail(@)]
<1>1. r = [resync |-> p.resync, queue |-> Tail(p.queue)]
  BY DEF PeerOK
<1>2. p.resync \in BOOLEAN /\ IsSeq(Tail(p.queue))
  BY TailIsSeq DEF PeerOK
<1> HIDE DEF r
<1> QED BY <1>1, <1>2 DEF PeerOK, r

(* A frame sent from a tab that shares the baseline of a sound one.          *)
LEMMA SendFromOK ==
    ASSUME FramesInv, NEW t, NEW ps, Sound(t, ps), DOMAIN ps \subseteq DOMAIN peers,
           NEW u, SameBase(t, u), NEW full \in BOOLEAN
    PROVE  AllSound(SendFrame(u, ps, full)) /\ AllOwing(SendFrame(u, ps, full))
<1>1. Sound(u, ps)
  BY SameBaseSound
<1> QED BY <1>1, SendFrameOK DEF AllSound, AllOwing

LEMMA TerminalReadyKeeps ==
    ASSUME FramesInv, TerminalReady
    PROVE  Kept
<1>1. Sound(tab, peers) /\ TabOK(tab)
  BY DEF FramesInv, Sound
<1>2. PICK t \in Drawn(tab), g \in Gates(tab.gate), input \in BOOLEAN :
        LET fed == [t EXCEPT !.gate = g, !.pending = TRUE] IN
        Reaching(IF input \/ (fed.controller # None /\ fed.base = <<>>)
                 THEN SendFrame(fed, peers, FALSE) ELSE {Outcome(fed, peers)})
  BY DEF TerminalReady, Finishing
<1> DEFINE fed == [t EXCEPT !.gate = g, !.pending = TRUE]
           os == IF input \/ (fed.controller # None /\ fed.base = <<>>)
                 THEN SendFrame(fed, peers, FALSE) ELSE {Outcome(fed, peers)}
<1>3. g \in {"open", "held", "expired"}
  BY DEF Gates
<1>4. SameBase(tab, t)
  BY <1>1, DrawnOK
<1>5. SameBase(t, fed)
  BY <1>3, <1>4, FlagsOK DEF SameBase
<1>6. fed.pending
  <2>1. t \in TabType
    BY <1>4 DEF SameBase, TabOK
  <2> QED BY <2>1 DEF TabType
<1>7. Reaching(os)
  BY <1>2
<1> HIDE DEF fed
<1>8. SameBase(tab, fed)
  BY <1>4, <1>5, SameBaseAgain
<1>9. AllSound(os) /\ AllOwing(os)
  <2>1. AllSound(SendFrame(fed, peers, FALSE)) /\ AllOwing(SendFrame(fed, peers, FALSE))
    BY <1>1, <1>8, SendFromOK
  <2>2. Sound(fed, peers) /\ Owing(fed, peers)
    BY <1>1, <1>6, <1>8, SameBaseSound DEF Owing
  <2>3. AllSound({Outcome(fed, peers)}) /\ AllOwing({Outcome(fed, peers)})
    BY <2>2 DEF AllSound, AllOwing, Outcome
  <2> QED BY <2>1, <2>3
<1> HIDE DEF os
<1> QED BY <1>7, <1>9, ReachingOK DEF Kept

LEMMA ExpireKeeps ==
    ASSUME FramesInv, Expire
    PROVE  Kept
<1> DEFINE u == [tab EXCEPT !.gate = "expired"]
<1>1. Sound(tab, peers) /\ TabOK(tab)
  BY DEF FramesInv, Sound
<1>2. SameBase(tab, u)
  BY <1>1, FlagsOK
<1>3. u.screen = tab.screen /\ u.head = tab.head /\ u.pending = tab.pending
  BY <1>1 DEF TabOK, TabType
<1>4. tab' = u /\ peers' = peers /\ views' = views
  BY DEF Expire
<1> HIDE DEF u
<1>5. Sound(u, peers)
  BY <1>1, <1>2, SameBaseSound
<1>6. FramesInv'
  BY <1>4, <1>5 DEF FramesInv, Sound, TabOK, PeersOK, Synced
<1>7. Owed => Owed'
  BY <1>2, <1>3, <1>4 DEF Owed, SameBase
<1> QED BY <1>6, <1>7 DEF Kept

LEMMA FocusKeeps ==
    ASSUME FramesInv, NEW c \in Client, NEW h \in Heights, Focus(c, h)
    PROVE  Kept
<1>1. Sound(tab, peers) /\ c \in DOMAIN peers
  BY DEF FramesInv, Focus
<1>2. PICK o \in TakeControl(tab, peers, c) : \E t \in Laid(o.tab, h) :
        Reaching(IF tab.controller # c \/ Len(tab.screen) # h
                 THEN SendFrame(t, o.peers, TRUE) ELSE {Outcome(t, o.peers)})
  BY DEF Focus, Finishing
<1>3. PICK t \in Laid(o.tab, h) :
        Reaching(IF tab.controller # c \/ Len(tab.screen) # h
                 THEN SendFrame(t, o.peers, TRUE) ELSE {Outcome(t, o.peers)})
  BY <1>2
<1>4. /\ Sound(o.tab, o.peers) /\ DOMAIN o.peers \subseteq DOMAIN peers
      /\ tab.controller = c => o.tab = tab /\ o.peers = peers
  BY <1>1, TakeControlOK
<1>5. SameBase(o.tab, t) /\ (Len(o.tab.screen) = h => t = o.tab)
  BY <1>4, LaidOK DEF Sound
<1>6. CASE tab.controller # c \/ Len(tab.screen) # h
  <2>1. AllSound(SendFrame(t, o.peers, TRUE)) /\ AllOwing(SendFrame(t, o.peers, TRUE))
    BY <1>4, <1>5, SendFromOK
  <2>2. Reaching(SendFrame(t, o.peers, TRUE))
    BY <1>3, <1>6
  <2> QED BY <2>1, <2>2, ReachingOK DEF Kept
<1>7. CASE tab.controller = c /\ Len(tab.screen) = h
  <2>1. t = tab /\ o.peers = peers /\ Reaching({Outcome(tab, peers)})
    BY <1>3, <1>4, <1>5, <1>7
  <2>2. AllSound({Outcome(tab, peers)}) /\ (Owed => AllOwing({Outcome(tab, peers)}))
    BY <1>1, OwedIsOwing DEF AllSound, AllOwing, Outcome
  <2> QED BY <2>1, <2>2, ReachingOK DEF Kept
<1> QED BY <1>6, <1>7

LEMMA InputKeeps ==
    ASSUME FramesInv, NEW c \in Client, Input(c)
    PROVE  Kept
<1>1. Sound(tab, peers) /\ c \in DOMAIN peers
  BY DEF FramesInv, Input
<1>2. PICK o \in TakeControl(tab, peers, c) : \E u \in Unscrolled(o.tab) :
        \E t \in Drawn(u) : Reaching(SendFrame(t, o.peers, FALSE))
  BY DEF Input, Finishing
<1>3. PICK u \in Unscrolled(o.tab) :
        \E t \in Drawn(u) : Reaching(SendFrame(t, o.peers, FALSE))
  BY <1>2
<1>4. PICK t \in Drawn(u) : Reaching(SendFrame(t, o.peers, FALSE))
  BY <1>3
<1>5. Sound(o.tab, o.peers) /\ DOMAIN o.peers \subseteq DOMAIN peers
  BY <1>1, TakeControlOK
<1>6. SameBase(o.tab, u)
  BY <1>5, UnscrolledOK DEF Sound
<1>7. SameBase(u, t)
  BY <1>6, DrawnOK DEF SameBase
<1>8. SameBase(o.tab, t)
  BY <1>6, <1>7, SameBaseAgain
<1>9. AllSound(SendFrame(t, o.peers, FALSE)) /\ AllOwing(SendFrame(t, o.peers, FALSE))
  BY <1>5, <1>8, SendFromOK
<1> QED BY <1>4, <1>9, ReachingOK DEF Kept

LEMMA ScrollKeeps ==
    ASSUME FramesInv, NEW c \in Client, Scroll(c)
    PROVE  Kept
<1>1. Sound(tab, peers) /\ c \in DOMAIN peers
  BY DEF FramesInv, Scroll
<1>2. PICK o \in TakeControl(tab, peers, c) :
        \E t \in {o.tab} \cup Turned(o.tab, Scrolled)
                 \cup (IF tab.head \in Scrolled THEN Turned(o.tab, FrameHead) ELSE {}) :
            Reaching(SendFrame([t EXCEPT !.reply = TRUE], o.peers, FALSE))
  BY DEF Scroll, Finishing
<1>3. PICK t \in {o.tab} \cup Turned(o.tab, Scrolled)
                 \cup (IF tab.head \in Scrolled THEN Turned(o.tab, FrameHead) ELSE {}) :
            Reaching(SendFrame([t EXCEPT !.reply = TRUE], o.peers, FALSE))
  BY <1>2
<1>4. Sound(o.tab, o.peers) /\ DOMAIN o.peers \subseteq DOMAIN peers
  BY <1>1, TakeControlOK
<1>5. SameBase(o.tab, t)
  <2>1. TabOK(o.tab) /\ Scrolled \in SUBSET FrameHead /\ FrameHead \in SUBSET FrameHead
    BY <1>4, FramesAssumption DEF Sound
  <2>2. t = o.tab \/ t \in Turned(o.tab, Scrolled) \/ t \in Turned(o.tab, FrameHead)
    OBVIOUS
  <2> QED BY <2>1, <2>2, TurnedOK, StaysOK
<1> DEFINE u == [t EXCEPT !.reply = TRUE]
<1>6. SameBase(t, u)
  BY <1>5, FlagsOK DEF SameBase
<1> HIDE DEF u
<1>7. SameBase(o.tab, u)
  BY <1>5, <1>6, SameBaseAgain
<1>8. AllSound(SendFrame(u, o.peers, FALSE)) /\ AllOwing(SendFrame(u, o.peers, FALSE))
  BY <1>4, <1>7, SendFromOK
<1>9. Reaching(SendFrame(u, o.peers, FALSE))
  BY <1>3 DEF u
<1> QED BY <1>8, <1>9, ReachingOK DEF Kept

(* These two keep the baseline right, but need not owe a frame.              *)
LEMMA ControlKeeps ==
    ASSUME FramesInv, NEW c \in Client, Control(c)
    PROVE  FramesInv'
<1>1. Sound(tab, peers) /\ c \in DOMAIN peers /\ Reaching(TakeControl(tab, peers, c))
  BY DEF FramesInv, Control, Finishing
<1>2. AllSound(TakeControl(tab, peers, c))
  BY <1>1, TakeControlOK DEF AllSound
<1> QED BY <1>1, <1>2, ReachingOK

LEMMA FocusStateKeeps ==
    ASSUME FramesInv, NEW c \in Client, FocusState(c)
    PROVE  FramesInv'
<1> DEFINE os == {Outcome(t, peers) : t \in Unscrolled(tab)}
<1>1. Sound(tab, peers) /\ TabOK(tab) /\ Reaching(os)
  BY DEF FramesInv, Sound, FocusState, Finishing
<1>2. ASSUME NEW o \in os
      PROVE  Sound(o.tab, o.peers) /\ o.peers = peers
  <2>1. PICK t \in Unscrolled(tab) : o = Outcome(t, peers)
    OBVIOUS
  <2>2. Sound(t, peers)
    BY <1>1, <2>1, UnscrolledOK, SameBaseSound
  <2> QED BY <2>1, <2>2 DEF Outcome
<1> HIDE DEF os
<1>3. AllSound(os)
  BY <1>2 DEF AllSound
<1> QED BY <1>1, <1>3, ReachingOK

LEMMA ReleaseTabKeeps ==
    ASSUME FramesInv, NEW c \in Client, ReleaseTab(c)
    PROVE  Kept
<1>1. Sound(tab, peers) /\ TabOK(tab) /\ PeersOK(peers) /\ Reaching({Outcome(Release(tab), peers)})
  BY DEF FramesInv, Sound, ReleaseTab, Finishing
<1>2. /\ TabOK(Release(tab)) /\ Release(tab).controller = None /\ Release(tab).base = <<>>
  BY <1>1, ReleaseOK
<1>3. Sound(Release(tab), peers) /\ Owing(Release(tab), peers)
  BY <1>1, <1>2, NoBaseline DEF Owing
<1>4. /\ AllSound({Outcome(Release(tab), peers)})
      /\ AllOwing({Outcome(Release(tab), peers)})
  BY <1>3 DEF AllSound, AllOwing, Outcome
<1> QED BY <1>1, <1>4, ReachingOK DEF Kept

(* A window that reads the head of its queue still comes to the baseline.    *)
LEMMA ImportKeeps ==
    ASSUME FramesInv, NEW c \in Client, Import(c)
    PROVE  Kept
<1> DEFINE q == peers[c].queue
           r == [peers[c] EXCEPT !.queue = Tail(@)]
<1>1. /\ TabOK(tab) /\ PeersOK(peers) /\ tab.controller \in DOMAIN peers \cup {None}
      /\ Synced(tab, peers) /\ DOMAIN views = DOMAIN peers
  BY DEF FramesInv, Sound
<1>2. /\ c \in DOMAIN peers /\ q # <<>> /\ tab' = tab
      /\ DOMAIN peers' = DOMAIN peers /\ DOMAIN views' = DOMAIN views
      /\ peers'[c] = r /\ views'[c] = Imported(views[c], Head(q))
      /\ \A d \in DOMAIN peers \ {c} : peers'[d] = peers[d] /\ views'[d] = views[d]
  BY <1>1 DEF Import
<1>3. PeerOK(peers[c])
  BY <1>1, <1>2 DEF PeersOK
<1>4. PeerOK(r) /\ r.resync = peers[c].resync /\ r.queue = Tail(q)
  BY <1>2, <1>3, ReadPeer
<1>5. Reading(views'[c], r.queue) = Reading(views[c], q)
  BY <1>2, <1>3, <1>4, ReadFirst DEF PeerOK
<1> HIDE DEF q, r
<1>6. PeersOK(peers)'
  BY <1>1, <1>2, <1>4 DEF PeersOK
<1>7. Synced(tab, peers)'
  BY <1>1, <1>2, <1>4, <1>5 DEF Synced, q
<1>8. Owed => Owed'
  BY <1>1, <1>2, <1>4 DEF Owed
<1>9. TabOK(tab') /\ tab'.controller \in DOMAIN peers' \cup {None}
  BY <1>1, <1>2
<1> QED BY <1>1, <1>2, <1>6, <1>7, <1>8, <1>9 DEF Kept, FramesInv, Sound

LEMMA FramesInit ==
    ASSUME Init PROVE FramesInv
<1>1. PICK h \in Heights :
        tab = [screen |-> [r \in 1..h |-> Blank], head |-> Fresh.head, dirty |-> 1..h,
               gate |-> "open", base |-> <<>>, baseHead |-> Fresh.head,
               controller |-> None, pending |-> FALSE, reply |-> FALSE]
  BY DEF Init
<1>2. [r \in 1..h |-> Blank] \in Screen(h)
  BY FramesAssumption DEF Screen
<1>3. [r \in 1..h |-> Blank] \in Screens /\ h \in Nat
  BY <1>2, ScreenIsOne, FramesAssumption
<1>4. 1..h \in SUBSET Nat
  BY <1>3
<1>5. /\ tab \in TabType /\ tab.dirty = DOMAIN tab.screen
      /\ tab.controller = None /\ tab.base = <<>>
  BY <1>1, <1>3, <1>4, FreshIsHead DEF TabType
<1>6. TabOK(tab)
  BY <1>5 DEF TabOK, Retained
<1>7. DOMAIN peers = {} /\ DOMAIN views = {}
  BY DEF Init
<1>8. PeersOK(peers)
  BY <1>7 DEF PeersOK
<1>9. Sound(tab, peers)
  BY <1>5, <1>6, <1>8, NoBaseline
<1> QED BY <1>7, <1>9 DEF FramesInv

(* One step, whichever it is.                                                *)
LEMMA FramesStep ==
    ASSUME FramesInv, [Next]_vars
    PROVE  /\ FramesInv'
           /\ Owed => (Owed' \/ \E c \in Client : Control(c) \/ FocusState(c))
<1>1. CASE TerminalReady BY <1>1, TerminalReadyKeeps DEF Kept
<1>2. CASE Expire BY <1>2, ExpireKeeps DEF Kept
<1>3. CASE Publish BY <1>3, PublishKeeps DEF Kept
<1>4. CASE \E due \in BOOLEAN : Maintain(due)
  BY <1>4, MaintainKeeps DEF Kept
<1>5. ASSUME NEW c \in Client, Connect(c) \/ Disconnect(c) \/ Answer(c) \/ SendCatalog(c)
      PROVE  Kept
  BY <1>5, ConnectKeeps, DisconnectKeeps, AnswerKeeps, SendCatalogKeeps
<1>6. ASSUME NEW c \in Client,
             Import(c) \/ Input(c) \/ Scroll(c) \/ ReleaseTab(c)
             \/ \E h \in Heights : Focus(c, h)
      PROVE  Kept
  BY <1>6, ImportKeeps, InputKeeps, ScrollKeeps, ReleaseTabKeeps, FocusKeeps
<1>7. ASSUME NEW c \in Client, Control(c) \/ FocusState(c) PROVE FramesInv'
  BY <1>7, ControlKeeps, FocusStateKeeps
<1>8. CASE UNCHANGED vars
  BY <1>8 DEF vars, FramesInv, Sound, TabOK, PeersOK, Synced, Owed
<1> QED BY <1>1, <1>2, <1>3, <1>4, <1>5, <1>6, <1>7, <1>8 DEF Next, Kept

-----------------------------------------------------------------------------
(* The theorems. *)

THEOREM FramesInductive == Spec => []FramesInv
<1>1. Init => FramesInv BY FramesInit
<1>2. FramesInv /\ [Next]_vars => FramesInv' BY FramesStep
<1> QED BY <1>1, <1>2, PTL DEF Spec

(* What the controlling window will show once it has read its queue is the   *)
(* baseline of the next delta, always.                                       *)
THEOREM BaselineStaysQueued == Spec => []BaselineIsQueued
<1>1. FramesInv => BaselineIsQueued
  BY DEF FramesInv, Sound, Synced, BaselineIsQueued
<1> QED BY <1>1, FramesInductive, PTL

(* No frame that is deferred or dropped takes the damage with it.            *)
THEOREM DamageStaysRetained == Spec => []DamageIsRetained
<1>1. FramesInv => DamageIsRetained
  BY DEF FramesInv, Sound, TabOK, Retained, DamageIsRetained
<1> QED BY <1>1, FramesInductive, PTL

(* No handler but CONTROL and FOCUS_STATE leaves a window that was up to      *)
(* date, or owed a frame, out of date with nothing owed.                     *)
THEOREM FrameStaysOwed == Spec => FrameIsOwed
<1> DEFINE Step == Owed => (Owed' \/ \E c \in Client : Control(c) \/ FocusState(c))
<1>1. FramesInv /\ [Next]_vars => [Step]_vars
  BY FramesStep
<1> HIDE DEF Step
<1>2. Spec => [][Step]_vars
  BY <1>1, FramesInductive, PTL DEF Spec
<1> QED BY <1>2 DEF Step, FrameIsOwed
=============================================================================
