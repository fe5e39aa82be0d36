---------------------------- MODULE ServiceProofs ----------------------------
(***************************************************************************)
(* The safety of the workspace service for any number of clients and tabs. *)
(* The invariant is carried through the handlers in four parts that every  *)
(* shared step (Deliver, Publish, DropClient) preserves: well-formed tabs, *)
(* typed clients, owners that are ready clients, live replacements.        *)
(***************************************************************************)
EXTENDS Service, FiniteSetTheorems, SequenceTheorems, WellFoundedInduction, TLAPS

-----------------------------------------------------------------------------
(* Sequences. *)

(* A function on an initial segment of the naturals is a sequence. *)
LEMMA SequenceOf ==
  ASSUME NEW S, NEW n \in Nat, NEW f \in [1..n -> S]
  PROVE  f \in Seq(S) /\ Len(f) = n /\ DOMAIN f = 1..n
  OBVIOUS

(* A sequence is a function on an initial segment of the naturals. *)
LEMMA SequenceDomain ==
  ASSUME NEW S, NEW s \in Seq(S)
  PROVE  /\ Len(s) \in Nat
         /\ DOMAIN s = 1..Len(s)
         /\ s \in [1..Len(s) -> S]
         /\ \A i \in DOMAIN s : s[i] \in S
  OBVIOUS

(* A set of positions that is not empty has a last one. *)
LEMMA LastExists ==
  ASSUME NEW n \in Nat, NEW S, S \subseteq 1..n, S # {}
  PROVE  \E i \in S : \A j \in S : j <= i
<1> DEFINE less == OpToRel(<, Nat)
           T == {n - i : i \in S}
<1>1. IsWellFoundedOn(less, Nat)
  BY NatLessThanWellFounded
<1>2. \A x, y \in Nat : x < y => <<x, y>> \in less
  BY DEF OpToRel
<1>3. T \subseteq Nat /\ T # {}
  <2>1. \A i \in S : i \in 1..n /\ n - i \in Nat
    OBVIOUS
  <2> QED BY <2>1
<1> HIDE DEF less
<1>4. \E x \in T : \A y \in T : ~(<<y, x>> \in less)
  BY <1>1, <1>3, WFMin
<1>5. PICK i \in S : \A j \in S : ~(<<n - j, n - i>> \in less)
  BY <1>4
<1>6. \A j \in S : n - j \in Nat /\ j \in Nat
  OBVIOUS
<1>7. \A j \in S : ~(n - j < n - i)
  BY <1>2, <1>5, <1>6
<1> QED BY <1>5, <1>6, <1>7

(* What is left when one tab is removed (Vec::remove in Service::close). *)
LEMMA Removed ==
  ASSUME NEW S, NEW s \in Seq(S), NEW i \in 1..Len(s)
  PROVE  /\ RemoveAt(s, i) \in Seq(S)
         /\ Len(RemoveAt(s, i)) = Len(s) - 1
         /\ \A j \in 1..(Len(s) - 1) :
              RemoveAt(s, i)[j] = IF j < i THEN s[j] ELSE s[j + 1]
<1> DEFINE front == SubSeq(s, 1, i - 1)
           back == SubSeq(s, i + 1, Len(s))
<1>1. /\ front \in Seq(S)
      /\ Len(front) = i - 1
      /\ \A j \in 1..(i - 1) : front[j] = s[j]
  <2>1. \A j \in 1..(i - 1) : s[j] \in S
    OBVIOUS
  <2>2. /\ SubSeq(s, 1, i - 1) \in Seq(S)
        /\ Len(SubSeq(s, 1, i - 1)) = IF 1 <= i - 1 THEN (i - 1) - 1 + 1 ELSE 0
        /\ \A j \in 1..((i - 1) - 1 + 1) : SubSeq(s, 1, i - 1)[j] = s[1 + j - 1]
    BY <2>1, SubSeqProperties
  <2> QED BY <2>2
<1>2. /\ back \in Seq(S)
      /\ Len(back) = Len(s) - i
      /\ \A j \in 1..(Len(s) - i) : back[j] = s[i + j]
  <2>1. \A j \in (i + 1)..Len(s) : s[j] \in S
    OBVIOUS
  <2>2. /\ SubSeq(s, i + 1, Len(s)) \in Seq(S)
        /\ Len(SubSeq(s, i + 1, Len(s))) = IF i + 1 <= Len(s) THEN Len(s) - (i + 1) + 1 ELSE 0
        /\ \A j \in 1..(Len(s) - (i + 1) + 1) :
             SubSeq(s, i + 1, Len(s))[j] = s[(i + 1) + j - 1]
    BY <2>1, SubSeqProperties
  <2> QED BY <2>2
<1>3. RemoveAt(s, i) = front \o back
  BY DEF RemoveAt
<1> HIDE DEF front, back
<1>4. /\ front \o back \in Seq(S)
      /\ Len(front \o back) = Len(front) + Len(back)
      /\ \A j \in 1..(Len(front) + Len(back)) :
           (front \o back)[j] = IF j <= Len(front) THEN front[j] ELSE back[j - Len(front)]
  BY <1>1, <1>2, ConcatProperties
<1> QED BY <1>1, <1>2, <1>3, <1>4

-----------------------------------------------------------------------------
(* One tab. *)

TabOK(t) ==
  /\ t \in Tab
  /\ IsTerminal(t) <=> t.url = Blank
  /\ ~IsTerminal(t) => t.controller = NoClient /\ t.printer = NoClient
  /\ ~t.dirty /\ ~t.gated => t.entry = {EntryOf(t)}

(* drop_client leaves a sound tab that no longer refers to the client. *)
LEMMA ForgetOK ==
  ASSUME NEW t, TabOK(t), NEW gone
  PROVE  /\ TabOK(Forget(t, gone))
         /\ Forget(t, gone).id = t.id
         /\ Forget(t, gone).controller \in ({t.controller} \ gone) \cup {NoClient}
         /\ Forget(t, gone).printer \in ({t.printer} \ gone) \cup {NoClient}
  BY DEF TabOK, Tab, Forget, IsTerminal, EntryOf, NoClient

(* Tab::metadata leaves a sound tab with the same owners. *)
LEMMA MetadataOK ==
  ASSUME NEW t, TabOK(t)
  PROVE  /\ TabOK(Metadata(t))
         /\ Metadata(t).id = t.id
         /\ Metadata(t).controller = t.controller
         /\ Metadata(t).printer = t.printer
  BY DEF TabOK, Tab, Metadata, IsTerminal, EntryOf, NoClient, Cached, Entry

-----------------------------------------------------------------------------
(* The four parts. *)

WellFormed(ts, n) ==
  /\ ts \in Seq(Tab)
  /\ \A i \in DOMAIN ts : TabOK(ts[i])
  /\ \A i, j \in DOMAIN ts : i < j => ts[i].id < ts[j].id
  /\ \A i \in DOMAIN ts : ts[i].id < n

GoodPeers(ps) == DOMAIN ps \subseteq ClientId /\ ps \in [DOMAIN ps -> Peer]

Owned(ts, ps) ==
  \A i \in DOMAIN ts : /\ ts[i].controller \in Ready(ps) \cup {NoClient}
                       /\ ts[i].printer \in Ready(ps) \cup {NoClient}

GoodReplacing(rp, ps, ts) ==
  /\ rp \in [DOMAIN rp -> Replacement]
  /\ \A c \in DOMAIN rp : c \in DOMAIN ps /\ rp[c].tab \in Ids(ts)

Sound(ts, ps, rp, n) ==
  /\ WellFormed(ts, n)
  /\ GoodPeers(ps)
  /\ Owned(ts, ps)
  /\ GoodReplacing(rp, ps, ts)

(* The ids of well-formed tabs. *)
LEMMA IdsOK ==
  ASSUME NEW ts, NEW n, WellFormed(ts, n)
  PROVE  /\ \A i \in DOMAIN ts : ts[i] \in Tab /\ ts[i].id \in TabId /\ ts[i].id < n
         /\ Ids(ts) \subseteq TabId
         /\ NoTab \notin Ids(ts)
         /\ \A id \in Ids(ts) : id < n
<1>1. \A i \in DOMAIN ts : ts[i] \in Tab /\ ts[i].id < n
  BY DEF WellFormed, TabOK
<1>2. \A t \in Tab : t.id \in TabId
  BY DEF Tab
<1>3. NoTab \notin TabId
  BY DEF NoTab, TabId
<1> QED BY <1>1, <1>2, <1>3 DEF Ids

(* Changing tabs in place, ids kept, preserves their shape. *)
LEMMA InPlace ==
  ASSUME NEW ts, NEW n, WellFormed(ts, n),
         NEW us, us = [i \in DOMAIN ts |-> us[i]],
         \A i \in DOMAIN ts : TabOK(us[i]) /\ us[i].id = ts[i].id
  PROVE  /\ WellFormed(us, n)
         /\ DOMAIN us = DOMAIN ts
         /\ Ids(us) = Ids(ts)
<1>1. Len(ts) \in Nat /\ DOMAIN ts = 1..Len(ts)
  BY SequenceDomain DEF WellFormed
<1>2. us \in [1..Len(ts) -> Tab]
  BY <1>1 DEF TabOK
<1>3. us \in Seq(Tab) /\ DOMAIN us = DOMAIN ts
  BY <1>1, <1>2, SequenceOf
<1>4. Ids(us) = Ids(ts)
  BY <1>3 DEF Ids
<1> QED BY <1>3, <1>4 DEF WellFormed

(* Service::catalog refreshes every cached entry in place. *)
LEMMA CataloguedOK ==
  ASSUME NEW ts, NEW n, NEW ps, NEW rp, Sound(ts, ps, rp, n)
  PROVE  /\ Sound(Catalogued(ts), ps, rp, n)
         /\ DOMAIN Catalogued(ts) = DOMAIN ts
         /\ Ids(Catalogued(ts)) = Ids(ts)
<1> DEFINE us == Catalogued(ts)
<1>1. us = [i \in DOMAIN ts |-> us[i]] /\ DOMAIN us = DOMAIN ts
  BY DEF Catalogued
<1>2. \A i \in DOMAIN ts : us[i] = Metadata(ts[i])
  BY DEF Catalogued
<1>3. \A i \in DOMAIN ts : /\ TabOK(us[i]) /\ us[i].id = ts[i].id
                           /\ us[i].controller = ts[i].controller
                           /\ us[i].printer = ts[i].printer
  BY <1>2, MetadataOK DEF Sound, WellFormed
<1> HIDE DEF us
<1>4. WellFormed(us, n) /\ Ids(us) = Ids(ts)
  BY <1>1, <1>3, InPlace DEF Sound
<1>5. Owned(us, ps)
  BY <1>1, <1>3 DEF Sound, Owned
<1>6. GoodReplacing(rp, ps, us)
  BY <1>4 DEF Sound, GoodReplacing
<1>7. Sound(us, ps, rp, n)
  BY <1>4, <1>5, <1>6 DEF Sound
<1> QED BY <1>1, <1>4, <1>7 DEF us

(* Queueing packets and dropping the clients that overflow is sound, adds  *)
(* no client and removes no tab.                                           *)
LEMMA DeliverOK ==
  ASSUME NEW ts, NEW n, NEW ps, NEW rp, NEW must, NEW may,
         Sound(ts, ps, rp, n), Deliver(ts, ps, rp, must, may)
  PROVE  /\ Sound(tabs', peers', replacing', n)
         /\ Ids(tabs') = Ids(ts)
         /\ Ready(peers') \subseteq Ready(ps) /\ DOMAIN peers' \subseteq DOMAIN ps
<1>1. PICK told, full :
        /\ peers' = [c \in DOMAIN ps \ full |-> [ps[c] EXCEPT !.queued = @ \/ c \in told]]
        /\ tabs' = [i \in DOMAIN ts |-> Forget(ts[i], full)]
        /\ replacing' = Without(rp, full)
  BY DEF Deliver
<1>2. /\ DOMAIN peers' = DOMAIN ps \ full
      /\ \A c \in DOMAIN peers' : peers'[c] \in Peer /\ peers'[c].ready = ps[c].ready
  <2>1. DOMAIN peers' = DOMAIN ps \ full
    BY <1>1
  <2>2. ASSUME NEW c \in DOMAIN peers'
        PROVE  peers'[c] \in Peer /\ peers'[c].ready = ps[c].ready
    <3>1. peers'[c] = [ps[c] EXCEPT !.queued = @ \/ c \in told]
      BY <1>1, <2>1
    <3>2. ps[c] \in Peer
      BY <2>1 DEF Sound, GoodPeers
    <3> QED BY <3>1, <3>2 DEF Peer
  <2> QED BY <2>1, <2>2
<1>3. GoodPeers(peers')
  <2>1. peers' = [c \in DOMAIN ps \ full |-> peers'[c]]
    BY <1>1
  <2> QED BY <1>2, <2>1 DEF GoodPeers, Sound
<1>4. Ready(peers') = Ready(ps) \ full
  BY <1>2 DEF Ready
<1>5. /\ tabs' = [i \in DOMAIN ts |-> tabs'[i]]
      /\ \A i \in DOMAIN ts : tabs'[i] = Forget(ts[i], full)
  BY <1>1
<1>6. \A i \in DOMAIN ts :
        /\ TabOK(tabs'[i]) /\ tabs'[i].id = ts[i].id
        /\ tabs'[i].controller \in ({ts[i].controller} \ full) \cup {NoClient}
        /\ tabs'[i].printer \in ({ts[i].printer} \ full) \cup {NoClient}
  BY <1>5, ForgetOK DEF Sound, WellFormed
<1>7. WellFormed(tabs', n) /\ DOMAIN tabs' = DOMAIN ts /\ Ids(tabs') = Ids(ts)
  BY <1>5, <1>6, InPlace DEF Sound
<1>8. Owned(tabs', peers')
  BY <1>4, <1>6, <1>7 DEF Sound, Owned
<1>9. GoodReplacing(replacing', peers', tabs')
  BY <1>1, <1>2, <1>7 DEF Sound, GoodReplacing, Without
<1> QED BY <1>2, <1>3, <1>4, <1>7, <1>8, <1>9 DEF Sound

(* drop_client is sound. *)
LEMMA DropClientOK ==
  ASSUME NEW n, NEW c, Sound(tabs, peers, replacing, n), DropClient(c)
  PROVE  /\ Sound(tabs', peers', replacing', n)
         /\ Ids(tabs') = Ids(tabs)
         /\ Ready(peers') \subseteq Ready(peers) /\ DOMAIN peers' \subseteq DOMAIN peers
<1>1. /\ DOMAIN peers' = DOMAIN peers \ {c}
      /\ \A d \in DOMAIN peers' : peers'[d] = peers[d]
  BY DEF DropClient, Without
<1>2. GoodPeers(peers')
  <2>1. peers' = [d \in DOMAIN peers \ {c} |-> peers'[d]]
    BY DEF DropClient, Without
  <2> QED BY <1>1, <2>1 DEF GoodPeers, Sound
<1>3. Ready(peers') = Ready(peers) \ {c}
  BY <1>1 DEF Ready
<1>4. /\ tabs' = [i \in DOMAIN tabs |-> tabs'[i]]
      /\ \A i \in DOMAIN tabs : tabs'[i] = Forget(tabs[i], {c})
  BY DEF DropClient
<1>5. \A i \in DOMAIN tabs :
        /\ TabOK(tabs'[i]) /\ tabs'[i].id = tabs[i].id
        /\ tabs'[i].controller \in ({tabs[i].controller} \ {c}) \cup {NoClient}
        /\ tabs'[i].printer \in ({tabs[i].printer} \ {c}) \cup {NoClient}
  BY <1>4, ForgetOK DEF Sound, WellFormed
<1>6. WellFormed(tabs', n) /\ DOMAIN tabs' = DOMAIN tabs /\ Ids(tabs') = Ids(tabs)
  BY <1>4, <1>5, InPlace DEF Sound
<1>7. Owned(tabs', peers')
  BY <1>3, <1>5, <1>6 DEF Sound, Owned
<1>8. GoodReplacing(replacing', peers', tabs')
  BY <1>1, <1>6 DEF Sound, GoodReplacing, Without, DropClient
<1> QED BY <1>1, <1>2, <1>3, <1>6, <1>7, <1>8 DEF Sound

(* Changing one tab without changing its id is sound when its owners are   *)
(* ready clients.                                                          *)
LEMMA ChangeOK ==
  ASSUME NEW ts, NEW n, NEW ps, NEW rp, Sound(ts, ps, rp, n),
         NEW i \in DOMAIN ts, NEW t, TabOK(t), t.id = ts[i].id,
         t.controller \in Ready(ps) \cup {NoClient},
         t.printer \in Ready(ps) \cup {NoClient}
  PROVE  /\ Sound([ts EXCEPT ![i] = t], ps, rp, n)
         /\ Ids([ts EXCEPT ![i] = t]) = Ids(ts)
<1> DEFINE us == [ts EXCEPT ![i] = t]
<1>0. ts \in Seq(Tab)
  BY DEF Sound, WellFormed
<1>1. us = [j \in DOMAIN ts |-> us[j]] /\ DOMAIN us = DOMAIN ts
  BY <1>0
<1>2. \A j \in DOMAIN ts : us[j] = IF j = i THEN t ELSE ts[j]
  BY <1>0
<1> HIDE DEF us
<1>3. \A j \in DOMAIN ts : TabOK(us[j]) /\ us[j].id = ts[j].id
  BY <1>2 DEF Sound, WellFormed
<1>4. WellFormed(us, n) /\ Ids(us) = Ids(ts)
  BY <1>1, <1>3, InPlace DEF Sound
<1>5. Owned(us, ps)
  BY <1>1, <1>2 DEF Sound, Owned
<1>6. GoodReplacing(rp, ps, us)
  BY <1>4 DEF Sound, GoodReplacing
<1>7. Sound(us, ps, rp, n)
  BY <1>4, <1>5, <1>6 DEF Sound
<1> QED BY <1>4, <1>7 DEF us

(* Appending a sound tab under the next id is sound. *)
LEMMA AppendOK ==
  ASSUME NEW ts, NEW n \in TabId, NEW ps, NEW rp, Sound(ts, ps, rp, n),
         NEW t, TabOK(t), t.id = n,
         t.controller \in Ready(ps) \cup {NoClient},
         t.printer \in Ready(ps) \cup {NoClient}
  PROVE  /\ Sound(Append(ts, t), ps, rp, n + 1)
         /\ Ids(Append(ts, t)) = Ids(ts) \cup {n}
<1> DEFINE us == Append(ts, t)
<1>0. ts \in Seq(Tab) /\ t \in Tab /\ Len(ts) \in Nat /\ DOMAIN ts = 1..Len(ts)
  BY SequenceDomain DEF Sound, WellFormed, TabOK
<1>1. /\ us \in Seq(Tab)
      /\ Len(us) = Len(ts) + 1
      /\ DOMAIN us = 1..(Len(ts) + 1)
      /\ \A i \in DOMAIN us : us[i] = IF i = Len(ts) + 1 THEN t ELSE ts[i]
  BY <1>0
<1> HIDE DEF us
<1>2. \A i \in DOMAIN us : i = Len(ts) + 1 \/ i \in DOMAIN ts
  BY <1>0, <1>1
<1>3. \A i \in DOMAIN us : TabOK(us[i])
  BY <1>0, <1>1, <1>2 DEF Sound, WellFormed
<1>4. \A i \in DOMAIN ts : ts[i].id \in TabId /\ ts[i].id < n
  BY IdsOK DEF Sound
<1>5. \A i \in DOMAIN us : us[i].id < n + 1
  BY <1>0, <1>1, <1>2, <1>4 DEF TabId
<1>6. \A i, j \in DOMAIN us : i < j => us[i].id < us[j].id
  <2> SUFFICES ASSUME NEW i \in DOMAIN us, NEW j \in DOMAIN us, i < j
               PROVE  us[i].id < us[j].id
    OBVIOUS
  <2>1. i \in DOMAIN ts /\ i # Len(ts) + 1 /\ us[i] = ts[i]
    BY <1>0, <1>1
  <2>2. CASE j = Len(ts) + 1
    BY <1>1, <1>4, <2>1, <2>2
  <2>3. CASE j # Len(ts) + 1
    <3>1. j \in DOMAIN ts /\ us[j] = ts[j]
      BY <1>1, <1>2, <2>3
    <3> QED BY <2>1, <3>1 DEF Sound, WellFormed
  <2> QED BY <2>2, <2>3
<1>7. WellFormed(us, n + 1)
  BY <1>1, <1>3, <1>5, <1>6 DEF WellFormed
<1>8. Owned(us, ps)
  BY <1>1, <1>2 DEF Sound, Owned
<1>9. Ids(us) = Ids(ts) \cup {n}
  <2>1. \A i \in DOMAIN ts : i \in DOMAIN us /\ us[i] = ts[i]
    BY <1>0, <1>1
  <2>2. Len(ts) + 1 \in DOMAIN us /\ us[Len(ts) + 1] = t
    BY <1>0, <1>1
  <2> QED BY <1>1, <1>2, <2>1, <2>2 DEF Ids
<1>10. GoodReplacing(rp, ps, us)
  BY <1>9 DEF Sound, GoodReplacing
<1>11. Sound(us, ps, rp, n + 1)
  BY <1>7, <1>8, <1>10 DEF Sound
<1> QED BY <1>9, <1>11 DEF us

(* Marking a client ready is sound. *)
LEMMA ReadyOK ==
  ASSUME NEW ts, NEW n, NEW ps, NEW rp, Sound(ts, ps, rp, n), NEW c \in DOMAIN ps
  PROVE  /\ Sound(ts, [ps EXCEPT ![c].ready = TRUE], rp, n)
         /\ c \in Ready([ps EXCEPT ![c].ready = TRUE])
<1> DEFINE qs == [ps EXCEPT ![c].ready = TRUE]
<1>0. ps \in [DOMAIN ps -> Peer] /\ DOMAIN ps \subseteq ClientId
  BY DEF Sound, GoodPeers
<1>1. qs \in [DOMAIN ps -> Peer] /\ DOMAIN qs = DOMAIN ps /\ qs[c].ready
  BY <1>0 DEF Peer
<1>2. \A d \in DOMAIN ps : ps[d].ready => qs[d].ready
  BY <1>0 DEF Peer
<1> HIDE DEF qs
<1>3. GoodPeers(qs)
  BY <1>0, <1>1 DEF GoodPeers
<1>4. Ready(ps) \subseteq Ready(qs) /\ c \in Ready(qs)
  BY <1>1, <1>2 DEF Ready
<1>5. Owned(ts, qs)
  BY <1>4 DEF Sound, Owned
<1>6. GoodReplacing(rp, qs, ts)
  BY <1>1 DEF Sound, GoodReplacing
<1>7. Sound(ts, qs, rp, n)
  BY <1>3, <1>5, <1>6 DEF Sound
<1> QED BY <1>4, <1>7 DEF qs

-----------------------------------------------------------------------------
(* Announcing a close. *)

Closing(ids, cl, fb, n) ==
  /\ cl \in TabId \cup {NoTab} /\ cl < n /\ cl \notin ids
  /\ fb \in ids \cup {NoTab}
  /\ cl = NoTab => fb = NoTab

(* Recipes of well-formed tabs are what the recovery file holds. *)
LEMMA RecipesOK ==
  ASSUME NEW ts, NEW n, WellFormed(ts, n)
  PROVE  Recipes(ts) \in Seq(Recipe)
<1>1. Len(ts) \in Nat /\ DOMAIN ts = 1..Len(ts)
  BY SequenceDomain DEF WellFormed
<1>2. \A i \in DOMAIN ts : ts[i] \in Tab
  BY IdsOK
<1>3. \A t \in Tab : [url |-> t.url, label |-> t.label] \in Recipe
  BY DEF Tab, Recipe
<1>4. Recipes(ts) \in [1..Len(ts) -> Recipe]
  BY <1>1, <1>2, <1>3 DEF Recipes
<1> QED BY <1>1, <1>4, SequenceOf

(* Service::save writes recipes or leaves the previous file. *)
LEMMA SaveOK ==
  ASSUME NEW ts, NEW n, WellFormed(ts, n), saved \in Seq(Recipe), Save(ts)
  PROVE  saved' \in Seq(Recipe)
  BY RecipesOK DEF Save

(* Service::publish is sound and leaves a sound announcement. *)
LEMMA PublishOK ==
  ASSUME NEW ts, NEW n \in Nat \ {0}, NEW ps, NEW rp, NEW cl, NEW fb, NEW must,
         Sound(ts, ps, rp, n), Closing(Ids(ts), cl, fb, n), saved \in Seq(Recipe),
         Publish(ts, ps, rp, cl, fb, must)
  PROVE  /\ Sound(tabs', peers', replacing', n)
         /\ Closing(Ids(tabs'), closed', fallback', n)
         /\ saved' \in Seq(Recipe)
         /\ Ready(peers') \subseteq Ready(ps) /\ DOMAIN peers' \subseteq DOMAIN ps
<1> DEFINE now == Catalogued(ts)
<1>1. Sound(now, ps, rp, n) /\ Ids(now) = Ids(ts)
  BY CataloguedOK
<1>2. CASE cl = NoTab /\ published = {Catalog(now)}
  <2>1. /\ Deliver(now, ps, rp, must, Controllers(now))
        /\ closed' = cl /\ fallback' = fb /\ saved' = saved
    BY <1>2 DEF Publish
  <2> HIDE DEF now
  <2>2. /\ Sound(tabs', peers', replacing', n) /\ Ids(tabs') = Ids(now)
        /\ Ready(peers') \subseteq Ready(ps) /\ DOMAIN peers' \subseteq DOMAIN ps
    BY <1>1, <2>1, DeliverOK
  <2> QED BY <1>1, <2>1, <2>2
<1>3. CASE ~(cl = NoTab /\ published = {Catalog(now)})
  <2>1. /\ Deliver(now, ps, rp, must \cup Ready(ps), Controllers(now))
        /\ closed' = NoTab /\ fallback' = NoTab /\ Save(now)
    BY <1>3 DEF Publish
  <2> HIDE DEF now
  <2>2. /\ Sound(tabs', peers', replacing', n) /\ Ids(tabs') = Ids(now)
        /\ Ready(peers') \subseteq Ready(ps) /\ DOMAIN peers' \subseteq DOMAIN ps
    BY <1>1, <2>1, DeliverOK
  <2>3. saved' \in Seq(Recipe)
    BY <1>1, <2>1, SaveOK DEF Sound
  <2>4. NoTab \notin Ids(tabs') /\ NoTab < n
    BY <2>2, IdsOK DEF Sound, NoTab
  <2>5. Closing(Ids(tabs'), closed', fallback', n)
    BY <2>1, <2>4 DEF Closing
  <2> QED BY <2>2, <2>3, <2>5
<1> QED BY <1>2, <1>3

-----------------------------------------------------------------------------
(* Replacements. *)

(* finish_replacement leaves a sound, ownerless browser tab. *)
LEMMA ConvertOK ==
  ASSUME NEW ts, NEW n, NEW ps, NEW rp, Sound(ts, ps, rp, n), NEW r \in Replacement
  PROVE  /\ Sound(Convert(ts, r), ps, rp, n)
         /\ Ids(Convert(ts, r)) = Ids(ts)
<1> DEFINE Browsed(t) ==
      [t EXCEPT !.controller = NoClient, !.printer = NoClient, !.pty = "none",
                !.held = FALSE, !.url = r.url, !.label = Blank, !.dirty = TRUE]
           us == Convert(ts, r)
<1>1. ASSUME NEW t \in Tab
      PROVE  /\ TabOK(Browsed(t)) /\ Browsed(t).id = t.id
             /\ Browsed(t).controller = NoClient /\ Browsed(t).printer = NoClient
  BY ServiceAssumption DEF Tab, TabOK, IsTerminal, EntryOf, NoClient, Replacement
<1>2. us = [i \in DOMAIN ts |-> us[i]] /\ DOMAIN us = DOMAIN ts
  BY DEF Convert
<1>3. \A i \in DOMAIN ts : us[i] = IF ts[i].id # r.tab THEN ts[i] ELSE Browsed(ts[i])
  BY DEF Convert
<1>4. \A i \in DOMAIN ts : ts[i] \in Tab /\ TabOK(ts[i])
  BY IdsOK DEF Sound, WellFormed
<1> HIDE DEF us, Browsed
<1>5. \A i \in DOMAIN ts :
        /\ TabOK(us[i]) /\ us[i].id = ts[i].id
        /\ us[i].controller \in {ts[i].controller, NoClient}
        /\ us[i].printer \in {ts[i].printer, NoClient}
  BY <1>1, <1>3, <1>4
<1>6. WellFormed(us, n) /\ Ids(us) = Ids(ts)
  BY <1>2, <1>5, InPlace DEF Sound
<1>7. Owned(us, ps)
  BY <1>2, <1>5 DEF Sound, Owned
<1>8. GoodReplacing(rp, ps, us)
  BY <1>6 DEF Sound, GoodReplacing
<1>9. Sound(us, ps, rp, n)
  BY <1>6, <1>7, <1>8 DEF Sound
<1> QED BY <1>6, <1>9 DEF us

(* Writing to a client, with the conversion that an acknowledgement        *)
(* releases, is sound.                                                     *)
LEMMA ClientFlushOK ==
  ASSUME NEW n, NEW c \in DOMAIN peers, NEW rp,
         Sound(tabs, peers, replacing, n), Sound(tabs, peers, rp, n),
         ClientFlush(c, peers, rp)
  PROVE  /\ Sound(tabs', peers', replacing', n)
         /\ Ids(tabs') = Ids(tabs)
         /\ Ready(peers') \subseteq Ready(peers) /\ DOMAIN peers' \subseteq DOMAIN peers
<1>1. \A q \in BOOLEAN :
        /\ Sound(tabs, [peers EXCEPT ![c].queued = q], rp, n)
        /\ Ready([peers EXCEPT ![c].queued = q]) = Ready(peers)
        /\ DOMAIN [peers EXCEPT ![c].queued = q] = DOMAIN peers
  <2> SUFFICES ASSUME NEW q \in BOOLEAN
               PROVE  /\ Sound(tabs, [peers EXCEPT ![c].queued = q], rp, n)
                      /\ Ready([peers EXCEPT ![c].queued = q]) = Ready(peers)
                      /\ DOMAIN [peers EXCEPT ![c].queued = q] = DOMAIN peers
    OBVIOUS
  <2> DEFINE qs == [peers EXCEPT ![c].queued = q]
  <2>0. peers \in [DOMAIN peers -> Peer] /\ DOMAIN peers \subseteq ClientId
    BY DEF Sound, GoodPeers
  <2>1. qs \in [DOMAIN peers -> Peer] /\ DOMAIN qs = DOMAIN peers
    BY <2>0 DEF Peer
  <2>2. \A d \in DOMAIN peers : qs[d].ready = peers[d].ready
    BY <2>0 DEF Peer
  <2> HIDE DEF qs
  <2>3. GoodPeers(qs) /\ Ready(qs) = Ready(peers)
    BY <2>0, <2>1, <2>2 DEF GoodPeers, Ready
  <2>4. Owned(tabs, qs) /\ GoodReplacing(rp, qs, tabs)
    BY <2>1, <2>3 DEF Sound, Owned, GoodReplacing
  <2>5. Sound(tabs, qs, rp, n)
    BY <2>3, <2>4 DEF Sound
  <2> QED BY <2>1, <2>3, <2>5 DEF qs
<1>2. CASE /\ peers' = [peers EXCEPT ![c].queued = FALSE]
           /\ tabs' = IF c \in DOMAIN rp THEN Convert(tabs, rp[c]) ELSE tabs
           /\ replacing' = Without(rp, {c})
  <2>1. /\ Sound(tabs, peers', rp, n) /\ Ready(peers') = Ready(peers)
        /\ DOMAIN peers' = DOMAIN peers
    BY <1>1, <1>2
  <2>2. Sound(tabs', peers', rp, n) /\ Ids(tabs') = Ids(tabs)
    <3>1. CASE c \in DOMAIN rp
      <4>1. rp[c] \in Replacement
        BY <3>1 DEF Sound, GoodReplacing
      <4> QED BY <1>2, <2>1, <3>1, <4>1, ConvertOK
    <3>2. CASE c \notin DOMAIN rp
      BY <1>2, <2>1, <3>2
    <3> QED BY <3>1, <3>2
  <2>3. GoodReplacing(replacing', peers', tabs')
    BY <1>2, <2>2 DEF Sound, GoodReplacing, Without
  <2> QED BY <2>1, <2>2, <2>3 DEF Sound
<1>3. CASE /\ peers' = [peers EXCEPT ![c].queued = TRUE]
           /\ UNCHANGED tabs
           /\ replacing' = rp
  BY <1>1, <1>3
<1>4. CASE DropClient(c)
  BY <1>4, DropClientOK
<1> QED BY <1>2, <1>3, <1>4 DEF ClientFlush

-----------------------------------------------------------------------------
(* Closing. *)

(* A subsequence of well-formed tabs is well formed. *)
LEMMA SubsequenceOK ==
  ASSUME NEW ts, NEW n, WellFormed(ts, n), NEW m \in Nat,
         NEW keep \in [1..m -> DOMAIN ts],
         \A j, k \in 1..m : j < k => keep[j] < keep[k],
         NEW us, us = [k \in 1..m |-> ts[keep[k]]]
  PROVE  /\ WellFormed(us, n) /\ DOMAIN us = 1..m /\ Len(us) = m
         /\ Ids(us) \subseteq Ids(ts)
<1>1. \A k \in 1..m : us[k] = ts[keep[k]] /\ keep[k] \in DOMAIN ts
  OBVIOUS
<1>2. us \in [1..m -> Tab]
  BY <1>1, IdsOK
<1>3. us \in Seq(Tab) /\ DOMAIN us = 1..m /\ Len(us) = m
  BY <1>2, SequenceOf
<1>4. \A i \in DOMAIN us : TabOK(us[i]) /\ us[i].id < n
  BY <1>1, <1>3 DEF WellFormed
<1>5. \A i, j \in DOMAIN us : i < j => us[i].id < us[j].id
  BY <1>1, <1>3 DEF WellFormed
<1>6. Ids(us) \subseteq Ids(ts)
  BY <1>1, <1>3 DEF Ids
<1> QED BY <1>3, <1>4, <1>5, <1>6 DEF WellFormed

(* Owners survive the removal of tabs, and so do the replacements of the   *)
(* tabs that stay.                                                         *)
LEMMA FewerOK ==
  ASSUME NEW ts, NEW us, NEW n, NEW ps, NEW rp, NEW gone, Sound(ts, ps, rp, n),
         WellFormed(us, n), \A k \in DOMAIN us : \E i \in DOMAIN ts : us[k] = ts[i],
         Ids(ts) \ gone \subseteq Ids(us)
  PROVE  Sound(us, ps, ReplacingOutside(rp, gone), n)
<1>1. Owned(us, ps)
  BY DEF Sound, Owned
<1>2. GoodReplacing(ReplacingOutside(rp, gone), ps, us)
  BY DEF Sound, GoodReplacing, ReplacingOutside, Without
<1> QED BY <1>1, <1>2 DEF Sound

(* An id names one tab. *)
LEMMA IdsDiffer ==
  ASSUME NEW ts, NEW n, WellFormed(ts, n), NEW i \in DOMAIN ts, NEW j \in DOMAIN ts,
         ts[i].id = ts[j].id
  PROVE  i = j
<1>1. i \in Nat /\ j \in Nat
  BY SequenceDomain DEF WellFormed
<1>2. ts[i].id \in Nat /\ ts[j].id \in Nat
  BY IdsOK DEF TabId
<1>3. ~(i < j) /\ ~(j < i)
  BY <1>2 DEF WellFormed
<1> QED BY <1>1, <1>3

(* Service::close is sound: the rest is in order, its neighbour exists and *)
(* the closed tab does not.                                                *)
LEMMA RemoveOK ==
  ASSUME NEW ts, NEW n, NEW ps, NEW rp, Sound(ts, ps, rp, n), NEW i \in DOMAIN ts
  PROVE  /\ Sound(RemoveAt(ts, i), ps, ReplacingOutside(rp, {ts[i].id}), n)
         /\ Closing(Ids(RemoveAt(ts, i)), ts[i].id, Neighbour(ts, i), n)
<1> DEFINE us == RemoveAt(ts, i)
           m == Len(ts) - 1
           keep == [k \in 1..m |-> IF k < i THEN k ELSE k + 1]
<1>0. WellFormed(ts, n)
  BY DEF Sound
<1>1. ts \in Seq(Tab) /\ Len(ts) \in Nat /\ DOMAIN ts = 1..Len(ts) /\ i \in 1..Len(ts)
  BY <1>0, SequenceDomain DEF WellFormed
<1>2. m \in Nat
  BY <1>1
<1>3. /\ keep \in [1..m -> DOMAIN ts]
      /\ \A j, k \in 1..m : j < k => keep[j] < keep[k]
      /\ \A k \in 1..m : keep[k] # i
  BY <1>1
<1>4. us \in Seq(Tab) /\ Len(us) = m /\ \A k \in 1..m : us[k] = IF k < i THEN ts[k] ELSE ts[k + 1]
  BY <1>1, Removed
<1> HIDE DEF us
<1>5. us = [k \in 1..m |-> ts[keep[k]]]
  <2>1. \A k \in 1..m : us[k] = ts[keep[k]]
    BY <1>4
  <2>2. us = [k \in 1..m |-> us[k]]
    BY <1>4
  <2> QED BY <2>1, <2>2
<1>6. \A j \in DOMAIN ts : j # i => \E k \in 1..m : us[k] = ts[j]
  <2> SUFFICES ASSUME NEW j \in DOMAIN ts, j # i PROVE \E k \in 1..m : us[k] = ts[j]
    OBVIOUS
  <2>1. CASE j < i
    <3>1. j \in 1..m
      BY <1>1, <2>1
    <3> QED BY <1>4, <2>1, <3>1
  <2>2. CASE j > i
    <3>1. j - 1 \in 1..m /\ ~(j - 1 < i) /\ (j - 1) + 1 = j
      BY <1>1, <2>2
    <3> QED BY <1>4, <3>1
  <2> QED BY <1>1, <2>1, <2>2
<1> HIDE DEF keep, m
<1>7. WellFormed(us, n) /\ DOMAIN us = 1..m
  BY <1>0, <1>2, <1>3, <1>5, SubsequenceOK
<1>8. \A k \in DOMAIN us : keep[k] \in DOMAIN ts /\ us[k] = ts[keep[k]] /\ keep[k] # i
  BY <1>3, <1>5, <1>7
<1>9. Ids(ts) \ {ts[i].id} \subseteq Ids(us)
  BY <1>6, <1>7 DEF Ids
<1>10. Sound(us, ps, ReplacingOutside(rp, {ts[i].id}), n)
  BY <1>7, <1>8, <1>9, FewerOK
<1>11. ts[i].id \notin Ids(us)
  BY <1>0, <1>8, IdsDiffer DEF Ids
<1>12. Neighbour(ts, i) \in Ids(us) \cup {NoTab}
  <2>1. ASSUME NEW j \in DOMAIN ts, j # i PROVE ts[j].id \in Ids(us)
    BY <1>6, <1>7, <2>1 DEF Ids
  <2>2. CASE i < Len(ts)
    <3>1. i + 1 \in DOMAIN ts /\ i + 1 # i /\ Neighbour(ts, i) = ts[i + 1].id
      BY <1>1, <2>2 DEF Neighbour
    <3> QED BY <2>1, <3>1
  <2>3. CASE ~(i < Len(ts)) /\ i > 1
    <3>1. i - 1 \in DOMAIN ts /\ i - 1 # i /\ Neighbour(ts, i) = ts[i - 1].id
      BY <1>1, <2>3 DEF Neighbour
    <3> QED BY <2>1, <3>1
  <2>4. CASE ~(i < Len(ts)) /\ ~(i > 1)
    BY <2>4 DEF Neighbour
  <2> QED BY <2>2, <2>3, <2>4
<1>13. ts[i].id \in TabId /\ ts[i].id < n /\ ts[i].id # NoTab
  BY <1>0, IdsOK DEF TabId, NoTab
<1>14. Closing(Ids(us), ts[i].id, Neighbour(ts, i), n)
  BY <1>11, <1>12, <1>13 DEF Closing
<1> QED BY <1>10, <1>14 DEF us

(* refresh_directory changes labels in place. *)
LEMMA RelabelledOK ==
  ASSUME NEW ts, NEW n, NEW ps, NEW rp, Sound(ts, ps, rp, n),
         NEW moved \in [OpenIds(ts) -> Label]
  PROVE  /\ Sound(Relabelled(ts, moved), ps, rp, n)
         /\ DOMAIN Relabelled(ts, moved) = DOMAIN ts
         /\ \A i \in DOMAIN ts : Relabelled(ts, moved)[i].id = ts[i].id
<1> DEFINE us == Relabelled(ts, moved)
           New(t) == [t EXCEPT !.label = moved[t.id], !.dirty = TRUE]
<1>1. us = [i \in DOMAIN ts |-> us[i]] /\ DOMAIN us = DOMAIN ts
  BY DEF Relabelled
<1>2. \A i \in DOMAIN ts : us[i] = ts[i] \/ (us[i] = New(ts[i]) /\ moved[ts[i].id] \in Label)
  BY DEF Relabelled
<1>3. ASSUME NEW t, TabOK(t), moved[t.id] \in Label
      PROVE  /\ TabOK(New(t)) /\ New(t).id = t.id
             /\ New(t).controller = t.controller /\ New(t).printer = t.printer
  BY <1>3 DEF TabOK, Tab, IsTerminal, EntryOf
<1> HIDE DEF us, New
<1>4. \A i \in DOMAIN ts : TabOK(ts[i])
  BY DEF Sound, WellFormed
<1>5. \A i \in DOMAIN ts :
        /\ TabOK(us[i]) /\ us[i].id = ts[i].id
        /\ us[i].controller = ts[i].controller /\ us[i].printer = ts[i].printer
  BY <1>2, <1>3, <1>4
<1>6. WellFormed(us, n) /\ Ids(us) = Ids(ts)
  BY <1>1, <1>5, InPlace DEF Sound
<1>7. Owned(us, ps) /\ GoodReplacing(rp, ps, us)
  BY <1>1, <1>5, <1>6 DEF Sound, Owned, GoodReplacing
<1>8. Sound(us, ps, rp, n)
  BY <1>6, <1>7 DEF Sound
<1> QED BY <1>1, <1>5, <1>8 DEF us

(* The loop of maintain() that closes ended tabs, after the directories    *)
(* were refreshed.                                                         *)
LEMMA EndedOK ==
  ASSUME NEW ts, NEW n, NEW ps, NEW rp, Sound(ts, ps, rp, n),
         NEW cl, NEW fb, Closing(Ids(ts), cl, fb, n),
         NEW moved \in [OpenIds(ts) -> Label], NEW keep \in Keeps(ts),
         NEW rest, rest = Survivors(Relabelled(ts, moved), keep)
  PROVE  /\ Sound(rest, ps, ReplacingOutside(rp, Ids(ts) \ Ids(rest)), n)
         /\ Ended(ts) = {} => Closing(Ids(rest), cl, fb, n)
         /\ Ended(ts) # {} =>
              Closing(Ids(rest), ts[LastEnded(ts)].id, FallbackAmong(ts, rest), n)
<1> DEFINE us == Relabelled(ts, moved)
           m == Cardinality(Staying(ts))
<1>0. WellFormed(ts, n) /\ ts \in Seq(Tab) /\ Len(ts) \in Nat /\ DOMAIN ts = 1..Len(ts)
  BY SequenceDomain DEF Sound, WellFormed
<1>1. /\ Sound(us, ps, rp, n) /\ DOMAIN us = DOMAIN ts
      /\ \A i \in DOMAIN ts : us[i].id = ts[i].id
  BY RelabelledOK
<1>2. m \in Nat
  <2>1. IsFiniteSet(1..Len(ts))
    BY <1>0, FS_Interval
  <2>2. Staying(ts) \in SUBSET (1..Len(ts))
    BY <1>0 DEF Staying
  <2>3. IsFiniteSet(Staying(ts))
    BY <2>1, <2>2, FS_Subset
  <2> QED BY <2>3, FS_CardinalityType
<1> HIDE DEF us, m
<1>3. /\ keep \in [1..m -> DOMAIN us] /\ DOMAIN keep = 1..m
      /\ \A k \in 1..m : keep[k] \in Staying(ts)
      /\ \A j, k \in 1..m : j < k => keep[j] < keep[k]
      /\ \A i \in Staying(ts) : \E k \in 1..m : keep[k] = i
  <2>1. /\ keep \in [1..m -> Staying(ts)] /\ DOMAIN keep = 1..m
        /\ \A j, k \in DOMAIN keep : j < k => keep[j] < keep[k]
        /\ \A i \in Staying(ts) : \E k \in DOMAIN keep : keep[k] = i
    BY DEF Keeps, m
  <2>2. Staying(ts) \subseteq DOMAIN us
    BY <1>1 DEF Staying
  <2> QED BY <2>1, <2>2
<1>4. rest = [k \in 1..m |-> us[keep[k]]]
  BY <1>3 DEF Survivors, us
<1>5. WellFormed(rest, n) /\ DOMAIN rest = 1..m /\ Len(rest) = m
  <2>1. WellFormed(us, n)
    BY <1>1 DEF Sound
  <2>2. /\ keep \in [1..m -> DOMAIN us]
        /\ \A j, k \in 1..m : j < k => keep[j] < keep[k]
    BY <1>3
  <2> QED BY <1>2, <1>4, <2>1, <2>2, SubsequenceOK, SMTT(30)
<1>6. \A k \in DOMAIN rest : rest[k] = us[keep[k]] /\ keep[k] \in DOMAIN us
  BY <1>3, <1>4, <1>5
<1>7. Ids(us) = Ids(ts)
  BY <1>1 DEF Ids
<1>8. Sound(rest, ps, ReplacingOutside(rp, Ids(ts) \ Ids(rest)), n)
  BY <1>1, <1>5, <1>6, <1>7, FewerOK
<1>9. \A i \in Staying(ts) : ts[i].id \in Ids(rest)
  <2> SUFFICES ASSUME NEW i \in Staying(ts) PROVE ts[i].id \in Ids(rest)
    OBVIOUS
  <2>1. PICK k \in 1..m : keep[k] = i
    BY <1>3
  <2> QED BY <1>1, <1>5, <1>6, <2>1 DEF Ids
<1>10. Ids(rest) \subseteq {ts[i].id : i \in Staying(ts)}
  BY <1>1, <1>3, <1>5, <1>6 DEF Ids
<1>11. ASSUME Ended(ts) = {} PROVE Closing(Ids(rest), cl, fb, n)
  <2>1. Ids(rest) = Ids(ts)
    BY <1>9, <1>10, <1>11 DEF Staying, Ids
  <2> QED BY <2>1
<1>12. ASSUME Ended(ts) # {}
       PROVE  Closing(Ids(rest), ts[LastEnded(ts)].id, FallbackAmong(ts, rest), n)
  <2> DEFINE last == LastEnded(ts)
  <2>1. last \in Ended(ts) /\ \A j \in Ended(ts) : j <= last
    <3>1. Ended(ts) \subseteq 1..Len(ts)
      BY <1>0 DEF Ended
    <3>2. \E i \in Ended(ts) : \A j \in Ended(ts) : j <= i
      BY <1>0, <1>12, <3>1, LastExists
    <3> QED BY <3>2 DEF LastEnded
  <2> HIDE DEF last
  <2>2. last \in DOMAIN ts /\ last \notin Staying(ts)
    BY <2>1 DEF Ended, Staying
  <2>3. ts[last].id \notin Ids(rest)
    BY <1>0, <1>10, <2>2, IdsDiffer DEF Staying
  <2>4. ts[last].id \in TabId /\ ts[last].id < n /\ ts[last].id # NoTab
    BY <1>0, <2>2, IdsOK DEF TabId, NoTab
  <2>5. FallbackAmong(ts, rest) \in Ids(rest) \cup {NoTab}
    <3>1. CASE last < Len(ts)
      <4>1. last + 1 \in DOMAIN ts /\ ~(last + 1 <= last)
        BY <1>0, <2>2, <3>1
      <4>2. last + 1 \in Staying(ts)
        BY <2>1, <4>1 DEF Staying
      <4>3. FallbackAmong(ts, rest) = ts[last + 1].id
        BY <3>1 DEF FallbackAmong, last
      <4> QED BY <1>9, <4>2, <4>3
    <3>2. CASE ~(last < Len(ts)) /\ rest # <<>>
      <4>1. FallbackAmong(ts, rest) = rest[m].id
        BY <1>5, <3>2 DEF FallbackAmong, last
      <4>2. m \in DOMAIN rest
        BY <1>2, <1>5, <3>2 DEF WellFormed
      <4> QED BY <4>1, <4>2 DEF Ids
    <3>3. CASE ~(last < Len(ts)) /\ ~(rest # <<>>)
      BY <3>3 DEF FallbackAmong, last
    <3> QED BY <3>1, <3>2, <3>3
  <2> QED BY <2>3, <2>4, <2>5 DEF Closing, last
<1> QED BY <1>8, <1>11, <1>12

-----------------------------------------------------------------------------
(* New tabs. *)

(* A new shell is sound whatever client controls it. *)
LEMMA ShellOK ==
  ASSUME NEW id \in TabId, NEW l \in Label \cup {Blank}, NEW c \in ClientId \cup {NoClient}
  PROVE  /\ TabOK(Shell(id, l, c))
         /\ Shell(id, l, c).id = id
         /\ Shell(id, l, c).controller = c
         /\ Shell(id, l, c).printer = NoClient
  BY DEF Shell, Record, TabOK, Tab, IsTerminal, EntryOf, NoClient, Cached

PrintingShell(id, l, c, p) == [Shell(id, l, c) EXCEPT !.printer = p]

(* So is one whose launch named a receiver of prints. *)
LEMMA PrintingShellOK ==
  ASSUME NEW id \in TabId, NEW l \in Label, NEW c \in ClientId, NEW p \in {c, NoClient}
  PROVE  /\ TabOK(PrintingShell(id, l, c, p))
         /\ PrintingShell(id, l, c, p).id = id
         /\ PrintingShell(id, l, c, p).controller = c
         /\ PrintingShell(id, l, c, p).printer = p
  BY DEF PrintingShell, Shell, Record, TabOK, Tab, IsTerminal, EntryOf, NoClient, Cached

(* A new browser tab is sound and has no owner. *)
LEMMA BrowserOK ==
  ASSUME NEW id \in TabId, NEW u \in Url
  PROVE  /\ TabOK(Browser(id, u)) /\ Browser(id, u).id = id
         /\ Browser(id, u).controller = NoClient /\ Browser(id, u).printer = NoClient
  BY ServiceAssumption DEF Browser, Record, TabOK, Tab, IsTerminal, EntryOf, NoClient, Cached

(* serve() makes sound tabs, without owners, from the recovery file. *)
LEMMA RestoredOK ==
  ASSUME NEW rs \in Seq(Recipe), Len(rs) <= TabLimit
  PROVE  /\ WellFormed(Restored(rs), Len(rs) + 1)
         /\ \A i \in DOMAIN Restored(rs) : /\ Restored(rs)[i].controller = NoClient
                                           /\ Restored(rs)[i].printer = NoClient
<1> DEFINE us == Restored(rs)
<1>1. Len(rs) \in Nat /\ DOMAIN rs = 1..Len(rs) /\ \A i \in DOMAIN rs : rs[i] \in Recipe
  BY SequenceDomain
<1>2. DOMAIN us = DOMAIN rs /\ us = [i \in DOMAIN rs |-> us[i]]
  BY DEF Restored
<1>3. \A i \in DOMAIN rs :
        us[i] = IF rs[i].url = Blank THEN Shell(i, rs[i].label, NoClient)
                ELSE Browser(i, rs[i].url)
  BY DEF Restored
<1> HIDE DEF us
<1>4. ASSUME NEW i \in DOMAIN rs
      PROVE  /\ TabOK(us[i]) /\ us[i].id = i
             /\ us[i].controller = NoClient /\ us[i].printer = NoClient
  <2>1. i \in TabId
    BY <1>1, ServiceAssumption DEF TabId
  <2>2. rs[i].url \in Url \cup {Blank} /\ rs[i].label \in Label \cup {Blank}
    BY <1>1 DEF Recipe
  <2>3. CASE rs[i].url = Blank
    <3>1. us[i] = Shell(i, rs[i].label, NoClient)
      BY <1>3, <2>3
    <3>2. NoClient \in ClientId \cup {NoClient}
      OBVIOUS
    <3> QED BY <2>1, <2>2, <3>1, <3>2, ShellOK
  <2>4. CASE rs[i].url # Blank
    BY <1>3, <2>1, <2>2, <2>4, BrowserOK
  <2> QED BY <2>3, <2>4
<1>5. us \in Seq(Tab) /\ \A i \in DOMAIN us : us[i] \in Tab
  <2>1. us \in [1..Len(rs) -> Tab]
    BY <1>1, <1>2, <1>4 DEF TabOK
  <2> QED BY <1>1, <2>1, SequenceOf
<1>6. WellFormed(us, Len(rs) + 1)
  BY <1>1, <1>2, <1>4, <1>5 DEF WellFormed
<1> QED BY <1>2, <1>4, <1>6 DEF us

-----------------------------------------------------------------------------
(* The inductive invariant. *)

Scalars ==
  /\ status \in {"up", "stopped", "crashed", "failed"}
  /\ nextClient \in 1..(ClientLimit + 1)
  /\ nextId \in 1..(TabLimit + 1)
  /\ restored \in BOOLEAN
  /\ handin \in BOOLEAN
  /\ saved \in Seq(Recipe)
  /\ polled \subseteq 0..(2 * ClientLimit + 1 + TabLimit)

(* Client ids are handed out once: the next one is not connected. *)
NextClientIsFresh == \A c \in DOMAIN peers : c < nextClient

(* A process that ended left nothing for the next one to inherit. *)
DownIsEmpty ==
  status # "up" => /\ peers = <<>> /\ replacing = <<>>
                   /\ closed = NoTab /\ fallback = NoTab

ServiceInv ==
  /\ Scalars
  /\ Sound(tabs, peers, replacing, nextId)
  /\ Closing(Ids(tabs), closed, fallback, nextId)
  /\ RestoredOnlyBeforeWindows
  /\ NextClientIsFresh
  /\ DownIsEmpty

(* The empty workspace without clients is sound. *)
LEMMA EmptyOK ==
  /\ DOMAIN <<>> = {}
  /\ Ready(<<>>) = {}
  /\ Ids(<<>>) = {}
  /\ GoodPeers(<<>>)
  /\ \A ts : GoodReplacing(<<>>, <<>>, ts)
  /\ \A n : WellFormed(<<>>, n)
  /\ \A n : Sound(<<>>, <<>>, <<>>, n)
<1>1. DOMAIN <<>> = {}
  OBVIOUS
<1>2. Ready(<<>>) = {} /\ Ids(<<>>) = {}
  BY <1>1 DEF Ready, Ids
<1>3. GoodPeers(<<>>)
  BY <1>1 DEF GoodPeers
<1>4. \A ts : GoodReplacing(<<>>, <<>>, ts)
  BY <1>1 DEF GoodReplacing
<1>5. \A n : WellFormed(<<>>, n)
  BY <1>1 DEF WellFormed
<1>6. \A n : Sound(<<>>, <<>>, <<>>, n)
  BY <1>1, <1>3, <1>4, <1>5 DEF Sound, Owned
<1> QED BY <1>1, <1>2, <1>3, <1>4, <1>5, <1>6

(* Restored tabs are sound without clients. *)
LEMMA FreshStart ==
  ASSUME NEW rs \in Seq(Recipe), Len(rs) <= TabLimit
  PROVE  /\ Sound(Restored(rs), <<>>, <<>>, Len(rs) + 1)
         /\ Closing(Ids(Restored(rs)), NoTab, NoTab, Len(rs) + 1)
         /\ Len(rs) + 1 \in 1..(TabLimit + 1)
<1>1. /\ WellFormed(Restored(rs), Len(rs) + 1)
      /\ \A i \in DOMAIN Restored(rs) : /\ Restored(rs)[i].controller = NoClient
                                        /\ Restored(rs)[i].printer = NoClient
  BY RestoredOK
<1>2. Owned(Restored(rs), <<>>)
  BY <1>1 DEF Owned
<1>3. Len(rs) \in Nat /\ Len(rs) + 1 \in 1..(TabLimit + 1) /\ NoTab < Len(rs) + 1
  BY SequenceDomain, ServiceAssumption DEF NoTab
<1>4. NoTab \notin Ids(Restored(rs))
  BY <1>1, IdsOK
<1> QED BY <1>1, <1>2, <1>3, <1>4, EmptyOK DEF Sound, Closing

(* serve() starts in a sound state. *)
LEMMA InitInv == Init => ServiceInv
<1> SUFFICES ASSUME Init PROVE ServiceInv
  OBVIOUS
<1>1. saved \in Seq(Recipe) /\ Len(saved) <= TabLimit
  <2>1. CASE saved = <<>>
    BY <2>1, ServiceAssumption
  <2>2. ASSUME NEW r \in Recipe, saved = <<r>>
        PROVE  saved \in Seq(Recipe) /\ Len(saved) <= TabLimit
    BY <2>2, ServiceAssumption
  <2>3. saved = <<>> \/ \E r \in Recipe : saved = <<r>>
    BY DEF Init, InitialRecipes, Recipe
  <2> QED BY <2>1, <2>2, <2>3
<1>2. /\ Sound(tabs, peers, replacing, nextId)
      /\ Closing(Ids(tabs), closed, fallback, nextId)
      /\ nextId \in 1..(TabLimit + 1)
  BY <1>1, FreshStart DEF Init
<1>3. Scalars
  <2>1. 1 \in 1..(ClientLimit + 1) /\ 1 \in 1..(TabLimit + 1)
    BY ServiceAssumption
  <2>2. (saved # <<>>) \in BOOLEAN /\ FALSE \in BOOLEAN
    OBVIOUS
  <2> QED BY <1>1, <1>2, <2>1, <2>2, Zenon DEF Init, Scalars
<1>4. RestoredOnlyBeforeWindows /\ NextClientIsFresh /\ DownIsEmpty
  BY EmptyOK DEF Init, RestoredOnlyBeforeWindows, NextClientIsFresh, DownIsEmpty
<1> QED BY <1>2, <1>3, <1>4 DEF ServiceInv

(* A step of a living service that keeps the tabs' ids, adds no client and *)
(* leaves the scalars alone.                                               *)
LEMMA QuietOK ==
  ASSUME ServiceInv, status = "up",
         Sound(tabs', peers', replacing', nextId), Ids(tabs') = Ids(tabs),
         Ready(peers') \subseteq Ready(peers), DOMAIN peers' \subseteq DOMAIN peers,
         polled' \subseteq polled, handin' \in BOOLEAN, restored' \in {restored, FALSE},
         UNCHANGED <<status, nextClient, nextId, closed, fallback, saved>>
  PROVE  ServiceInv'
<1>1. Scalars'
  BY DEF ServiceInv, Scalars
<1>2. Closing(Ids(tabs), closed, fallback, nextId)'
  BY DEF ServiceInv
<1>3. RestoredOnlyBeforeWindows'
  BY DEF ServiceInv, RestoredOnlyBeforeWindows
<1>4. NextClientIsFresh' /\ DownIsEmpty'
  BY DEF ServiceInv, NextClientIsFresh, DownIsEmpty
<1> QED BY <1>1, <1>2, <1>3, <1>4 DEF ServiceInv

(* A step of a living service that ends in Publish. *)
LEMMA PublishingOK ==
  ASSUME ServiceInv, status = "up",
         NEW ts, NEW ps, NEW rp, NEW cl, NEW fb, NEW must,
         nextId' \in 1..(TabLimit + 1),
         Sound(ts, ps, rp, nextId'), Closing(Ids(ts), cl, fb, nextId'),
         Publish(ts, ps, rp, cl, fb, must),
         DOMAIN ps \subseteq DOMAIN peers,
         restored' \in BOOLEAN, restored' => Ready(ps) = {},
         polled' \subseteq 0..(2 * ClientLimit + 1 + TabLimit),
         UNCHANGED <<status, nextClient, handin>>
  PROVE  ServiceInv'
<1>0. nextId' \in Nat \ {0} /\ saved \in Seq(Recipe)
  BY DEF ServiceInv, Scalars
<1>1. /\ Sound(tabs', peers', replacing', nextId')
      /\ Closing(Ids(tabs'), closed', fallback', nextId')
      /\ saved' \in Seq(Recipe)
      /\ Ready(peers') \subseteq Ready(ps) /\ DOMAIN peers' \subseteq DOMAIN ps
  BY <1>0, PublishOK
<1>2. Scalars'
  BY <1>1 DEF ServiceInv, Scalars
<1>3. RestoredOnlyBeforeWindows'
  BY <1>1 DEF RestoredOnlyBeforeWindows
<1>4. NextClientIsFresh' /\ DownIsEmpty'
  BY <1>1 DEF ServiceInv, NextClientIsFresh, DownIsEmpty
<1> QED BY <1>1, <1>2, <1>3, <1>4 DEF ServiceInv

(* A step that ends the process. *)
LEMMA DownOK ==
  ASSUME ServiceInv, Down, status' \in {"stopped", "crashed", "failed"},
         saved' \in Seq(Recipe)
  PROVE  ServiceInv'
<1>1. Scalars'
  <2>1. 1 \in 1..(ClientLimit + 1) /\ 1 \in 1..(TabLimit + 1)
    BY ServiceAssumption
  <2>2. status' \in {"up", "stopped", "crashed", "failed"}
    OBVIOUS
  <2>3. FALSE \in BOOLEAN
    OBVIOUS
  <2> QED BY <2>1, <2>2, <2>3, Zenon DEF Scalars, Down
<1>2. Sound(tabs, peers, replacing, nextId)'
  BY EmptyOK DEF Down
<1>3. Closing(Ids(tabs), closed, fallback, nextId)'
  BY EmptyOK DEF Down, Closing, NoTab
<1>4. RestoredOnlyBeforeWindows' /\ NextClientIsFresh' /\ DownIsEmpty'
  BY EmptyOK DEF Down, RestoredOnlyBeforeWindows, NextClientIsFresh, DownIsEmpty
<1> QED BY <1>1, <1>2, <1>3, <1>4 DEF ServiceInv

-----------------------------------------------------------------------------
(* Starting and ending. *)

(* A new process restores a sound workspace from the recovery file. *)
LEMMA RestartInv == ServiceInv /\ Restart => ServiceInv'
<1> SUFFICES ASSUME ServiceInv, Restart PROVE ServiceInv'
  OBVIOUS
<1>1. saved \in Seq(Recipe) /\ Len(saved) <= TabLimit
  BY DEF ServiceInv, Scalars, Restart
<1>2. peers' = <<>> /\ replacing' = <<>> /\ closed' = NoTab /\ fallback' = NoTab
  BY DEF ServiceInv, DownIsEmpty, Restart
<1>3. /\ Sound(tabs, peers, replacing, nextId)'
      /\ Closing(Ids(tabs), closed, fallback, nextId)'
      /\ nextId' \in 1..(TabLimit + 1)
  BY <1>1, <1>2, FreshStart DEF Restart
<1>4. Scalars'
  <2>1. (saved # <<>>) \in BOOLEAN
    OBVIOUS
  <2> QED BY <1>3, <2>1, Zenon DEF ServiceInv, Scalars, Restart
<1>5. RestoredOnlyBeforeWindows' /\ NextClientIsFresh' /\ DownIsEmpty'
  BY <1>2, EmptyOK DEF RestoredOnlyBeforeWindows, NextClientIsFresh, DownIsEmpty
<1> QED BY <1>3, <1>4, <1>5 DEF ServiceInv

(* However the process ends, it leaves a sound recovery file. *)
LEMMA EndInv ==
  ASSUME ServiceInv
  PROVE  /\ StopSignal => ServiceInv'
         /\ Crash => ServiceInv'
         /\ \A c : Stop(c) => ServiceInv'
         /\ \A c : LaunchFails(c) => ServiceInv'
<1>1. saved \in Seq(Recipe) /\ WellFormed(tabs, nextId)
  BY DEF ServiceInv, Scalars, Sound
<1>2. Save(tabs) => saved' \in Seq(Recipe)
  BY <1>1, SaveOK
<1>3. StopSignal => ServiceInv'
  BY <1>2, DownOK DEF StopSignal
<1>4. Crash => ServiceInv'
  BY <1>1, DownOK DEF Crash
<1>5. \A c : Stop(c) => ServiceInv'
  BY <1>2, DownOK DEF Stop
<1>6. \A c : LaunchFails(c) => ServiceInv'
  BY <1>1, DownOK DEF LaunchFails
<1> QED BY <1>3, <1>4, <1>5, <1>6

(* try_upgrade: adopted tabs keep their ids and have no owner. *)
LEMMA UpgradeInv == ServiceInv /\ Upgrade => ServiceInv'
<1> SUFFICES ASSUME ServiceInv, Upgrade PROVE ServiceInv'
  OBVIOUS
<1> DEFINE Adopted(t) ==
      [t EXCEPT !.controller = NoClient, !.printer = NoClient, !.entry = {},
                !.dirty = TRUE, !.gated = FALSE, !.held = FALSE]
<1>1. ASSUME NEW t, TabOK(t)
      PROVE  /\ TabOK(Adopted(t)) /\ Adopted(t).id = t.id
             /\ Adopted(t).controller = NoClient /\ Adopted(t).printer = NoClient
  BY <1>1 DEF TabOK, Tab, IsTerminal, EntryOf, NoClient, Cached
<1>2. /\ tabs' = [i \in DOMAIN tabs |-> tabs'[i]]
      /\ \A i \in DOMAIN tabs : tabs'[i] = Adopted(tabs[i])
  BY DEF Upgrade
<1> HIDE DEF Adopted
<1>3. WellFormed(tabs, nextId)
  BY DEF ServiceInv, Sound
<1>4. \A i \in DOMAIN tabs :
        /\ TabOK(tabs'[i]) /\ tabs'[i].id = tabs[i].id
        /\ tabs'[i].controller = NoClient /\ tabs'[i].printer = NoClient
  BY <1>1, <1>2, <1>3 DEF WellFormed
<1>5. WellFormed(tabs', nextId) /\ DOMAIN tabs' = DOMAIN tabs /\ Ids(tabs') = Ids(tabs)
  BY <1>2, <1>3, <1>4, InPlace
<1>6. replacing' = <<>> /\ peers' = <<>> /\ nextId' = nextId
  <2>1. replacing \in [DOMAIN replacing -> Replacement] /\ DOMAIN replacing = {}
    BY DEF ServiceInv, Sound, GoodReplacing, Upgrade
  <2>2. replacing = <<>>
    BY <2>1, EmptyOK
  <2> QED BY <2>2 DEF Upgrade
<1>7. Sound(tabs', peers', replacing', nextId')
  <2>1. Owned(tabs', peers')
    BY <1>4, <1>5 DEF Owned
  <2> QED BY <1>5, <1>6, <2>1, EmptyOK DEF Sound
<1>8. Closing(Ids(tabs'), closed', fallback', nextId')
  <2>1. NoTab \notin Ids(tabs')
    BY <1>5, IdsOK
  <2>2. nextId \in 1..(TabLimit + 1) /\ NoTab < nextId
    BY DEF ServiceInv, Scalars, NoTab
  <2> QED BY <1>6, <2>1, <2>2 DEF Upgrade, Closing
<1>9. Scalars'
  <2>1. 1 \in 1..(ClientLimit + 1) /\ FALSE \in BOOLEAN
    BY ServiceAssumption
  <2> QED BY <2>1, Zenon DEF ServiceInv, Scalars, Upgrade
<1>10. RestoredOnlyBeforeWindows' /\ NextClientIsFresh' /\ DownIsEmpty'
  BY <1>6, EmptyOK DEF Upgrade, RestoredOnlyBeforeWindows, NextClientIsFresh, DownIsEmpty
<1> QED BY <1>7, <1>8, <1>9, <1>10 DEF ServiceInv

-----------------------------------------------------------------------------
(* The turn of the loop. *)

(* Sources are what polled may hold. *)
LEMMA SourcesOK ==
  ASSUME NEW ts, NEW n, NEW ps, NEW rp, Sound(ts, ps, rp, n), NEW h \in BOOLEAN
  PROVE  Sources(ps, ts, h) \subseteq 0..(2 * ClientLimit + 1 + TabLimit)
<1>1. \A c \in DOMAIN ps : c \in 1..ClientLimit
  BY DEF Sound, GoodPeers, ClientId
<1>2. \A i \in DOMAIN ts : ts[i].id \in 1..TabLimit
  BY IdsOK DEF Sound, TabId
<1>3. \A c \in 1..ClientLimit : /\ 2 * c \in 0..(2 * ClientLimit + 1 + TabLimit)
                                /\ 2 * c + 1 \in 0..(2 * ClientLimit + 1 + TabLimit)
  BY ServiceAssumption
<1>4. \A id \in 1..TabLimit : 2 * ClientLimit + 1 + id \in 0..(2 * ClientLimit + 1 + TabLimit)
  BY ServiceAssumption
<1>5. {0, 1} \subseteq 0..(2 * ClientLimit + 1 + TabLimit)
  BY ServiceAssumption
<1> QED BY <1>1, <1>2, <1>3, <1>4, <1>5
    DEF Sources, Listener, HandinSource, ReadSource, WriteSource, TerminalSource

(* A turn of the loop closes, publishes and polls soundly. *)
LEMMA MaintainInv == ServiceInv /\ Maintain => ServiceInv'
<1> SUFFICES ASSUME ServiceInv, Maintain PROVE ServiceInv'
  OBVIOUS
<1> DEFINE rest(moved, keep) == Survivors(Relabelled(tabs, moved), keep)
           rp(moved, keep) == ReplacingOutside(replacing, Ids(tabs) \ Ids(rest(moved, keep)))
           cl == IF Ended(tabs) # {} THEN tabs[LastEnded(tabs)].id ELSE closed
           fb(moved, keep) == IF Ended(tabs) # {} THEN FallbackAmong(tabs, rest(moved, keep))
                              ELSE fallback
<1>1. PICK moved \in [OpenIds(tabs) -> Label], keep \in Keeps(tabs) :
        \/ Publish(rest(moved, keep), peers, rp(moved, keep), cl, fb(moved, keep), {})
        \/ /\ Deliver(rest(moved, keep), peers, rp(moved, keep), {},
                      Controllers(rest(moved, keep)))
           /\ closed' = cl /\ fallback' = fb(moved, keep)
           /\ saved' = saved
  BY DEF Maintain
<1>2. /\ status = "up" /\ polled' = Sources(peers', tabs', handin)
      /\ UNCHANGED <<status, nextClient, nextId, restored, handin>>
  BY DEF Maintain
<1> DEFINE ts == rest(moved, keep)
           rs == rp(moved, keep)
           f == fb(moved, keep)
<1>3. Sound(ts, peers, rs, nextId) /\ Closing(Ids(ts), cl, f, nextId)
  <2>1. /\ Sound(tabs, peers, replacing, nextId)
        /\ Closing(Ids(tabs), closed, fallback, nextId)
    BY DEF ServiceInv
  <2> QED BY <2>1, EndedOK
<1> HIDE DEF rest, rp, cl, fb, ts, rs, f
<1>4. nextId \in Nat \ {0} /\ saved \in Seq(Recipe) /\ handin \in BOOLEAN
  BY DEF ServiceInv, Scalars
<1>5. /\ Sound(tabs', peers', replacing', nextId)
      /\ Closing(Ids(tabs'), closed', fallback', nextId)
      /\ saved' \in Seq(Recipe)
      /\ Ready(peers') \subseteq Ready(peers) /\ DOMAIN peers' \subseteq DOMAIN peers
  <2>1. CASE Publish(ts, peers, rs, cl, f, {})
    BY <1>3, <1>4, <2>1, PublishOK
  <2>2. CASE /\ Deliver(ts, peers, rs, {}, Controllers(ts))
             /\ closed' = cl /\ fallback' = f /\ saved' = saved
    <3>1. /\ Sound(tabs', peers', replacing', nextId) /\ Ids(tabs') = Ids(ts)
          /\ Ready(peers') \subseteq Ready(peers) /\ DOMAIN peers' \subseteq DOMAIN peers
      BY <1>3, <2>2, DeliverOK
    <3> QED BY <1>3, <1>4, <2>2, <3>1
  <2> QED BY <1>1, <2>1, <2>2 DEF ts, rs, f
<1>6. polled' \subseteq 0..(2 * ClientLimit + 1 + TabLimit)
  BY <1>2, <1>4, <1>5, SourcesOK
<1>7. Scalars'
  BY <1>2, <1>5, <1>6, Zenon DEF ServiceInv, Scalars
<1>8. RestoredOnlyBeforeWindows' /\ NextClientIsFresh' /\ DownIsEmpty'
  BY <1>2, <1>5 DEF ServiceInv, RestoredOnlyBeforeWindows, NextClientIsFresh, DownIsEmpty
<1> QED BY <1>2, <1>5, <1>7, <1>8 DEF ServiceInv

(* An expired synchronized update only releases redrawing. *)
LEMMA RedrawDueInv == \A id : ServiceInv /\ RedrawDue(id) => ServiceInv'
<1> SUFFICES ASSUME NEW id, ServiceInv, RedrawDue(id) PROVE ServiceInv'
  OBVIOUS
<1>1. PICK i \in DOMAIN tabs : tabs' = [tabs EXCEPT ![i].held = FALSE]
  BY DEF RedrawDue
<1> DEFINE t == [tabs[i] EXCEPT !.held = FALSE]
<1>2. tabs' = [tabs EXCEPT ![i] = t]
  BY <1>1
<1>3. Sound(tabs, peers, replacing, nextId) /\ TabOK(tabs[i])
  BY DEF ServiceInv, Sound, WellFormed
<1>4. /\ TabOK(t) /\ t.id = tabs[i].id
      /\ t.controller = tabs[i].controller /\ t.printer = tabs[i].printer
  BY <1>3 DEF TabOK, Tab, IsTerminal, EntryOf
<1> HIDE DEF t
<1>5. /\ t.controller \in Ready(peers) \cup {NoClient}
      /\ t.printer \in Ready(peers) \cup {NoClient}
  BY <1>3, <1>4 DEF Sound, Owned
<1>6. Sound(tabs', peers, replacing, nextId) /\ Ids(tabs') = Ids(tabs)
  BY <1>2, <1>3, <1>4, <1>5, ChangeOK
<1>7. handin \in BOOLEAN
  BY DEF ServiceInv, Scalars
<1> QED BY <1>6, <1>7, QuietOK DEF RedrawDue

(* A new connection is not ready and takes over no one's tabs. *)
LEMMA AcceptInv == ServiceInv /\ Accept => ServiceInv'
<1> SUFFICES ASSUME ServiceInv, Accept PROVE ServiceInv'
  OBVIOUS
<1> DEFINE new == [ready |-> FALSE, queued |-> FALSE]
<1>1. /\ status = "up" /\ nextClient \in ClientId
      /\ peers' = [c \in DOMAIN peers \cup {nextClient} |->
                      IF c = nextClient THEN new ELSE peers[c]]
      /\ nextClient' = nextClient + 1
      /\ polled' \subseteq polled
      /\ UNCHANGED <<status, tabs, nextId, replacing, closed, fallback, restored,
                     handin, saved>>
  BY DEF Accept, Dispatch
<1>2. nextClient \notin DOMAIN peers /\ \A c \in DOMAIN peers : c \in 1..ClientLimit
  BY DEF ServiceInv, NextClientIsFresh, Sound, GoodPeers, ClientId
<1>3. /\ DOMAIN peers' = DOMAIN peers \cup {nextClient}
      /\ \A c \in DOMAIN peers : peers'[c] = peers[c]
      /\ peers'[nextClient] = new
  BY <1>1, <1>2
<1>4. GoodPeers(peers')
  <2>1. peers \in [DOMAIN peers -> Peer] /\ DOMAIN peers \subseteq ClientId /\ new \in Peer
    BY DEF ServiceInv, Sound, GoodPeers, Peer
  <2>2. peers' = [c \in DOMAIN peers' |-> peers'[c]]
    BY <1>1
  <2> QED BY <1>1, <1>3, <2>1, <2>2 DEF GoodPeers
<1>5. Ready(peers') = Ready(peers)
  <2>1. ~peers'[nextClient].ready
    BY <1>3
  <2> QED BY <1>2, <1>3, <2>1 DEF Ready
<1>6. Sound(tabs, peers', replacing, nextId)
  <2>1. Owned(tabs, peers') /\ GoodReplacing(replacing, peers', tabs)
    BY <1>3, <1>5 DEF ServiceInv, Sound, Owned, GoodReplacing
  <2> QED BY <1>4, <2>1 DEF ServiceInv, Sound
<1>7. nextClient' \in 1..(ClientLimit + 1)
  BY <1>1, ServiceAssumption DEF ClientId
<1>8. Scalars'
  <2>1. polled' \subseteq 0..(2 * ClientLimit + 1 + TabLimit)
    BY <1>1 DEF ServiceInv, Scalars
  <2> QED BY <1>1, <1>7, <2>1, Zenon DEF ServiceInv, Scalars
<1>9. NextClientIsFresh'
  BY <1>1, <1>3 DEF ServiceInv, NextClientIsFresh, ClientId, Sound, GoodPeers
<1>10. RestoredOnlyBeforeWindows' /\ DownIsEmpty'
  BY <1>1, <1>5 DEF ServiceInv, RestoredOnlyBeforeWindows, DownIsEmpty
<1>11. Closing(Ids(tabs), closed, fallback, nextId)'
  BY <1>1 DEF ServiceInv
<1> QED BY <1>1, <1>6, <1>8, <1>9, <1>10, <1>11 DEF ServiceInv

(* A tab under a new id does not disturb an announcement. *)
LEMMA ClosingGrows ==
  ASSUME ServiceInv, nextId \in TabId, NEW ids, ids = Ids(tabs) \cup {nextId}
  PROVE  Closing(ids, closed, fallback, nextId + 1) /\ nextId + 1 \in 1..(TabLimit + 1)
<1>1. closed \in TabId \cup {NoTab} /\ closed < nextId /\ closed \notin Ids(tabs)
  BY DEF ServiceInv, Closing
<1>2. closed # nextId /\ closed < nextId + 1
  BY <1>1 DEF TabId, NoTab
<1>3. nextId + 1 \in 1..(TabLimit + 1)
  BY ServiceAssumption DEF TabId
<1> QED BY <1>1, <1>2, <1>3 DEF ServiceInv, Closing

(* receive_handoff appends an ownerless tab under a fresh id. *)
LEMMA ReceiveHandoffInv == ServiceInv /\ ReceiveHandoff => ServiceInv'
<1> SUFFICES ASSUME ServiceInv, ReceiveHandoff PROVE ServiceInv'
  OBVIOUS
<1>1. PICK t \in {Shell(nextId, l, NoClient) : l \in Label}
                  \cup {Browser(nextId, u) : u \in Url} : tabs' = Append(tabs, t)
  BY DEF ReceiveHandoff
<1>2. /\ status = "up" /\ nextId \in TabId /\ nextId' = nextId + 1 /\ handin' = FALSE
      /\ polled' \subseteq polled
      /\ UNCHANGED <<status, peers, nextClient, replacing, closed, fallback, restored,
                     saved>>
  BY DEF ReceiveHandoff, DispatchOnce
<1>3. TabOK(t) /\ t.id = nextId /\ t.controller = NoClient /\ t.printer = NoClient
  <2>1. NoClient \in ClientId \cup {NoClient}
    OBVIOUS
  <2>2. ASSUME NEW l \in Label, t = Shell(nextId, l, NoClient)
        PROVE  TabOK(t) /\ t.id = nextId /\ t.controller = NoClient /\ t.printer = NoClient
    <3>1. l \in Label \cup {Blank}
      OBVIOUS
    <3> QED BY <1>2, <2>1, <2>2, <3>1, ShellOK
  <2>3. ASSUME NEW u \in Url, t = Browser(nextId, u)
        PROVE  TabOK(t) /\ t.id = nextId /\ t.controller = NoClient /\ t.printer = NoClient
    BY <1>2, <2>3, BrowserOK
  <2> QED BY <2>2, <2>3
<1>4. /\ Sound(tabs', peers, replacing, nextId + 1)
      /\ Ids(tabs') = Ids(tabs) \cup {nextId}
  <2>1. t.controller \in Ready(peers) \cup {NoClient} /\ t.printer \in Ready(peers) \cup {NoClient}
    BY <1>3
  <2> QED BY <1>1, <1>2, <1>3, <2>1, AppendOK DEF ServiceInv
<1>5. Closing(Ids(tabs'), closed, fallback, nextId + 1) /\ nextId + 1 \in 1..(TabLimit + 1)
  BY <1>2, <1>4, ClosingGrows
<1>6. Scalars'
  <2>1. polled' \subseteq 0..(2 * ClientLimit + 1 + TabLimit)
    BY <1>2 DEF ServiceInv, Scalars
  <2>2. FALSE \in BOOLEAN
    OBVIOUS
  <2> QED BY <1>2, <1>5, <2>1, <2>2, Zenon DEF ServiceInv, Scalars
<1>7. RestoredOnlyBeforeWindows' /\ NextClientIsFresh' /\ DownIsEmpty'
  BY <1>2 DEF ServiceInv, RestoredOnlyBeforeWindows, NextClientIsFresh, DownIsEmpty
<1> QED BY <1>2, <1>4, <1>5, <1>6, <1>7 DEF ServiceInv

(* terminal_ready marks what it changes in the catalog. *)
LEMMA TerminalReadyInv == \A id : ServiceInv /\ TerminalReady(id) => ServiceInv'
<1> SUFFICES ASSUME NEW id, ServiceInv, TerminalReady(id) PROVE ServiceInv'
  OBVIOUS
<1>1. PICK i \in DOMAIN tabs, l \in Label, h \in {FALSE, SyncUpdates},
           p \in {"open", "stopped"} :
        /\ tabs[i].pty = "open"
        /\ Deliver([tabs EXCEPT ![i] = Parsed(@, l, h, p)], peers, replacing, {},
                   {tabs[i].controller, tabs[i].printer} \ {NoClient})
  BY DEF TerminalReady
<1> DEFINE t == Parsed(tabs[i], l, h, p)
<1>2. Sound(tabs, peers, replacing, nextId) /\ TabOK(tabs[i])
  BY DEF ServiceInv, Sound, WellFormed
<1>3. /\ TabOK(t) /\ t.id = tabs[i].id
      /\ t.controller = tabs[i].controller /\ t.printer = tabs[i].printer
  <2>1. h \in BOOLEAN
    BY ServiceAssumption
  <2> QED BY <1>1, <1>2, <2>1 DEF Parsed, TabOK, Tab, IsTerminal, EntryOf
<1>4. [tabs EXCEPT ![i] = Parsed(@, l, h, p)] = [tabs EXCEPT ![i] = t]
  OBVIOUS
<1> HIDE DEF t
<1>5. Sound([tabs EXCEPT ![i] = t], peers, replacing, nextId) /\ Ids([tabs EXCEPT ![i] = t]) = Ids(tabs)
  <2>1. t.controller \in Ready(peers) \cup {NoClient} /\ t.printer \in Ready(peers) \cup {NoClient}
    BY <1>2, <1>3 DEF Sound, Owned
  <2> QED BY <1>2, <1>3, <2>1, ChangeOK
<1>6. /\ Sound(tabs', peers', replacing', nextId) /\ Ids(tabs') = Ids(tabs)
      /\ Ready(peers') \subseteq Ready(peers) /\ DOMAIN peers' \subseteq DOMAIN peers
  <2> DEFINE us == [tabs EXCEPT ![i] = t]
  <2>1. Deliver(us, peers, replacing, {}, {tabs[i].controller, tabs[i].printer} \ {NoClient})
    BY <1>1, <1>4
  <2>2. Sound(us, peers, replacing, nextId) /\ Ids(us) = Ids(tabs)
    BY <1>5
  <2> HIDE DEF us
  <2> QED BY <2>1, <2>2, DeliverOK
<1>7. /\ status = "up" /\ polled' \subseteq polled
      /\ UNCHANGED <<status, nextClient, nextId, closed, fallback, restored, handin, saved>>
  BY DEF TerminalReady, DispatchOnce
<1>8. handin' \in BOOLEAN
  BY <1>7 DEF ServiceInv, Scalars
<1> QED BY <1>6, <1>7, <1>8, QuietOK

-----------------------------------------------------------------------------
(* Clients without a tab. *)

(* client_flush and the conversion it releases. *)
LEMMA ClientWritableInv == \A c : ServiceInv /\ ClientWritable(c) => ServiceInv'
<1> SUFFICES ASSUME NEW c, ServiceInv, ClientWritable(c) PROVE ServiceInv'
  OBVIOUS
<1>1. /\ status = "up" /\ polled' \subseteq polled
      /\ c \in DOMAIN peers /\ ClientFlush(c, peers, replacing)
      /\ UNCHANGED <<status, nextClient, nextId, closed, fallback, restored, handin, saved>>
  BY DEF ClientWritable, DispatchOnce
<1>2. Sound(tabs, peers, replacing, nextId) /\ handin' \in BOOLEAN
  BY <1>1 DEF ServiceInv, Scalars
<1>3. /\ Sound(tabs', peers', replacing', nextId) /\ Ids(tabs') = Ids(tabs)
      /\ Ready(peers') \subseteq Ready(peers) /\ DOMAIN peers' \subseteq DOMAIN peers
  BY <1>1, <1>2, ClientFlushOK
<1> QED BY <1>1, <1>2, <1>3, QuietOK

(* A client that goes away is forgotten by every tab. *)
LEMMA DisconnectInv == \A c : ServiceInv /\ Disconnect(c) => ServiceInv'
<1> SUFFICES ASSUME NEW c, ServiceInv, Disconnect(c) PROVE ServiceInv'
  OBVIOUS
<1>1. /\ status = "up" /\ polled' \subseteq polled /\ DropClient(c)
      /\ UNCHANGED <<status, nextClient, nextId, closed, fallback, restored, handin, saved>>
  BY DEF Disconnect, Dispatch
<1>2. Sound(tabs, peers, replacing, nextId) /\ handin' \in BOOLEAN
  BY <1>1 DEF ServiceInv, Scalars
<1>3. /\ Sound(tabs', peers', replacing', nextId) /\ Ids(tabs') = Ids(tabs)
      /\ Ready(peers') \subseteq Ready(peers) /\ DOMAIN peers' \subseteq DOMAIN peers
  BY <1>1, <1>2, DropClientOK
<1> QED BY <1>1, <1>2, <1>3, QuietOK

(* What every packet handler may rely on. *)
LEMMA PacketOK ==
  ASSUME NEW c, ServiceInv, Packet(c)
  PROVE  /\ status = "up" /\ polled' \subseteq polled
         /\ polled' \subseteq 0..(2 * ClientLimit + 1 + TabLimit)
         /\ c \in DOMAIN peers /\ c \in ClientId
         /\ Sound(tabs, peers, replacing, nextId)
<1>1. status = "up" /\ polled' \subseteq polled /\ c \in DOMAIN peers
  BY DEF Packet, Dispatch
<1> QED BY <1>1 DEF ServiceInv, Scalars, Sound, GoodPeers

(* Requests that are only answered. *)
LEMMA AnswerInv == \A c : ServiceInv /\ (Query(c) \/ Handin(c)) => ServiceInv'
<1> SUFFICES ASSUME NEW c, ServiceInv, Query(c) \/ Handin(c) PROVE ServiceInv'
  OBVIOUS
<1>1. /\ Packet(c) /\ Deliver(tabs, peers, replacing, {c}, {})
      /\ handin' \in {handin, TRUE}
      /\ UNCHANGED <<status, nextClient, nextId, closed, fallback, restored, saved>>
  BY DEF Query, Handin
<1>2. /\ status = "up" /\ polled' \subseteq polled
      /\ Sound(tabs, peers, replacing, nextId)
  BY <1>1, PacketOK
<1>3. handin' \in BOOLEAN
  BY <1>1 DEF ServiceInv, Scalars
<1>4. /\ Sound(tabs', peers', replacing', nextId) /\ Ids(tabs') = Ids(tabs)
      /\ Ready(peers') \subseteq Ready(peers) /\ DOMAIN peers' \subseteq DOMAIN peers
  BY <1>1, <1>2, DeliverOK
<1> QED BY <1>1, <1>2, <1>3, <1>4, QuietOK

(* Handing every tab off leaves no tab behind the announcement. *)
LEMMA HandoffInv == \A c : ServiceInv /\ Handoff(c) => ServiceInv'
<1> SUFFICES ASSUME NEW c, ServiceInv, Handoff(c) PROVE ServiceInv'
  OBVIOUS
<1>1. /\ Packet(c) /\ DOMAIN replacing = {} /\ tabs # <<>>
      /\ Deliver(<<>>, peers, replacing, {c}, {})
      /\ closed' = tabs[Len(tabs)].id /\ fallback' = NoTab
      /\ UNCHANGED <<status, nextClient, nextId, restored, handin, saved>>
  BY DEF Handoff
<1>2. /\ status = "up" /\ polled' \subseteq 0..(2 * ClientLimit + 1 + TabLimit)
      /\ Sound(tabs, peers, replacing, nextId)
  BY <1>1, PacketOK
<1>3. Sound(<<>>, peers, replacing, nextId)
  <2>1. GoodReplacing(replacing, peers, <<>>)
    BY <1>1, <1>2 DEF Sound, GoodReplacing
  <2>2. Owned(<<>>, peers) /\ WellFormed(<<>>, nextId)
    BY EmptyOK DEF Owned
  <2> QED BY <1>2, <2>1, <2>2 DEF Sound
<1>4. /\ Sound(tabs', peers', replacing', nextId) /\ Ids(tabs') = Ids(<<>>)
      /\ Ready(peers') \subseteq Ready(peers) /\ DOMAIN peers' \subseteq DOMAIN peers
  BY <1>1, <1>3, DeliverOK
<1>5. Closing(Ids(tabs'), closed', fallback', nextId)
  <2>1. Len(tabs) \in DOMAIN tabs
    BY <1>1, <1>2, SequenceDomain DEF Sound, WellFormed
  <2>2. closed' \in TabId /\ closed' < nextId /\ closed' # NoTab
    BY <1>1, <1>2, <2>1, IdsOK DEF Sound, TabId, NoTab
  <2> QED BY <1>1, <1>4, <2>2, EmptyOK DEF Closing
<1>6. Scalars'
  BY <1>1, <1>2, Zenon DEF ServiceInv, Scalars
<1>7. RestoredOnlyBeforeWindows' /\ NextClientIsFresh' /\ DownIsEmpty'
  BY <1>1, <1>2, <1>4 DEF ServiceInv, RestoredOnlyBeforeWindows, NextClientIsFresh, DownIsEmpty
<1> QED BY <1>1, <1>4, <1>5, <1>6, <1>7 DEF ServiceInv

(* browser_replace records a replacement of a tab that exists. *)
LEMMA BrowserReplaceInv == \A c : ServiceInv /\ BrowserReplace(c) => ServiceInv'
<1> SUFFICES ASSUME NEW c, ServiceInv, BrowserReplace(c) PROVE ServiceInv'
  OBVIOUS
<1>1. PICK i \in DOMAIN tabs, u \in Url :
        ClientFlush(c, peers,
            [d \in DOMAIN replacing \cup {c} |->
                IF d = c THEN [tab |-> tabs[i].id, url |-> u] ELSE replacing[d]])
  BY DEF BrowserReplace
<1>2. /\ Packet(c)
      /\ UNCHANGED <<status, nextClient, nextId, closed, fallback, restored, handin, saved>>
  BY DEF BrowserReplace
<1>3. /\ status = "up" /\ polled' \subseteq polled /\ c \in DOMAIN peers
      /\ Sound(tabs, peers, replacing, nextId)
  BY <1>2, PacketOK
<1> DEFINE r == [tab |-> tabs[i].id, url |-> u]
           rp == [d \in DOMAIN replacing \cup {c} |-> IF d = c THEN r ELSE replacing[d]]
<1>4. r \in Replacement /\ r.tab \in Ids(tabs)
  <2>1. tabs[i].id \in TabId
    BY <1>3, IdsOK DEF Sound
  <2> QED BY <2>1 DEF Replacement, Ids
<1>5. ClientFlush(c, peers, rp)
  BY <1>1
<1> HIDE DEF r
<1>6. GoodReplacing(rp, peers, tabs)
  BY <1>3, <1>4 DEF Sound, GoodReplacing
<1> HIDE DEF rp
<1>7. Sound(tabs, peers, rp, nextId)
  BY <1>3, <1>6 DEF Sound
<1>8. /\ Sound(tabs', peers', replacing', nextId) /\ Ids(tabs') = Ids(tabs)
      /\ Ready(peers') \subseteq Ready(peers) /\ DOMAIN peers' \subseteq DOMAIN peers
  BY <1>3, <1>5, <1>7, ClientFlushOK
<1>9. handin' \in BOOLEAN
  BY <1>2 DEF ServiceInv, Scalars
<1> QED BY <1>2, <1>3, <1>8, <1>9, QuietOK

-----------------------------------------------------------------------------
(* Windows that attach. *)

(* ATTACH ends the offer of the restored workspace. *)
LEMMA AttachInv == \A c : ServiceInv /\ Attach(c) => ServiceInv'
<1> SUFFICES ASSUME NEW c, ServiceInv, Attach(c) PROVE ServiceInv'
  OBVIOUS
<1> DEFINE ps == [peers EXCEPT ![c].ready = TRUE]
           now == Catalogued(tabs)
<1>1. /\ Packet(c) /\ Deliver(now, ps, replacing, {c}, Controllers(tabs))
      /\ restored' = FALSE
      /\ UNCHANGED <<status, nextClient, nextId, closed, fallback, handin, saved>>
  BY DEF Attach
<1>2. /\ status = "up" /\ polled' \subseteq 0..(2 * ClientLimit + 1 + TabLimit)
      /\ c \in DOMAIN peers /\ Sound(tabs, peers, replacing, nextId)
  BY <1>1, PacketOK
<1>3. Sound(tabs, ps, replacing, nextId)
  BY <1>2, ReadyOK
<1>4. DOMAIN ps = DOMAIN peers
  OBVIOUS
<1> HIDE DEF ps
<1>5. Sound(now, ps, replacing, nextId) /\ Ids(now) = Ids(tabs)
  BY <1>3, CataloguedOK
<1> HIDE DEF now
<1>6. /\ Sound(tabs', peers', replacing', nextId) /\ Ids(tabs') = Ids(tabs)
      /\ DOMAIN peers' \subseteq DOMAIN peers
  BY <1>1, <1>4, <1>5, DeliverOK
<1>7. Scalars'
  <2>1. FALSE \in BOOLEAN
    OBVIOUS
  <2> QED BY <1>1, <1>2, <2>1, Zenon DEF ServiceInv, Scalars
<1>8. Closing(Ids(tabs), closed, fallback, nextId)'
  BY <1>1, <1>6 DEF ServiceInv
<1>9. RestoredOnlyBeforeWindows' /\ NextClientIsFresh' /\ DownIsEmpty'
  BY <1>1, <1>2, <1>6 DEF ServiceInv, RestoredOnlyBeforeWindows, NextClientIsFresh, DownIsEmpty
<1> QED BY <1>1, <1>6, <1>7, <1>8, <1>9 DEF ServiceInv

(* A client that asks for a new tab becomes ready and the tab is published. *)
LEMMA NewTabOK ==
  ASSUME NEW c, ServiceInv, Packet(c), nextId \in TabId,
         NEW t, TabOK(t), t.id = nextId,
         t.controller \in {c, NoClient}, t.printer \in {c, NoClient},
         Publish(Append(tabs, t), [peers EXCEPT ![c].ready = TRUE], replacing,
                 closed, fallback, {c}),
         nextId' = nextId + 1, restored' = FALSE,
         UNCHANGED <<status, nextClient, handin>>
  PROVE  ServiceInv'
<1> DEFINE ps == [peers EXCEPT ![c].ready = TRUE]
           ts == Append(tabs, t)
<1>1. /\ status = "up" /\ polled' \subseteq 0..(2 * ClientLimit + 1 + TabLimit)
      /\ c \in DOMAIN peers /\ Sound(tabs, peers, replacing, nextId)
  BY PacketOK
<1>2. Sound(tabs, ps, replacing, nextId) /\ c \in Ready(ps)
  BY <1>1, ReadyOK
<1>3. DOMAIN ps = DOMAIN peers /\ Publish(ts, ps, replacing, closed, fallback, {c})
  OBVIOUS
<1> HIDE DEF ps
<1>4. /\ t.controller \in Ready(ps) \cup {NoClient}
      /\ t.printer \in Ready(ps) \cup {NoClient}
  BY <1>2
<1>5. Sound(ts, ps, replacing, nextId + 1) /\ Ids(ts) = Ids(tabs) \cup {nextId}
  BY <1>2, <1>4, AppendOK
<1> HIDE DEF ts
<1>6. Closing(Ids(ts), closed, fallback, nextId + 1) /\ nextId + 1 \in 1..(TabLimit + 1)
  BY <1>5, ClosingGrows
<1>7. restored' \in BOOLEAN /\ (restored' => Ready(ps) = {})
  OBVIOUS
<1> QED BY <1>1, <1>3, <1>5, <1>6, <1>7, PublishingOK

(* NEW_BROWSER appends a browser tab. *)
LEMMA NewBrowserInv == \A c : ServiceInv /\ NewBrowser(c) => ServiceInv'
<1> SUFFICES ASSUME NEW c, ServiceInv, NewBrowser(c) PROVE ServiceInv'
  OBVIOUS
<1>1. PICK u \in Url :
        Publish(Append(tabs, Browser(nextId, u)), [peers EXCEPT ![c].ready = TRUE],
                replacing, closed, fallback, {c})
  BY DEF NewBrowser
<1>2. /\ Packet(c) /\ nextId \in TabId /\ nextId' = nextId + 1 /\ restored' = FALSE
      /\ UNCHANGED <<status, nextClient, handin>>
  BY DEF NewBrowser
<1> DEFINE t == Browser(nextId, u)
<1>3. TabOK(t) /\ t.id = nextId /\ t.controller = NoClient /\ t.printer = NoClient
  BY <1>2, BrowserOK
<1>4. Publish(Append(tabs, t), [peers EXCEPT ![c].ready = TRUE], replacing, closed, fallback, {c})
  BY <1>1
<1> HIDE DEF t
<1> QED BY <1>2, <1>3, <1>4, NewTabOK

(* HELLO and NEW append a shell that the ready client controls. *)
LEMMA NewShellInv == \A c : ServiceInv /\ NewShell(c) => ServiceInv'
<1> SUFFICES ASSUME NEW c, ServiceInv, NewShell(c) PROVE ServiceInv'
  OBVIOUS
<1>1. PICK l \in Label, p \in {c, NoClient} :
        Publish(Append(tabs, [Shell(nextId, l, c) EXCEPT !.printer = p]),
                [peers EXCEPT ![c].ready = TRUE], replacing, closed, fallback, {c})
  BY DEF NewShell
<1>2. /\ Packet(c) /\ nextId \in TabId /\ nextId' = nextId + 1 /\ restored' = FALSE
      /\ UNCHANGED <<status, nextClient, handin>>
  BY DEF NewShell
<1> DEFINE t == PrintingShell(nextId, l, c, p)
<1>3. c \in ClientId
  BY <1>2, PacketOK
<1>4. TabOK(t) /\ t.id = nextId /\ t.controller = c /\ t.printer = p
  BY <1>2, <1>3, PrintingShellOK
<1>5. Publish(Append(tabs, t), [peers EXCEPT ![c].ready = TRUE], replacing, closed, fallback, {c})
  BY <1>1 DEF PrintingShell
<1> HIDE DEF t
<1> QED BY <1>2, <1>4, <1>5, NewTabOK

(* take_control by a ready client is sound on a terminal. *)
LEMMA TakeControlOK ==
  ASSUME NEW ts, NEW n, NEW ps, NEW rp, Sound(ts, ps, rp, n),
         NEW i \in DOMAIN ts, IsTerminal(ts[i]), NEW c \in Ready(ps)
  PROVE  /\ Sound(TakeControl(ts, i, c), ps, rp, n)
         /\ Ids(TakeControl(ts, i, c)) = Ids(ts)
<1> DEFINE t == [ts[i] EXCEPT !.controller = c]
<1>1. TabOK(ts[i]) /\ c \in ClientId
  BY DEF Sound, WellFormed, GoodPeers, Ready
<1>2. TabOK(t) /\ t.id = ts[i].id /\ t.controller = c /\ t.printer = ts[i].printer
  BY <1>1 DEF TabOK, Tab, IsTerminal, EntryOf
<1>3. TakeControl(ts, i, c) = [ts EXCEPT ![i] = t]
  BY DEF TakeControl
<1> HIDE DEF t
<1>4. t.controller \in Ready(ps) \cup {NoClient} /\ t.printer \in Ready(ps) \cup {NoClient}
  BY <1>2 DEF Sound, Owned
<1>5. Sound([ts EXCEPT ![i] = t], ps, rp, n) /\ Ids([ts EXCEPT ![i] = t]) = Ids(ts)
  BY <1>2, <1>4, ChangeOK
<1> QED BY <1>3, <1>5

(* The first bare HELLO takes control of a terminal only. *)
LEMMA HelloReusedInv == \A c : ServiceInv /\ HelloReused(c) => ServiceInv'
<1> SUFFICES ASSUME NEW c, ServiceInv, HelloReused(c) PROVE ServiceInv'
  OBVIOUS
<1> DEFINE ps == [peers EXCEPT ![c].ready = TRUE]
           ts == IF IsTerminal(tabs[1]) THEN TakeControl(tabs, 1, c) ELSE tabs
           told == {c} \cup (IF IsTerminal(tabs[1]) THEN Ousted(tabs, 1, c) ELSE {})
<1>1. /\ Packet(c) /\ tabs # <<>> /\ Publish(ts, ps, replacing, closed, fallback, told)
      /\ restored' = FALSE
      /\ UNCHANGED <<status, nextClient, nextId, handin>>
  BY DEF HelloReused
<1>2. /\ status = "up" /\ polled' \subseteq 0..(2 * ClientLimit + 1 + TabLimit)
      /\ c \in DOMAIN peers /\ Sound(tabs, peers, replacing, nextId)
  BY <1>1, PacketOK
<1>3. Sound(tabs, ps, replacing, nextId) /\ c \in Ready(ps)
  BY <1>2, ReadyOK
<1>4. DOMAIN ps = DOMAIN peers
  OBVIOUS
<1> HIDE DEF ps, told
<1>5. 1 \in DOMAIN tabs
  BY <1>1, <1>2, SequenceDomain DEF Sound, WellFormed
<1>6. Sound(ts, ps, replacing, nextId) /\ Ids(ts) = Ids(tabs)
  <2>1. CASE IsTerminal(tabs[1])
    BY <1>3, <1>5, <2>1, TakeControlOK
  <2>2. CASE ~IsTerminal(tabs[1])
    BY <1>3, <2>2
  <2> QED BY <2>1, <2>2
<1> HIDE DEF ts
<1>7. Closing(Ids(ts), closed, fallback, nextId) /\ nextId' \in 1..(TabLimit + 1)
  BY <1>1, <1>6 DEF ServiceInv, Scalars
<1>8. restored' \in BOOLEAN /\ (restored' => Ready(ps) = {})
  BY <1>1
<1> QED BY <1>1, <1>2, <1>4, <1>6, <1>7, <1>8, PublishingOK

-----------------------------------------------------------------------------
(* Ready clients and their tabs. *)

(* Delivering after a change to one tab that keeps its id. *)
LEMMA TabChangeOK ==
  ASSUME NEW c, ServiceInv, Packet(c), NEW i \in DOMAIN tabs, NEW t,
         TabOK(t), t.id = tabs[i].id,
         t.controller \in Ready(peers) \cup {NoClient},
         t.printer \in Ready(peers) \cup {NoClient},
         NEW us, us = [tabs EXCEPT ![i] = t], NEW must, NEW may,
         Deliver(us, peers, replacing, must, may),
         UNCHANGED <<status, nextClient, nextId, closed, fallback, restored, handin, saved>>
  PROVE  ServiceInv'
<1>1. status = "up" /\ polled' \subseteq polled /\ Sound(tabs, peers, replacing, nextId)
  BY PacketOK
<1>2. Sound(us, peers, replacing, nextId) /\ Ids(us) = Ids(tabs)
  BY <1>1, ChangeOK
<1>3. /\ Sound(tabs', peers', replacing', nextId) /\ Ids(tabs') = Ids(tabs)
      /\ Ready(peers') \subseteq Ready(peers) /\ DOMAIN peers' \subseteq DOMAIN peers
  BY <1>2, DeliverOK
<1>4. handin' \in BOOLEAN
  BY DEF ServiceInv, Scalars
<1> QED BY <1>1, <1>3, <1>4, QuietOK

(* What a tab packet's handler may rely on. *)
LEMMA TabPacketOK ==
  ASSUME NEW c, NEW i, ServiceInv, TabPacket(c, i)
  PROVE  /\ Packet(c) /\ i \in DOMAIN tabs /\ TabOK(tabs[i])
         /\ c \in Ready(peers) /\ c \in ClientId
         /\ tabs[i].controller \in Ready(peers) \cup {NoClient}
         /\ tabs[i].printer \in Ready(peers) \cup {NoClient}
         /\ Sound(tabs, peers, replacing, nextId)
<1>1. Packet(c) /\ peers[c].ready /\ i \in DOMAIN tabs
  BY DEF TabPacket
<1>2. c \in DOMAIN peers /\ c \in ClientId /\ Sound(tabs, peers, replacing, nextId)
  BY <1>1, PacketOK
<1> QED BY <1>1, <1>2 DEF Sound, WellFormed, Owned, Ready

(* NAVIGATE changes a browser tab and marks it dirty. *)
LEMMA NavigateInv == \A c, i : ServiceInv /\ Navigate(c, i) => ServiceInv'
<1> SUFFICES ASSUME NEW c, NEW i, ServiceInv, Navigate(c, i) PROVE ServiceInv'
  OBVIOUS
<1>1. PICK u \in Url :
        Publish([tabs EXCEPT ![i].url = u, ![i].dirty = TRUE], peers, replacing,
                closed, fallback, {})
  BY DEF Navigate
<1>2. /\ TabPacket(c, i) /\ ~IsTerminal(tabs[i])
      /\ UNCHANGED <<status, nextClient, nextId, restored, handin>>
  BY DEF Navigate
<1>3. /\ Packet(c) /\ i \in DOMAIN tabs /\ TabOK(tabs[i])
      /\ tabs[i].controller \in Ready(peers) \cup {NoClient}
      /\ tabs[i].printer \in Ready(peers) \cup {NoClient}
      /\ Sound(tabs, peers, replacing, nextId)
  BY <1>2, TabPacketOK
<1>4. status = "up" /\ polled' \subseteq 0..(2 * ClientLimit + 1 + TabLimit)
  BY <1>3, PacketOK
<1> DEFINE t == [tabs[i] EXCEPT !.url = u, !.dirty = TRUE]
           us == [tabs EXCEPT ![i] = t]
<1>5. /\ TabOK(t) /\ t.id = tabs[i].id
      /\ t.controller = tabs[i].controller /\ t.printer = tabs[i].printer
  BY <1>2, <1>3, ServiceAssumption DEF TabOK, Tab, IsTerminal, EntryOf
<1>6. [tabs EXCEPT ![i].url = u, ![i].dirty = TRUE] = us
  <2>1. tabs \in [DOMAIN tabs -> Tab] /\ tabs[i] \in Tab
    BY <1>3, SequenceDomain DEF Sound, WellFormed
  <2> QED BY <1>3, <2>1 DEF Tab
<1>7. Publish(us, peers, replacing, closed, fallback, {})
  BY <1>1, <1>6
<1> HIDE DEF t
<1>8. Sound(us, peers, replacing, nextId) /\ Ids(us) = Ids(tabs)
  BY <1>3, <1>5, ChangeOK
<1> HIDE DEF us
<1>9. /\ Closing(Ids(us), closed, fallback, nextId) /\ nextId' \in 1..(TabLimit + 1)
      /\ restored' \in BOOLEAN /\ (restored' => Ready(peers) = {})
  BY <1>2, <1>8 DEF ServiceInv, Scalars, RestoredOnlyBeforeWindows
<1> QED BY <1>2, <1>4, <1>7, <1>8, <1>9, PublishingOK

(* CONTROL makes a ready client controller and print receiver. *)
LEMMA ControlInv == \A c, i : ServiceInv /\ Control(c, i) => ServiceInv'
<1> SUFFICES ASSUME NEW c, NEW i, ServiceInv, Control(c, i) PROVE ServiceInv'
  OBVIOUS
<1> DEFINE us == [TakeControl(tabs, i, c) EXCEPT ![i].printer = c]
           t == [tabs[i] EXCEPT !.controller = c, !.printer = c]
<1>1. /\ TabPacket(c, i) /\ IsTerminal(tabs[i])
      /\ Deliver(us, peers, replacing, Ousted(tabs, i, c), {c})
      /\ UNCHANGED <<status, nextClient, nextId, closed, fallback, restored, handin, saved>>
  BY DEF Control, TerminalPacket
<1>2. /\ Packet(c) /\ i \in DOMAIN tabs /\ TabOK(tabs[i]) /\ c \in Ready(peers) /\ c \in ClientId
      /\ Sound(tabs, peers, replacing, nextId)
  BY <1>1, TabPacketOK
<1>3. TabOK(t) /\ t.id = tabs[i].id /\ t.controller = c /\ t.printer = c
  BY <1>1, <1>2 DEF TabOK, Tab, IsTerminal, EntryOf
<1>4. us = [tabs EXCEPT ![i] = t]
  <2>1. tabs \in [DOMAIN tabs -> Tab] /\ tabs[i] \in Tab
    BY <1>2, SequenceDomain DEF Sound, WellFormed
  <2> QED BY <1>2, <2>1 DEF Tab, TakeControl
<1> HIDE DEF t, us
<1> QED BY <1>1, <1>2, <1>3, <1>4, TabChangeOK

(* FOCUS, INPUT and SCROLL make a ready client the controller. *)
LEMMA ClaimInv == \A c, i : ServiceInv /\ Claim(c, i) => ServiceInv'
<1> SUFFICES ASSUME NEW c, NEW i, ServiceInv, Claim(c, i) PROVE ServiceInv'
  OBVIOUS
<1>1. PICK p \in {tabs[i].pty, "stopped"} :
        Deliver([TakeControl(tabs, i, c) EXCEPT ![i].pty = p], peers, replacing,
                Ousted(tabs, i, c), {c})
  BY DEF Claim
<1> DEFINE us == [TakeControl(tabs, i, c) EXCEPT ![i].pty = p]
           t == [tabs[i] EXCEPT !.controller = c, !.pty = p]
<1>2. /\ TabPacket(c, i) /\ IsTerminal(tabs[i])
      /\ UNCHANGED <<status, nextClient, nextId, closed, fallback, restored, handin, saved>>
  BY DEF Claim, TerminalPacket
<1>3. /\ Packet(c) /\ i \in DOMAIN tabs /\ TabOK(tabs[i]) /\ c \in Ready(peers) /\ c \in ClientId
      /\ tabs[i].printer \in Ready(peers) \cup {NoClient}
      /\ Sound(tabs, peers, replacing, nextId)
  BY <1>2, TabPacketOK
<1>4. TabOK(t) /\ t.id = tabs[i].id /\ t.controller = c /\ t.printer = tabs[i].printer
  BY <1>2, <1>3 DEF TabOK, Tab, IsTerminal, EntryOf
<1>5. us = [tabs EXCEPT ![i] = t]
  <2>1. tabs \in [DOMAIN tabs -> Tab] /\ tabs[i] \in Tab
    BY <1>3, SequenceDomain DEF Sound, WellFormed
  <2> QED BY <1>3, <2>1 DEF Tab, TakeControl
<1>6. Deliver(us, peers, replacing, Ousted(tabs, i, c), {c})
  BY <1>1
<1> HIDE DEF t, us
<1> QED BY <1>2, <1>3, <1>4, <1>5, <1>6, TabChangeOK

(* RESIZE and FOCUS_STATE may stop the PTY. *)
LEMMA AttendInv == \A c, i : ServiceInv /\ Attend(c, i) => ServiceInv'
<1> SUFFICES ASSUME NEW c, NEW i, ServiceInv, Attend(c, i) PROVE ServiceInv'
  OBVIOUS
<1>1. PICK p \in {tabs[i].pty, "stopped"} :
        Deliver([tabs EXCEPT ![i].pty = p], peers, replacing, {}, {c})
  BY DEF Attend
<1> DEFINE us == [tabs EXCEPT ![i].pty = p]
           t == [tabs[i] EXCEPT !.pty = p]
<1>2. /\ TabPacket(c, i) /\ IsTerminal(tabs[i])
      /\ UNCHANGED <<status, nextClient, nextId, closed, fallback, restored, handin, saved>>
  BY DEF Attend, TerminalPacket
<1>3. /\ Packet(c) /\ i \in DOMAIN tabs /\ TabOK(tabs[i])
      /\ tabs[i].controller \in Ready(peers) \cup {NoClient}
      /\ tabs[i].printer \in Ready(peers) \cup {NoClient}
  BY <1>2, TabPacketOK
<1>4. /\ TabOK(t) /\ t.id = tabs[i].id
      /\ t.controller = tabs[i].controller /\ t.printer = tabs[i].printer
  BY <1>2, <1>3 DEF TabOK, Tab, IsTerminal, EntryOf
<1>5. us = [tabs EXCEPT ![i] = t]
  OBVIOUS
<1>6. Deliver(us, peers, replacing, {}, {c})
  BY <1>1
<1> HIDE DEF t, us
<1> QED BY <1>2, <1>3, <1>4, <1>5, <1>6, TabChangeOK

(* RELEASE leaves the tab without a controller. *)
LEMMA ReleaseInv == \A c, i : ServiceInv /\ Release(c, i) => ServiceInv'
<1> SUFFICES ASSUME NEW c, NEW i, ServiceInv, Release(c, i) PROVE ServiceInv'
  OBVIOUS
<1> DEFINE t == [tabs[i] EXCEPT !.controller = NoClient]
<1>1. /\ TabPacket(c, i) /\ tabs' = [tabs EXCEPT ![i] = t]
      /\ UNCHANGED <<status, peers, nextClient, nextId, replacing, closed, fallback,
                     restored, handin, saved>>
  BY DEF Release, TerminalPacket
<1>2. /\ Packet(c) /\ i \in DOMAIN tabs /\ TabOK(tabs[i])
      /\ tabs[i].printer \in Ready(peers) \cup {NoClient}
      /\ Sound(tabs, peers, replacing, nextId)
  BY <1>1, TabPacketOK
<1>3. /\ TabOK(t) /\ t.id = tabs[i].id
      /\ t.controller = NoClient /\ t.printer = tabs[i].printer
  BY <1>2 DEF TabOK, Tab, IsTerminal, EntryOf, NoClient
<1> HIDE DEF t
<1>4. Sound(tabs', peers, replacing, nextId) /\ Ids(tabs') = Ids(tabs)
  <2>1. /\ t.controller \in Ready(peers) \cup {NoClient}
        /\ t.printer \in Ready(peers) \cup {NoClient}
    BY <1>2, <1>3
  <2>2. /\ Sound([tabs EXCEPT ![i] = t], peers, replacing, nextId)
        /\ Ids([tabs EXCEPT ![i] = t]) = Ids(tabs)
    BY <1>2, <1>3, <2>1, ChangeOK
  <2> QED BY <1>1, <2>2
<1>5. status = "up" /\ polled' \subseteq polled /\ handin' \in BOOLEAN
  BY <1>1, <1>2, PacketOK DEF ServiceInv, Scalars
<1> QED BY <1>1, <1>4, <1>5, QuietOK

(* CLOSE drops the replacements of the tab it removes. *)
LEMMA CloseInv == \A c, i : ServiceInv /\ Close(c, i) => ServiceInv'
<1> SUFFICES ASSUME NEW c, NEW i, ServiceInv, Close(c, i) PROVE ServiceInv'
  OBVIOUS
<1>1. /\ TabPacket(c, i) /\ closed' = tabs[i].id /\ fallback' = Neighbour(tabs, i)
      /\ replacing' = ReplacingOutside(replacing, {tabs[i].id})
      /\ tabs' = RemoveAt(tabs, i)
      /\ UNCHANGED <<status, peers, nextClient, nextId, restored, handin, saved>>
  BY DEF Close
<1>2. Packet(c) /\ i \in DOMAIN tabs /\ Sound(tabs, peers, replacing, nextId)
  BY <1>1, TabPacketOK
<1>3. status = "up" /\ polled' \subseteq 0..(2 * ClientLimit + 1 + TabLimit)
  BY <1>2, PacketOK
<1>4. /\ Sound(tabs', peers, replacing', nextId)
      /\ Closing(Ids(tabs'), closed', fallback', nextId)
  BY <1>1, <1>2, RemoveOK
<1>5. Scalars'
  BY <1>1, <1>3, Zenon DEF ServiceInv, Scalars
<1>6. RestoredOnlyBeforeWindows' /\ NextClientIsFresh' /\ DownIsEmpty'
  BY <1>1, <1>3 DEF ServiceInv, RestoredOnlyBeforeWindows, NextClientIsFresh, DownIsEmpty
<1> QED BY <1>1, <1>4, <1>5, <1>6 DEF ServiceInv

-----------------------------------------------------------------------------
(* The theorems. *)

(* Every step of the service preserves the invariant. *)
LEMMA StepInv == ServiceInv /\ [Next]_vars => ServiceInv'
<1> SUFFICES ASSUME ServiceInv, [Next]_vars PROVE ServiceInv'
  OBVIOUS
<1>1. CASE UNCHANGED vars
  BY <1>1 DEF vars, ServiceInv, Scalars, RestoredOnlyBeforeWindows, NextClientIsFresh,
              DownIsEmpty
<1>2. CASE Restart \/ Upgrade \/ Maintain \/ Accept \/ ReceiveHandoff
  BY <1>2, RestartInv, UpgradeInv, MaintainInv, AcceptInv, ReceiveHandoffInv
<1>3. CASE StopSignal \/ Crash
  BY <1>3, EndInv
<1>4. ASSUME NEW id \in TabId, RedrawDue(id) \/ TerminalReady(id) PROVE ServiceInv'
  BY <1>4, RedrawDueInv, TerminalReadyInv
<1>5. ASSUME NEW c \in ClientId, \/ ClientWritable(c) \/ Disconnect(c)
                                 \/ Query(c) \/ Handin(c) \/ Handoff(c) \/ BrowserReplace(c)
      PROVE  ServiceInv'
  BY <1>5, ClientWritableInv, DisconnectInv, AnswerInv, HandoffInv, BrowserReplaceInv
<1>6. ASSUME NEW c \in ClientId, \/ Attach(c) \/ NewBrowser(c) \/ NewShell(c)
                                 \/ HelloReused(c) \/ Stop(c) \/ LaunchFails(c)
      PROVE  ServiceInv'
  BY <1>6, AttachInv, NewBrowserInv, NewShellInv, HelloReusedInv, EndInv
<1>7. ASSUME NEW c \in ClientId, NEW i \in 1..TabLimit,
             \/ Navigate(c, i) \/ Control(c, i) \/ Claim(c, i) \/ Attend(c, i)
             \/ Release(c, i) \/ Close(c, i)
      PROVE  ServiceInv'
  BY <1>7, NavigateInv, ControlInv, ClaimInv, AttendInv, ReleaseInv, CloseInv
<1> QED BY <1>1, <1>2, <1>3, <1>4, <1>5, <1>6, <1>7 DEF Next

(* The invariant holds in every reachable state. *)
LEMMA InvHolds == Spec => []ServiceInv
<1> QED BY InitInv, StepInv, PTL DEF Spec

(* The service keeps its types, whatever clients, terminals and the disk   *)
(* do: ids stay within their range, only recipes reach the recovery file.  *)
THEOREM ServiceTypeCorrect == Spec => []ServiceTypeOK
<1>1. ServiceInv => ServiceTypeOK
  <2> SUFFICES ASSUME ServiceInv PROVE ServiceTypeOK
    OBVIOUS
  <2>1. Scalars /\ tabs \in Seq(Tab)
    BY DEF ServiceInv, Sound, WellFormed
  <2>2. DOMAIN peers \subseteq ClientId /\ peers \in [DOMAIN peers -> Peer]
    BY DEF ServiceInv, Sound, GoodPeers
  <2>3. DOMAIN replacing \subseteq ClientId /\ replacing \in [DOMAIN replacing -> Replacement]
    BY <2>2 DEF ServiceInv, Sound, GoodReplacing
  <2>4. closed \in TabId \cup {NoTab} /\ fallback \in TabId \cup {NoTab}
    BY IdsOK DEF ServiceInv, Sound, Closing
  <2> QED BY <2>1, <2>2, <2>3, <2>4, Zenon DEF Scalars, ServiceTypeOK
<1> QED BY <1>1, InvHolds, PTL

(* The controller and the print receiver of a tab are always connected,    *)
(* attached windows (drop_client, take_control, finish_replacement).       *)
THEOREM OwnersStayConnected == Spec => []OwnersAreConnected
<1>1. ServiceInv => OwnersAreConnected
  BY DEF ServiceInv, Sound, Owned, OwnersAreConnected
<1> QED BY <1>1, InvHolds, PTL

(* A browser tab, converted, restored or new, is held by no window         *)
(* (finish_replacement, the first HELLO after a restore).                  *)
THEOREM BrowsersStayUncontrolled == Spec => []BrowsersAreUncontrolled
<1>1. ServiceInv => BrowsersAreUncontrolled
  BY DEF ServiceInv, Sound, WellFormed, TabOK, BrowsersAreUncontrolled
<1> QED BY <1>1, InvHolds, PTL

(* A pending replacement always belongs to a connected client and names a  *)
(* tab that exists (close, drop_client, handoff_command).                  *)
THEOREM ReplacementsStayLive == Spec => []ReplacementsAreLive
<1>1. ServiceInv => ReplacementsAreLive
  BY DEF ServiceInv, Sound, GoodReplacing, ReplacementsAreLive
<1> QED BY <1>1, InvHolds, PTL

(* Tabs keep strictly increasing ids below next_id through any sequence of *)
(* creation, closing, import, upgrade and restart.                         *)
THEOREM TabsStayOrdered == Spec => []TabsAscend
<1>1. ServiceInv => TabsAscend
  BY DEF ServiceInv, Sound, WellFormed, TabsAscend
<1> QED BY <1>1, InvHolds, PTL

(* What windows are told after a close names a tab that is gone and, as    *)
(* its replacement on screen, one that exists (close, publish).            *)
THEOREM FallbackStaysLive == Spec => []FallbackExists
<1>1. ServiceInv => FallbackExists
  BY DEF ServiceInv, Closing, FallbackExists
<1> QED BY <1>1, InvHolds, PTL

(* A cached catalog entry that is neither dirty nor gated is current, so   *)
(* metadata() may return it without looking (state.rs).                    *)
THEOREM CacheStaysCoherent == Spec => []CacheIsCoherent
<1>1. ServiceInv => CacheIsCoherent
  BY DEF ServiceInv, Sound, WellFormed, TabOK, CacheIsCoherent
<1> QED BY <1>1, InvHolds, PTL

(* The restored workspace is offered only until a window attached.         *)
THEOREM RestoredIsOfferedOnce == Spec => []RestoredOnlyBeforeWindows
<1>1. ServiceInv => RestoredOnlyBeforeWindows
  BY DEF ServiceInv
<1> QED BY <1>1, InvHolds, PTL

-----------------------------------------------------------------------------
(* What a step may do to the identity of tabs: every tab after it is a tab *)
(* from before, of the same kind, or has an id that was never given out.   *)

Kept(u, ts) ==
  \E i \in DOMAIN ts : u.id = ts[i].id /\ (IsTerminal(u) <=> IsTerminal(ts[i]))

Within(us, ts) == \A j \in DOMAIN us : Kept(us[j], ts)

Fresh(us, ts, n) == \A j \in DOMAIN us : us[j].id >= n \/ Kept(us[j], ts)

(* Tabs of tabs that are kept are kept.                                    *)
LEMMA KeptTwice ==
  ASSUME NEW vs, NEW us, NEW ts, Within(vs, us), Within(us, ts)
  PROVE  Within(vs, ts)
  BY DEF Within, Kept

(* Keeping the tabs of a list that only adds fresh ids only adds fresh ids. *)
LEMMA KeptFresh ==
  ASSUME NEW vs, NEW us, NEW ts, NEW n, Within(vs, us), Fresh(us, ts, n)
  PROVE  Fresh(vs, ts, n)
<1> SUFFICES ASSUME NEW j \in DOMAIN vs PROVE vs[j].id >= n \/ Kept(vs[j], ts)
  BY DEF Fresh
<1>1. PICK k \in DOMAIN us : /\ vs[j].id = us[k].id
                             /\ IsTerminal(vs[j]) <=> IsTerminal(us[k])
  BY DEF Within, Kept
<1>2. us[k].id >= n \/ Kept(us[k], ts)
  BY DEF Fresh
<1> QED BY <1>1, <1>2 DEF Kept

(* Changes in place that keep ids and kinds keep the tabs.                 *)
LEMMA KeptInPlace ==
  ASSUME NEW us, NEW ts, DOMAIN us = DOMAIN ts,
         \A i \in DOMAIN ts : us[i].id = ts[i].id /\ (IsTerminal(us[i]) <=> IsTerminal(ts[i]))
  PROVE  Within(us, ts)
  BY DEF Within, Kept

(* A change to one tab.                                                    *)
LEMMA KeptChange ==
  ASSUME NEW ts \in Seq(Tab), NEW i \in DOMAIN ts, NEW t, t.id = ts[i].id,
         IsTerminal(t) <=> IsTerminal(ts[i])
  PROVE  Within([ts EXCEPT ![i] = t], ts)
<1> DEFINE us == [ts EXCEPT ![i] = t]
<1>1. DOMAIN us = DOMAIN ts /\ \A j \in DOMAIN ts : us[j] = IF j = i THEN t ELSE ts[j]
  OBVIOUS
<1> HIDE DEF us
<1>2. Within(us, ts)
  BY <1>1, KeptInPlace
<1> QED BY <1>2 DEF us

(* drop_client keeps the tabs.                                             *)
LEMMA KeptByForget ==
  ASSUME NEW ts \in Seq(Tab), NEW us, NEW gone,
         us = [i \in DOMAIN ts |-> Forget(ts[i], gone)]
  PROVE  Within(us, ts)
<1>1. ASSUME NEW t \in Tab
      PROVE  Forget(t, gone).id = t.id /\ Forget(t, gone).pty = t.pty
  BY DEF Forget, Tab
<1>2. \A i \in DOMAIN ts : ts[i] \in Tab
  OBVIOUS
<1>3. \A i \in DOMAIN ts : us[i].id = ts[i].id /\ us[i].pty = ts[i].pty
  BY <1>1, <1>2
<1> QED BY <1>3, KeptInPlace DEF IsTerminal

(* Queueing packets keeps the tabs.                                        *)
LEMMA KeptByDeliver ==
  ASSUME NEW ts \in Seq(Tab), NEW ps, NEW rp, NEW must, NEW may,
         Deliver(ts, ps, rp, must, may)
  PROVE  Within(tabs', ts)
<1>1. PICK full : tabs' = [i \in DOMAIN ts |-> Forget(ts[i], full)]
  BY DEF Deliver
<1> QED BY <1>1, KeptByForget

(* Refreshing the catalog keeps the tabs.                                  *)
LEMMA KeptByCatalog ==
  ASSUME NEW ts \in Seq(Tab)
  PROVE  Within(Catalogued(ts), ts)
<1>1. ASSUME NEW t \in Tab
      PROVE  Metadata(t).id = t.id /\ Metadata(t).pty = t.pty
  BY DEF Metadata, Tab
<1>2. \A i \in DOMAIN ts : ts[i] \in Tab
  OBVIOUS
<1>3. \A i \in DOMAIN ts : /\ Catalogued(ts)[i].id = ts[i].id
                           /\ Catalogued(ts)[i].pty = ts[i].pty
  BY <1>1, <1>2 DEF Catalogued
<1>4. DOMAIN Catalogued(ts) = DOMAIN ts
  BY DEF Catalogued
<1> QED BY <1>3, <1>4, KeptInPlace DEF IsTerminal

(* Publishing keeps the tabs.                                              *)
LEMMA KeptByPublish ==
  ASSUME NEW ts, NEW n, NEW ps, NEW rp, NEW cl, NEW fb, NEW must,
         Sound(ts, ps, rp, n), Publish(ts, ps, rp, cl, fb, must)
  PROVE  Within(tabs', ts)
<1> DEFINE now == Catalogued(ts)
<1>1. ts \in Seq(Tab)
  BY DEF Sound, WellFormed
<1>2. Within(now, ts)
  BY <1>1, KeptByCatalog
<1>3. now \in Seq(Tab)
  BY CataloguedOK DEF Sound, WellFormed
<1>4. \E m : Deliver(now, ps, rp, m, Controllers(now))
  BY DEF Publish
<1> HIDE DEF now
<1>5. Within(tabs', now)
  BY <1>3, <1>4, KeptByDeliver
<1> QED BY <1>2, <1>5, KeptTwice

(* A new tab has the next id.                                              *)
LEMMA FreshAppend ==
  ASSUME NEW ts \in Seq(Tab), NEW t \in Tab, NEW n \in Int, t.id = n
  PROVE  Fresh(Append(ts, t), ts, n)
<1>1. /\ DOMAIN Append(ts, t) = 1..(Len(ts) + 1)
      /\ DOMAIN ts = 1..Len(ts) /\ Len(ts) \in Nat
      /\ \A j \in DOMAIN ts : Append(ts, t)[j] = ts[j]
      /\ Append(ts, t)[Len(ts) + 1] = t
  OBVIOUS
<1> DEFINE us == Append(ts, t)
<1> HIDE DEF us
<1> SUFFICES ASSUME NEW j \in DOMAIN us PROVE us[j].id >= n \/ Kept(us[j], ts)
  BY DEF Fresh, us
<1>2. CASE j \in DOMAIN ts
  BY <1>1, <1>2 DEF Kept, us
<1>3. CASE j = Len(ts) + 1
  BY <1>1, <1>3 DEF us
<1> QED BY <1>1, <1>2, <1>3 DEF us

(* The tabs that stay when ended tabs are closed, or one is removed.       *)
LEMMA KeptSurvivors ==
  ASSUME NEW ts \in Seq(Tab), NEW moved, NEW keep \in Keeps(ts)
  PROVE  Within(Survivors(Relabelled(ts, moved), keep), ts)
<1>1. ASSUME NEW t \in Tab, NEW l
      PROVE  /\ [t EXCEPT !.label = l, !.dirty = TRUE].id = t.id
             /\ [t EXCEPT !.label = l, !.dirty = TRUE].pty = t.pty
  BY DEF Tab
<1>2. \A i \in DOMAIN ts : ts[i] \in Tab
  OBVIOUS
<1>3. /\ DOMAIN Relabelled(ts, moved) = DOMAIN ts
      /\ \A i \in DOMAIN ts : /\ Relabelled(ts, moved)[i].id = ts[i].id
                              /\ Relabelled(ts, moved)[i].pty = ts[i].pty
  BY <1>1, <1>2 DEF Relabelled
<1>4. \A k \in DOMAIN keep : keep[k] \in DOMAIN ts
  BY DEF Keeps, Staying
<1> QED BY <1>3, <1>4 DEF Within, Kept, Survivors, IsTerminal

(* Closing one tab keeps the others.                                       *)
LEMMA KeptByRemove ==
  ASSUME NEW ts \in Seq(Tab), NEW i \in DOMAIN ts
  PROVE  Within(RemoveAt(ts, i), ts)
<1>1. Len(ts) \in Nat /\ DOMAIN ts = 1..Len(ts)
  OBVIOUS
<1> DEFINE us == RemoveAt(ts, i)
<1>2. /\ us \in Seq(Tab) /\ Len(us) = Len(ts) - 1
      /\ \A j \in 1..(Len(ts) - 1) : us[j] = IF j < i THEN ts[j] ELSE ts[j + 1]
  BY <1>1, Removed
<1> HIDE DEF us
<1>3. DOMAIN us = 1..(Len(ts) - 1)
  BY <1>2
<1>4. ASSUME NEW j \in DOMAIN us PROVE \E k \in DOMAIN ts : us[j] = ts[k]
  <2>1. CASE j < i
    BY <1>1, <1>2, <1>3, <2>1
  <2>2. CASE ~(j < i)
    <3>1. j + 1 \in DOMAIN ts /\ us[j] = ts[j + 1]
      BY <1>1, <1>2, <1>3, <2>2
    <3> QED BY <3>1
  <2> QED BY <2>1, <2>2
<1>5. Within(us, ts)
  BY <1>4 DEF Within, Kept
<1> QED BY <1>5 DEF us

(* What every step but a flush does to the tabs while the service lives.   *)
TabsKeepKind == Fresh(tabs', tabs, nextId) /\ nextId' >= nextId

(* The invariant gives the shape of the tabs and of next_id.               *)
LEMMA ServiceShape ==
  ASSUME ServiceInv
  PROVE  /\ tabs \in Seq(Tab) /\ nextId \in Int
         /\ \A i \in DOMAIN tabs : tabs[i] \in Tab
         /\ Sound(tabs, peers, replacing, nextId)
<1>1. tabs \in Seq(Tab) /\ Sound(tabs, peers, replacing, nextId) /\ nextId \in Int
  BY DEF ServiceInv, Sound, WellFormed, Scalars
<1> QED BY <1>1

(* A handler that keeps the tabs and next_id.                              *)
LEMMA KeepingKeeps ==
  ASSUME ServiceInv, Within(tabs', tabs), nextId' = nextId
  PROVE  TabsKeepKind
  BY ServiceShape DEF TabsKeepKind, Fresh, Within

(* A handler that leaves the tabs alone.                                   *)
LEMMA IdleKeeps ==
  ASSUME ServiceInv, tabs' = tabs, nextId' = nextId
  PROVE  TabsKeepKind
<1>1. Within(tabs', tabs)
  BY DEF Within, Kept
<1> QED BY <1>1, KeepingKeeps

(* A handler that delivers on the tabs as they are.                        *)
LEMMA AnswerKeeps ==
  ASSUME ServiceInv, NEW must, NEW may,
         Deliver(tabs, peers, replacing, must, may), nextId' = nextId
  PROVE  TabsKeepKind
<1>1. Within(tabs', tabs)
  BY ServiceShape, KeptByDeliver
<1> QED BY <1>1, KeepingKeeps

(* A handler that changes one tab and delivers.                            *)
LEMMA ChangeKeeps ==
  ASSUME ServiceInv, NEW i \in DOMAIN tabs, NEW t \in Tab, t.id = tabs[i].id,
         IsTerminal(t) <=> IsTerminal(tabs[i]),
         NEW us, us = [tabs EXCEPT ![i] = t],
         NEW must, NEW may, Deliver(us, peers, replacing, must, may), nextId' = nextId
  PROVE  TabsKeepKind
<1>0. tabs \in Seq(Tab)
  BY ServiceShape
<1>1. us \in Seq(Tab)
  BY <1>0
<1>2. Within(us, tabs)
  BY <1>0, KeptChange
<1>3. Within(tabs', us)
  BY <1>1, KeptByDeliver
<1> QED BY <1>2, <1>3, KeptTwice, KeepingKeeps

(* The turn of the loop: labels change, ended tabs leave.                  *)
LEMMA MaintainKeeps == ServiceInv /\ Maintain => TabsKeepKind
<1> SUFFICES ASSUME ServiceInv, Maintain PROVE TabsKeepKind
  OBVIOUS
<1>1. PICK moved \in [OpenIds(tabs) -> Label], keep \in Keeps(tabs) :
        LET rest == Survivors(Relabelled(tabs, moved), keep)
            rp == ReplacingOutside(replacing, Ids(tabs) \ Ids(rest))
            ended == Ended(tabs) # {}
            cl == IF ended THEN tabs[LastEnded(tabs)].id ELSE closed
            fb == IF ended THEN FallbackAmong(tabs, rest) ELSE fallback
        IN IF PublicationDue(rest, cl)
           THEN Publish(rest, peers, rp, cl, fb, {})
           ELSE /\ Deliver(rest, peers, rp, {}, Controllers(rest))
                /\ closed' = cl /\ fallback' = fb
                /\ UNCHANGED <<published, saved>>
  BY DEF Maintain
<1> DEFINE rest == Survivors(Relabelled(tabs, moved), keep)
           rp == ReplacingOutside(replacing, Ids(tabs) \ Ids(rest))
           ended == Ended(tabs) # {}
           cl == IF ended THEN tabs[LastEnded(tabs)].id ELSE closed
           fb == IF ended THEN FallbackAmong(tabs, rest) ELSE fallback
<1>2. \/ Publish(rest, peers, rp, cl, fb, {})
      \/ Deliver(rest, peers, rp, {}, Controllers(rest))
  BY <1>1
<1>3. /\ Sound(tabs, peers, replacing, nextId) /\ tabs \in Seq(Tab)
      /\ Closing(Ids(tabs), closed, fallback, nextId)
  BY ServiceShape DEF ServiceInv
<1>4. Within(rest, tabs)
  BY <1>3, KeptSurvivors
<1> HIDE DEF rest
<1>5. Sound(rest, peers, rp, nextId)
  BY <1>3, EndedOK DEF rest
<1>6. rest \in Seq(Tab)
  BY <1>5 DEF Sound, WellFormed
<1> HIDE DEF rp, cl, fb
<1>7. Within(tabs', rest)
  BY <1>2, <1>5, <1>6, KeptByPublish, KeptByDeliver
<1>8. nextId' = nextId
  BY DEF Maintain
<1> QED BY <1>4, <1>7, <1>8, KeptTwice, KeepingKeeps

(* An upgraded daemon adopts every tab under its id.                       *)
LEMMA UpgradeKeeps == ServiceInv /\ Upgrade => TabsKeepKind
<1> SUFFICES ASSUME ServiceInv, Upgrade PROVE TabsKeepKind
  OBVIOUS
<1> DEFINE Adopted(t) == [t EXCEPT !.controller = NoClient, !.printer = NoClient,
                                   !.entry = {}, !.dirty = TRUE, !.gated = FALSE,
                                   !.held = FALSE]
<1>1. tabs' = [i \in DOMAIN tabs |-> Adopted(tabs[i])] /\ nextId' = nextId
  BY DEF Upgrade
<1>2. ASSUME NEW t \in Tab PROVE Adopted(t).id = t.id /\ Adopted(t).pty = t.pty
  BY DEF Tab
<1> HIDE DEF Adopted
<1>3. \A i \in DOMAIN tabs : tabs'[i].id = tabs[i].id /\ tabs'[i].pty = tabs[i].pty
  BY <1>1, <1>2, ServiceShape
<1>4. Within(tabs', tabs)
  BY <1>1, <1>3, KeptInPlace DEF IsTerminal
<1> QED BY <1>1, <1>4, KeepingKeeps

(* The end of a synchronized update.                                       *)
LEMMA RedrawDueKeeps == \A id : ServiceInv /\ RedrawDue(id) => TabsKeepKind
<1> SUFFICES ASSUME NEW id, ServiceInv, RedrawDue(id) PROVE TabsKeepKind
  OBVIOUS
<1>1. PICK i \in DOMAIN tabs : tabs' = [tabs EXCEPT ![i].held = FALSE]
  BY DEF RedrawDue
<1> DEFINE t == [tabs[i] EXCEPT !.held = FALSE]
<1>2. t.id = tabs[i].id /\ t.pty = tabs[i].pty
  BY ServiceShape DEF Tab
<1>3. tabs' = [tabs EXCEPT ![i] = t]
  BY <1>1
<1> HIDE DEF t
<1>4. Within(tabs', tabs)
  BY <1>2, <1>3, ServiceShape, KeptChange DEF IsTerminal
<1>5. nextId' = nextId
  BY DEF RedrawDue
<1> QED BY <1>4, <1>5, KeepingKeeps

(* Imported tabs are appended under new ids.                               *)
LEMMA ReceiveHandoffKeeps == ServiceInv /\ ReceiveHandoff => TabsKeepKind
<1> SUFFICES ASSUME ServiceInv, ReceiveHandoff PROVE TabsKeepKind
  OBVIOUS
<1>1. /\ nextId \in TabId /\ nextId' = nextId + 1
      /\ \E t \in {Shell(nextId, l, NoClient) : l \in Label}
                  \cup {Browser(nextId, u) : u \in Url} : tabs' = Append(tabs, t)
  BY DEF ReceiveHandoff
<1>2. PICK t : /\ tabs' = Append(tabs, t)
               /\ \/ \E l \in Label : t = Shell(nextId, l, NoClient)
                  \/ \E u \in Url : t = Browser(nextId, u)
  BY <1>1
<1>3. t \in Tab /\ t.id = nextId
  <2>1. CASE \E l \in Label : t = Shell(nextId, l, NoClient)
    <3>1. NoClient \in ClientId \cup {NoClient}
      OBVIOUS
    <3> QED BY <1>1, <2>1, <3>1, ShellOK DEF TabOK
  <2>2. CASE \E u \in Url : t = Browser(nextId, u)
    BY <1>1, <2>2, BrowserOK DEF TabOK
  <2> QED BY <1>2, <2>1, <2>2
<1>4. Fresh(tabs', tabs, nextId)
  BY <1>2, <1>3, ServiceShape, FreshAppend
<1> QED BY <1>1, <1>4, ServiceShape DEF TabsKeepKind

(* Parsed output leaves the terminal a terminal.                           *)
LEMMA TerminalReadyKeeps == \A id : ServiceInv /\ TerminalReady(id) => TabsKeepKind
<1> SUFFICES ASSUME NEW id, ServiceInv, TerminalReady(id) PROVE TabsKeepKind
  OBVIOUS
<1>1. PICK i \in DOMAIN tabs, l \in Label, h \in {FALSE, SyncUpdates}, p \in {"open", "stopped"} :
        /\ tabs[i].id = id /\ tabs[i].pty = "open"
        /\ Deliver([tabs EXCEPT ![i] = Parsed(@, l, h, p)], peers, replacing, {},
                   {tabs[i].controller, tabs[i].printer} \ {NoClient})
  BY DEF TerminalReady
<1> DEFINE t == Parsed(tabs[i], l, h, p)
<1>2. t.id = tabs[i].id /\ t.pty = p
  BY ServiceShape DEF Parsed, Tab
<1>3. Deliver([tabs EXCEPT ![i] = t], peers, replacing, {},
              {tabs[i].controller, tabs[i].printer} \ {NoClient})
  BY <1>1
<1> HIDE DEF t
<1> DEFINE us == [tabs EXCEPT ![i] = t]
<1>4. Within(us, tabs)
  BY <1>1, <1>2, ServiceShape, KeptChange DEF IsTerminal
<1>5. DOMAIN us = DOMAIN tabs /\ \A j \in DOMAIN tabs : us[j] = IF j = i THEN t ELSE tabs[j]
  BY ServiceShape
<1>6. t \in Tab
  <2>1. h \in BOOLEAN
    BY ServiceAssumption
  <2> QED BY <1>1, <2>1, ServiceShape DEF t, Parsed, Tab
<1>7. us \in Seq(Tab)
  BY <1>6, ServiceShape
<1> HIDE DEF us
<1>8. Within(tabs', us)
  BY <1>3, <1>7, KeptByDeliver DEF us
<1>9. nextId' = nextId
  BY DEF TerminalReady
<1> QED BY <1>4, <1>8, <1>9, KeptTwice, KeepingKeeps

(* Handlers that leave the tabs or only answer; giving every tab away.     *)
LEMMA AnswersKeep ==
  \A c : ServiceInv /\ (Accept \/ Query(c) \/ Handin(c) \/ Disconnect(c) \/ Handoff(c))
         => TabsKeepKind
<1> SUFFICES ASSUME NEW c, ServiceInv,
                    Accept \/ Query(c) \/ Handin(c) \/ Disconnect(c) \/ Handoff(c)
             PROVE  TabsKeepKind
  OBVIOUS
<1>1. CASE Accept
  BY <1>1, IdleKeeps DEF Accept
<1>2. CASE Query(c)
  BY <1>2, AnswerKeeps DEF Query
<1>3. CASE Handin(c)
  BY <1>3, AnswerKeeps DEF Handin
<1>4. CASE Disconnect(c)
  <2>1. tabs' = [i \in DOMAIN tabs |-> Forget(tabs[i], {c})] /\ nextId' = nextId
    BY <1>4 DEF Disconnect, DropClient
  <2>2. Within(tabs', tabs)
    BY <2>1, ServiceShape, KeptByForget
  <2> QED BY <2>1, <2>2, KeepingKeeps
<1>5. CASE Handoff(c)
  <2>1. Deliver(<<>>, peers, replacing, {c}, {}) /\ nextId' = nextId
    BY <1>5 DEF Handoff
  <2>2. PICK full : tabs' = [i \in DOMAIN <<>> |-> Forget(<<>>[i], full)]
    BY <2>1 DEF Deliver
  <2>3. Within(tabs', tabs)
    BY <2>2 DEF Within
  <2> QED BY <2>1, <2>3, KeepingKeeps
<1> QED BY <1>1, <1>2, <1>3, <1>4, <1>5

(* ATTACH refreshes the catalog.                                           *)
LEMMA AttachKeeps == \A c : ServiceInv /\ Attach(c) => TabsKeepKind
<1> SUFFICES ASSUME NEW c, ServiceInv, Attach(c) PROVE TabsKeepKind
  OBVIOUS
<1> DEFINE ps == [peers EXCEPT ![c].ready = TRUE]
           now == Catalogued(tabs)
<1>1. /\ Deliver(now, ps, replacing, {c}, Controllers(tabs)) /\ nextId' = nextId
  BY DEF Attach
<1>2. Within(now, tabs) /\ now \in Seq(Tab)
  BY ServiceShape, KeptByCatalog, CataloguedOK DEF Sound, WellFormed
<1> HIDE DEF now, ps
<1>3. Within(tabs', now)
  BY <1>1, <1>2, KeptByDeliver
<1> QED BY <1>1, <1>2, <1>3, KeptTwice, KeepingKeeps

(* A new tab is published under the next id.                               *)
LEMMA NewTabKeeps ==
  ASSUME NEW c, ServiceInv, Packet(c), nextId \in TabId,
         NEW t, TabOK(t), t.id = nextId,
         t.controller \in {c, NoClient}, t.printer \in {c, NoClient},
         Publish(Append(tabs, t), [peers EXCEPT ![c].ready = TRUE], replacing,
                 closed, fallback, {c}),
         nextId' = nextId + 1
  PROVE  TabsKeepKind
<1> DEFINE ps == [peers EXCEPT ![c].ready = TRUE]
           ts == Append(tabs, t)
<1>1. c \in DOMAIN peers /\ Sound(tabs, peers, replacing, nextId) /\ nextId \in Int
  BY PacketOK, ServiceShape
<1>2. Sound(tabs, ps, replacing, nextId) /\ c \in Ready(ps)
  BY <1>1, ReadyOK
<1>3. Publish(ts, ps, replacing, closed, fallback, {c})
  OBVIOUS
<1> HIDE DEF ps
<1>4. /\ t.controller \in Ready(ps) \cup {NoClient}
      /\ t.printer \in Ready(ps) \cup {NoClient}
  BY <1>2
<1>5. Sound(ts, ps, replacing, nextId + 1)
  BY <1>2, <1>4, AppendOK
<1>6. Fresh(ts, tabs, nextId)
  BY <1>1, ServiceShape, FreshAppend DEF TabOK
<1> HIDE DEF ts
<1>7. Within(tabs', ts)
  BY <1>3, <1>5, KeptByPublish
<1>8. Fresh(tabs', tabs, nextId)
  BY <1>6, <1>7, KeptFresh
<1> QED BY <1>1, <1>8 DEF TabsKeepKind

(* NEW_BROWSER.                                                            *)
LEMMA NewBrowserKeeps == \A c : ServiceInv /\ NewBrowser(c) => TabsKeepKind
<1> SUFFICES ASSUME NEW c, ServiceInv, NewBrowser(c) PROVE TabsKeepKind
  OBVIOUS
<1>1. PICK u \in Url :
        Publish(Append(tabs, Browser(nextId, u)), [peers EXCEPT ![c].ready = TRUE],
                replacing, closed, fallback, {c})
  BY DEF NewBrowser
<1>2. Packet(c) /\ nextId \in TabId /\ nextId' = nextId + 1
  BY DEF NewBrowser
<1> DEFINE t == Browser(nextId, u)
<1>3. TabOK(t) /\ t.id = nextId /\ t.controller = NoClient /\ t.printer = NoClient
  BY <1>2, BrowserOK
<1>4. Publish(Append(tabs, t), [peers EXCEPT ![c].ready = TRUE], replacing, closed, fallback, {c})
  BY <1>1
<1> HIDE DEF t
<1> QED BY <1>2, <1>3, <1>4, NewTabKeeps

(* HELLO and NEW.                                                          *)
LEMMA NewShellKeeps == \A c : ServiceInv /\ NewShell(c) => TabsKeepKind
<1> SUFFICES ASSUME NEW c, ServiceInv, NewShell(c) PROVE TabsKeepKind
  OBVIOUS
<1>1. PICK l \in Label, p \in {c, NoClient} :
        Publish(Append(tabs, [Shell(nextId, l, c) EXCEPT !.printer = p]),
                [peers EXCEPT ![c].ready = TRUE], replacing, closed, fallback, {c})
  BY DEF NewShell
<1>2. Packet(c) /\ nextId \in TabId /\ nextId' = nextId + 1
  BY DEF NewShell
<1> DEFINE t == PrintingShell(nextId, l, c, p)
<1>3. c \in ClientId
  BY <1>2, PacketOK
<1>4. TabOK(t) /\ t.id = nextId /\ t.controller = c /\ t.printer = p
  BY <1>2, <1>3, PrintingShellOK
<1>5. Publish(Append(tabs, t), [peers EXCEPT ![c].ready = TRUE], replacing, closed, fallback, {c})
  BY <1>1 DEF PrintingShell
<1> HIDE DEF t
<1> QED BY <1>2, <1>4, <1>5, NewTabKeeps

(* The first bare HELLO after a restore.                                   *)
LEMMA HelloReusedKeeps == \A c : ServiceInv /\ HelloReused(c) => TabsKeepKind
<1> SUFFICES ASSUME NEW c, ServiceInv, HelloReused(c) PROVE TabsKeepKind
  OBVIOUS
<1> DEFINE ps == [peers EXCEPT ![c].ready = TRUE]
           ts == IF IsTerminal(tabs[1]) THEN TakeControl(tabs, 1, c) ELSE tabs
           told == {c} \cup (IF IsTerminal(tabs[1]) THEN Ousted(tabs, 1, c) ELSE {})
           t == [tabs[1] EXCEPT !.controller = c]
<1>1. /\ Packet(c) /\ tabs # <<>> /\ Publish(ts, ps, replacing, closed, fallback, told)
      /\ nextId' = nextId
  BY DEF HelloReused
<1>2. c \in DOMAIN peers /\ Sound(tabs, peers, replacing, nextId) /\ tabs \in Seq(Tab)
  BY <1>1, PacketOK, ServiceShape
<1>3. Sound(tabs, ps, replacing, nextId) /\ c \in Ready(ps)
  BY <1>2, ReadyOK
<1> HIDE DEF ps, told
<1>4. 1 \in DOMAIN tabs /\ tabs[1] \in Tab
  BY <1>1, <1>2
<1>5. t.id = tabs[1].id /\ t.pty = tabs[1].pty
  BY <1>4 DEF Tab
<1>6. TakeControl(tabs, 1, c) = [tabs EXCEPT ![1] = t]
  BY DEF TakeControl
<1> HIDE DEF t
<1>7. Within(TakeControl(tabs, 1, c), tabs)
  BY <1>2, <1>4, <1>5, <1>6, KeptChange DEF IsTerminal
<1>8. Sound(ts, ps, replacing, nextId) /\ Within(ts, tabs)
  <2>1. CASE IsTerminal(tabs[1])
    BY <1>3, <1>4, <1>7, <2>1, TakeControlOK
  <2>2. CASE ~IsTerminal(tabs[1])
    BY <1>3, <2>2 DEF Within, Kept
  <2> QED BY <2>1, <2>2
<1> HIDE DEF ts
<1>9. Within(tabs', ts)
  BY <1>1, <1>8, KeptByPublish
<1> QED BY <1>1, <1>8, <1>9, KeptTwice, KeepingKeeps

(* NAVIGATE changes a browser tab's address.                               *)
LEMMA NavigateKeeps == \A c, i : ServiceInv /\ Navigate(c, i) => TabsKeepKind
<1> SUFFICES ASSUME NEW c, NEW i, ServiceInv, Navigate(c, i) PROVE TabsKeepKind
  OBVIOUS
<1>1. PICK u \in Url :
        Publish([tabs EXCEPT ![i].url = u, ![i].dirty = TRUE], peers, replacing,
                closed, fallback, {})
  BY DEF Navigate
<1>2. TabPacket(c, i) /\ ~IsTerminal(tabs[i]) /\ nextId' = nextId
  BY DEF Navigate
<1>3. /\ Packet(c) /\ i \in DOMAIN tabs /\ TabOK(tabs[i])
      /\ tabs[i].controller \in Ready(peers) \cup {NoClient}
      /\ tabs[i].printer \in Ready(peers) \cup {NoClient}
      /\ Sound(tabs, peers, replacing, nextId)
  BY <1>2, TabPacketOK
<1> DEFINE t == [tabs[i] EXCEPT !.url = u, !.dirty = TRUE]
           us == [tabs EXCEPT ![i] = t]
<1>4. /\ TabOK(t) /\ t.id = tabs[i].id /\ t.pty = tabs[i].pty
      /\ t.controller = tabs[i].controller /\ t.printer = tabs[i].printer
  BY <1>2, <1>3, ServiceAssumption DEF TabOK, Tab, IsTerminal, EntryOf
<1>5. [tabs EXCEPT ![i].url = u, ![i].dirty = TRUE] = us
  BY <1>3, ServiceShape DEF Tab
<1>6. Publish(us, peers, replacing, closed, fallback, {})
  BY <1>1, <1>5
<1> HIDE DEF t
<1>7. Sound(us, peers, replacing, nextId)
  BY <1>3, <1>4, ChangeOK
<1>8. Within(us, tabs)
  BY <1>3, <1>4, ServiceShape, KeptChange DEF IsTerminal
<1> HIDE DEF us
<1>9. Within(tabs', us)
  BY <1>6, <1>7, KeptByPublish
<1> QED BY <1>2, <1>8, <1>9, KeptTwice, KeepingKeeps

(* CONTROL, FOCUS, INPUT, SCROLL, RESIZE and FOCUS_STATE change the owners *)
(* of a terminal or stop it.                                               *)
LEMMA OwnershipKeeps ==
  \A c, i : ServiceInv /\ (Control(c, i) \/ Claim(c, i) \/ Attend(c, i)) => TabsKeepKind
<1> SUFFICES ASSUME NEW c, NEW i, ServiceInv, Control(c, i) \/ Claim(c, i) \/ Attend(c, i)
             PROVE  TabsKeepKind
  OBVIOUS
<1>1. TabPacket(c, i) /\ IsTerminal(tabs[i]) /\ nextId' = nextId
  BY DEF Control, Claim, Attend, TerminalPacket
<1>2. /\ i \in DOMAIN tabs /\ tabs[i] \in Tab /\ c \in ClientId /\ tabs[i].pty # "none"
      /\ tabs \in Seq(Tab)
  BY <1>1, TabPacketOK, ServiceShape DEF IsTerminal
<1>3. CASE Control(c, i)
  <2> DEFINE us == [TakeControl(tabs, i, c) EXCEPT ![i].printer = c]
             t == [tabs[i] EXCEPT !.controller = c, !.printer = c]
  <2>1. t \in Tab /\ t.id = tabs[i].id /\ t.pty = tabs[i].pty
    BY <1>2 DEF Tab
  <2>2. us = [tabs EXCEPT ![i] = t]
    BY <1>2 DEF Tab, TakeControl
  <2>3. Deliver(us, peers, replacing, Ousted(tabs, i, c), {c})
    BY <1>3 DEF Control
  <2> HIDE DEF t, us
  <2> QED BY <1>1, <1>2, <2>1, <2>2, <2>3, ChangeKeeps DEF IsTerminal
<1>4. CASE Claim(c, i)
  <2>1. PICK p \in {tabs[i].pty, "stopped"} :
          Deliver([TakeControl(tabs, i, c) EXCEPT ![i].pty = p], peers, replacing,
                  Ousted(tabs, i, c), {c})
    BY <1>4 DEF Claim
  <2> DEFINE us == [TakeControl(tabs, i, c) EXCEPT ![i].pty = p]
             t == [tabs[i] EXCEPT !.controller = c, !.pty = p]
  <2>2. t \in Tab /\ t.id = tabs[i].id /\ t.pty = p /\ p # "none"
    BY <1>2, <2>1 DEF Tab
  <2>3. us = [tabs EXCEPT ![i] = t]
    BY <1>2 DEF Tab, TakeControl
  <2>4. Deliver(us, peers, replacing, Ousted(tabs, i, c), {c})
    BY <2>1
  <2> HIDE DEF t, us
  <2> QED BY <1>1, <1>2, <2>2, <2>3, <2>4, ChangeKeeps DEF IsTerminal
<1>5. CASE Attend(c, i)
  <2>1. PICK p \in {tabs[i].pty, "stopped"} :
          Deliver([tabs EXCEPT ![i].pty = p], peers, replacing, {}, {c})
    BY <1>5 DEF Attend
  <2> DEFINE us == [tabs EXCEPT ![i].pty = p]
             t == [tabs[i] EXCEPT !.pty = p]
  <2>2. t \in Tab /\ t.id = tabs[i].id /\ t.pty = p /\ p # "none"
    BY <1>2, <2>1 DEF Tab
  <2>3. us = [tabs EXCEPT ![i] = t]
    OBVIOUS
  <2>4. Deliver(us, peers, replacing, {}, {c})
    BY <2>1
  <2> HIDE DEF t, us
  <2> QED BY <1>1, <1>2, <2>2, <2>3, <2>4, ChangeKeeps DEF IsTerminal
<1> QED BY <1>3, <1>4, <1>5

(* RELEASE and CLOSE.                                                      *)
LEMMA LeavingKeeps ==
  \A c, i : ServiceInv /\ (Release(c, i) \/ Close(c, i)) => TabsKeepKind
<1> SUFFICES ASSUME NEW c, NEW i, ServiceInv, Release(c, i) \/ Close(c, i)
             PROVE  TabsKeepKind
  OBVIOUS
<1>1. TabPacket(c, i) /\ nextId' = nextId
  BY DEF Release, Close, TerminalPacket
<1>2. i \in DOMAIN tabs /\ tabs[i] \in Tab /\ tabs \in Seq(Tab)
  BY <1>1, TabPacketOK, ServiceShape
<1>3. CASE Release(c, i)
  <2> DEFINE t == [tabs[i] EXCEPT !.controller = NoClient]
  <2>1. t.id = tabs[i].id /\ t.pty = tabs[i].pty
    BY <1>2 DEF Tab
  <2>2. tabs' = [tabs EXCEPT ![i] = t]
    BY <1>3 DEF Release
  <2> HIDE DEF t
  <2>3. Within(tabs', tabs)
    BY <1>2, <2>1, <2>2, KeptChange DEF IsTerminal
  <2> QED BY <1>1, <2>3, KeepingKeeps
<1>4. CASE Close(c, i)
  <2>1. tabs' = RemoveAt(tabs, i)
    BY <1>4 DEF Close
  <2>2. Within(tabs', tabs)
    BY <1>2, <2>1, KeptByRemove
  <2> QED BY <1>1, <2>2, KeepingKeeps
<1> QED BY <1>3, <1>4

(* A flush: either the tabs are kept as they are, or the acknowledged      *)
(* replacement turned its tab into a browser.                              *)
LEMMA FlushKeeps ==
  ASSUME NEW c \in DOMAIN peers, NEW rp, ServiceInv, ClientFlush(c, peers, rp)
  PROVE  \/ Within(tabs', tabs)
         \/ /\ c \in DOMAIN rp /\ tabs' = Convert(tabs, rp[c])
            /\ c \in DOMAIN peers' /\ ~peers'[c].queued
<1>0. tabs \in Seq(Tab) /\ peers[c] \in Peer
  BY ServiceShape DEF Sound, GoodPeers
<1>1. CASE /\ peers' = [peers EXCEPT ![c].queued = FALSE]
           /\ tabs' = IF c \in DOMAIN rp THEN Convert(tabs, rp[c]) ELSE tabs
  <2>1. c \in DOMAIN peers' /\ ~peers'[c].queued
    BY <1>0, <1>1 DEF Peer
  <2>2. CASE c \notin DOMAIN rp
    BY <1>1, <2>2 DEF Within, Kept
  <2> QED BY <1>1, <2>1, <2>2
<1>2. CASE tabs' = tabs
  BY <1>2 DEF Within, Kept
<1>3. CASE DropClient(c)
  <2>1. tabs' = [i \in DOMAIN tabs |-> Forget(tabs[i], {c})]
    BY <1>3 DEF DropClient
  <2> QED BY <1>0, <2>1, KeptByForget
<1> QED BY <1>1, <1>2, <1>3 DEF ClientFlush

(* The conversion keeps every id, and every tab but the requested one.     *)
LEMMA ConvertKeeps ==
  ASSUME NEW ts \in Seq(Tab), NEW r
  PROVE  /\ DOMAIN Convert(ts, r) = DOMAIN ts
         /\ \A i \in DOMAIN ts :
              /\ Convert(ts, r)[i].id = ts[i].id
              /\ ts[i].id # r.tab => Convert(ts, r)[i] = ts[i]
<1> DEFINE Browsed(t) ==
      [t EXCEPT !.controller = NoClient, !.printer = NoClient, !.pty = "none",
                !.held = FALSE, !.url = r.url, !.label = Blank, !.dirty = TRUE]
<1>1. ASSUME NEW t \in Tab PROVE Browsed(t).id = t.id
  BY DEF Tab
<1>2. \A i \in DOMAIN ts : ts[i] \in Tab
  OBVIOUS
<1> QED BY <1>1, <1>2 DEF Convert

(* The step of the invariant and what it does to the identity of tabs.     *)
Flushing(c, rp) == c \in DOMAIN peers /\ ClientFlush(c, peers, rp) /\ nextId' = nextId

Requested(c) ==
  \E tab, u : LET rp == [d \in DOMAIN replacing \cup {c} |->
                           IF d = c THEN [tab |-> tab, url |-> u] ELSE replacing[d]]
              IN /\ Flushing(c, rp)
                 /\ ReadSource(c) \in polled'
                 /\ \A q \in polled' : q >= ReadSource(c)

(* While the service lives, every step keeps the tabs and gives out fresh  *)
(* ids only, except a flush of a client, which may convert.                *)
LEMMA StepKeeps ==
  ASSUME ServiceInv, [Next]_vars
  PROVE  \/ TabsKeepKind
         \/ status # "up"
         \/ tabs' = <<>> /\ status' # "up"
         \/ \E c : Flushing(c, replacing) \/ Requested(c)
<1> DEFINE Goal == \/ TabsKeepKind
                   \/ status # "up"
                   \/ tabs' = <<>> /\ status' # "up"
                   \/ \E c : Flushing(c, replacing) \/ Requested(c)
<1>1. CASE UNCHANGED vars
  BY <1>1, IdleKeeps DEF vars
<1>2. CASE Restart
  BY <1>2 DEF Restart
<1>3. CASE Upgrade \/ Maintain \/ ReceiveHandoff \/ Accept
  BY <1>3, UpgradeKeeps, MaintainKeeps, ReceiveHandoffKeeps, AnswersKeep
<1>4. CASE StopSignal \/ Crash
  BY <1>4 DEF StopSignal, Crash, Down
<1>5. ASSUME NEW id \in TabId, RedrawDue(id) \/ TerminalReady(id) PROVE Goal
  BY <1>5, RedrawDueKeeps, TerminalReadyKeeps
<1>6. ASSUME NEW c, Stop(c) \/ LaunchFails(c) PROVE Goal
  BY <1>6 DEF Stop, LaunchFails, Down
<1>7. ASSUME NEW c, ClientWritable(c) PROVE Goal
  BY <1>7 DEF ClientWritable, Flushing
<1>8. ASSUME NEW c \in ClientId, BrowserReplace(c) PROVE Goal
  <2>1. PICK i \in DOMAIN tabs, u \in Url :
          ClientFlush(c, peers,
             [d \in DOMAIN replacing \cup {c} |->
                 IF d = c THEN [tab |-> tabs[i].id, url |-> u] ELSE replacing[d]])
    BY <1>8 DEF BrowserReplace
  <2>2. /\ c \in DOMAIN peers /\ nextId' = nextId
        /\ ReadSource(c) \in polled /\ polled' = {q \in polled : q >= ReadSource(c)}
    BY <1>8 DEF BrowserReplace, Packet, Dispatch
  <2>3. ReadSource(c) >= ReadSource(c)
    BY DEF ReadSource, ClientId
  <2>4. ReadSource(c) \in polled' /\ \A q \in polled' : q >= ReadSource(c)
    BY <2>2, <2>3
  <2>5. Requested(c)
    BY <2>1, <2>2, <2>4 DEF Requested, Flushing
  <2> QED BY <2>5
<1>9. ASSUME NEW c, \/ Query(c) \/ Handin(c) \/ Disconnect(c) \/ Handoff(c) \/ Attach(c)
                    \/ NewBrowser(c) \/ NewShell(c) \/ HelloReused(c)
      PROVE  Goal
  BY <1>9, AnswersKeep, AttachKeeps, NewBrowserKeeps, NewShellKeeps, HelloReusedKeeps
<1>10. ASSUME NEW c, NEW i, \/ Navigate(c, i) \/ Control(c, i) \/ Claim(c, i) \/ Attend(c, i)
                            \/ Release(c, i) \/ Close(c, i)
       PROVE  Goal
  BY <1>10, NavigateKeeps, OwnershipKeeps, LeavingKeeps
<1> HIDE DEF Goal
<1>11. CASE Next
  BY <1>11, <1>2, <1>3, <1>4, <1>5, <1>6, <1>7, <1>8, <1>9, <1>10, Zenon DEF Next, Goal
<1> QED BY <1>1, <1>11 DEF Goal

(* While the service lives, also across an upgrade, a tab that appears has *)
(* an id no tab had before, and next_id never goes back (serve,            *)
(* receive_handoff, adopt).                                                *)
THEOREM IdsStayFresh == Spec => IdsAreFresh
<1>1. ServiceInv /\ [Next]_vars =>
        [(status = "up" /\ status' = "up") =>
            /\ nextId' >= nextId
            /\ \A id \in Ids(tabs') \ Ids(tabs) : id >= nextId]_vars
  <2> SUFFICES ASSUME ServiceInv, [Next]_vars, status = "up" /\ status' = "up"
               PROVE  /\ nextId' >= nextId
                      /\ \A id \in Ids(tabs') \ Ids(tabs) : id >= nextId
    OBVIOUS
  <2>1. CASE TabsKeepKind
    BY <2>1 DEF TabsKeepKind, Fresh, Kept, Ids
  <2>2. ASSUME NEW c, NEW rp, Flushing(c, rp)
        PROVE  nextId' >= nextId /\ Ids(tabs') \subseteq Ids(tabs)
    <3>1. /\ c \in DOMAIN peers /\ ClientFlush(c, peers, rp) /\ nextId' = nextId
          /\ nextId \in Int /\ tabs \in Seq(Tab)
      BY <2>2, ServiceShape DEF Flushing
    <3>2. Within(tabs', tabs) \/ tabs' = Convert(tabs, rp[c])
      BY <3>1, FlushKeeps
    <3>3. CASE Within(tabs', tabs)
      BY <3>1, <3>3 DEF Within, Kept, Ids
    <3>4. CASE tabs' = Convert(tabs, rp[c])
      <4>1. /\ DOMAIN tabs' = DOMAIN tabs
            /\ \A i \in DOMAIN tabs : tabs'[i].id = tabs[i].id
        BY <3>1, <3>4, ConvertKeeps, Zenon
      <4> QED BY <3>1, <4>1 DEF Ids
    <3> QED BY <3>2, <3>3, <3>4
  <2> QED BY <2>1, <2>2, StepKeeps DEF Requested
<1> QED BY <1>1, InvHolds, PTL DEF Spec, IdsAreFresh

(* A shell's tab becomes a browser only when its requester is connected    *)
(* and has been written its acknowledgement, whatever order windows drop,  *)
(* flush, disconnect and close tabs in (finish_replacement).               *)
THEOREM ConversionStaysAcknowledged == Spec => ConversionIsAcknowledged
<1> DEFINE Acknowledged(i) ==
      \E c \in DOMAIN peers \cap DOMAIN peers' :
         /\ ~peers'[c].queued
         /\ \/ c \in DOMAIN replacing /\ replacing[c].tab = tabs[i].id
            \/ /\ ReadSource(c) \in polled'
               /\ \A q \in polled' : q >= ReadSource(c)
<1>1. ServiceInv /\ [Next]_vars =>
        [\A i \in DOMAIN tabs, j \in DOMAIN tabs' :
            (/\ status = "up" /\ tabs[i].id = tabs'[j].id
             /\ IsTerminal(tabs[i]) /\ ~IsTerminal(tabs'[j]))
            => Acknowledged(i)]_vars
  <2> SUFFICES ASSUME ServiceInv, [Next]_vars, status = "up",
                      NEW i \in DOMAIN tabs, NEW j \in DOMAIN tabs',
                      tabs[i].id = tabs'[j].id,
                      IsTerminal(tabs[i]), ~IsTerminal(tabs'[j])
               PROVE  Acknowledged(i)
    OBVIOUS
  <2>1. /\ tabs \in Seq(Tab) /\ Sound(tabs, peers, replacing, nextId)
        /\ \A k \in DOMAIN tabs : tabs[k].id = tabs[i].id => k = i
    <3>1. tabs \in Seq(Tab) /\ Sound(tabs, peers, replacing, nextId)
      BY ServiceShape
    <3>2. ASSUME NEW k \in DOMAIN tabs, tabs[k].id = tabs[i].id PROVE k = i
      BY <3>1, <3>2, IdsDiffer DEF Sound
    <3> QED BY <3>1, <3>2
  <2>2. ~Kept(tabs'[j], tabs)
    BY <2>1 DEF Kept
  <2>3. ~TabsKeepKind
    <3>1. tabs[i].id < nextId /\ nextId \in Int /\ tabs[i].id \in Int
      BY <2>1, IdsOK, ServiceShape DEF Sound, TabId
    <3> QED BY <2>2, <3>1 DEF TabsKeepKind, Fresh
  <2>4. ASSUME NEW c, NEW rp, Flushing(c, rp)
        PROVE  /\ c \in DOMAIN peers \cap DOMAIN peers' /\ ~peers'[c].queued
               /\ c \in DOMAIN rp /\ rp[c].tab = tabs[i].id
    <3>1. c \in DOMAIN peers /\ ClientFlush(c, peers, rp)
      BY <2>4 DEF Flushing
    <3>2. ~Within(tabs', tabs)
      BY <2>2 DEF Within
    <3>3. /\ c \in DOMAIN rp /\ tabs' = Convert(tabs, rp[c])
          /\ c \in DOMAIN peers' /\ ~peers'[c].queued
      BY <3>1, <3>2, FlushKeeps
    <3>4. /\ DOMAIN tabs' = DOMAIN tabs
          /\ \A k \in DOMAIN tabs :
               /\ tabs'[k].id = tabs[k].id
               /\ tabs[k].id # rp[c].tab => tabs'[k] = tabs[k]
      <4> DEFINE us == Convert(tabs, rp[c])
      <4>1. /\ DOMAIN us = DOMAIN tabs
            /\ \A k \in DOMAIN tabs :
                 us[k].id = tabs[k].id /\ (tabs[k].id # rp[c].tab => us[k] = tabs[k])
        BY <2>1, ConvertKeeps
      <4>2. tabs' = us
        BY <3>3
      <4> HIDE DEF us
      <4> QED BY <4>1, <4>2
    <3>5. j = i
      BY <2>1, <3>4
    <3> QED BY <3>1, <3>3, <3>4, <3>5
  <2>5. ASSUME NEW c, Flushing(c, replacing) PROVE Acknowledged(i)
    BY <2>4, <2>5
  <2>6. ASSUME NEW c, Requested(c) PROVE Acknowledged(i)
    <3>1. PICK tab, u :
            LET rp == [d \in DOMAIN replacing \cup {c} |->
                         IF d = c THEN [tab |-> tab, url |-> u] ELSE replacing[d]]
            IN /\ Flushing(c, rp)
               /\ ReadSource(c) \in polled'
               /\ \A q \in polled' : q >= ReadSource(c)
      BY <2>6 DEF Requested
    <3> QED BY <2>4, <3>1
  <2>7. tabs' # <<>>
    OBVIOUS
  <2> HIDE DEF Acknowledged
  <2> QED BY <2>3, <2>5, <2>6, <2>7, StepKeeps
<1> QED BY <1>1, InvHolds, PTL DEF Spec, ConversionIsAcknowledged
=============================================================================
