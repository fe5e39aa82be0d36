---------------------------- MODULE FrameRowsProofs ---------------------------
(***************************************************************************)
(* Row deltas are exact, for screens of every height and width, every cell *)
(* alphabet and every hash function: what prepare() sends, finish() turns  *)
(* into exactly what commit() stores.                                      *)
(***************************************************************************)
EXTENDS FrameRows, TLAPS

Screen(h) == [1..h -> Row]

(* A move that find_move returns lies within the screen and puts rows where *)
(* they now are: the byte comparison makes the choice of hash irrelevant.   *)
LEMMA MoveIsExact ==
    ASSUME NEW h \in Nat \ {0}, NEW before \in Screen(h), NEW now \in Screen(h),
           NEW m \in FindMove(before, now)
    PROVE  /\ Copied(before, m) \in Screen(h)
           /\ \A r \in 1..h : Copied(before, m)[r] \in {before[r], now[r]}
<1>1. PICK b \in Best(before, now) : m = Move(b)
  BY DEF FindMove
<1>2. \A k \in 0..(m.count - 1) : before[m.source + k] = now[m.destination + k]
  BY DEF FindMove
<1>3. DOMAIN now = 1..h /\ DOMAIN before = 1..h /\ h \in Nat
  BY DEF Screen
<1>4. b \in Runs(before, now)
  BY <1>1 DEF Best
<1>5. Len(now) = h
  BY <1>3 DEF Screen
<1>6. /\ b.shift \in Int /\ b.first \in 1..h /\ b.last \in 1..h
      /\ b.first <= b.last
      /\ \A r \in b.first..b.last : r + b.shift \in 1..h
  BY <1>3, <1>4, <1>5 DEF Runs, LooksMoved
<1>7. /\ m.source = b.first + b.shift /\ m.destination = b.first
      /\ m.count = b.last + 1 - b.first
  BY <1>1 DEF Move, Count
<1>8. ASSUME NEW r \in 1..h
      PROVE  /\ Copied(before, m)[r] \in Row
             /\ Copied(before, m)[r] \in {before[r], now[r]}
  <2>1. CASE r \in b.first..b.last
    <3>1. r - b.first \in 0..(m.count - 1) /\ m.source + r - m.destination \in 1..h
      BY <1>6, <1>7, <2>1
    <3>2. before[m.source + (r - b.first)] = now[m.destination + (r - b.first)]
      BY <1>2, <3>1
    <3>3. /\ m.source + (r - b.first) = m.source + r - m.destination
          /\ m.destination + (r - b.first) = r
          /\ r \in m.destination..(m.destination + m.count - 1)
      BY <1>6, <1>7, <2>1
    <3>4. Copied(before, m)[r] = before[m.source + r - m.destination]
      BY <1>3, <3>3 DEF Copied
    <3> QED BY <3>1, <3>2, <3>3, <3>4 DEF Screen
  <2>2. CASE r \notin b.first..b.last
    <3>1. r \notin m.destination..(m.destination + m.count - 1)
      BY <1>6, <1>7, <2>2
    <3>2. Copied(before, m)[r] = before[r]
      BY <1>3, <3>1 DEF Copied
    <3> QED BY <3>2 DEF Screen
  <2> QED BY <2>1, <2>2
<1>9. Copied(before, m) = [r \in 1..h |-> Copied(before, m)[r]]
  BY <1>3 DEF Copied
<1> QED BY <1>8, <1>9 DEF Screen

(* The same for no move or one. *)
LEMMA MovedIsExact ==
    ASSUME NEW h \in Nat \ {0}, NEW before \in Screen(h), NEW now \in Screen(h),
           NEW ms, ms = {} \/ ms = FindMove(before, now)
    PROVE  /\ Moved(before, ms) \in Screen(h)
           /\ \A r \in 1..h : Moved(before, ms)[r] \in {before[r], now[r]}
<1>1. CASE ms = {}
  BY <1>1 DEF Moved
<1>2. CASE ms # {}
  <2>1. PICK m \in FindMove(before, now) : Moved(before, ms) = Copied(before, m)
    BY <1>2 DEF Moved
  <2> QED BY <2>1, MoveIsExact
<1> QED BY <1>1, <1>2

(* The columns of a span cover every difference of the two rows. *)
LEMMA SpanCoversDifferences ==
    ASSUME NEW old \in Row, NEW new \in Row, NEW features
    PROVE  /\ Span(old, new, features) \subseteq 1..Columns
           /\ \A c \in (1..Columns) \ Span(old, new, features) : old[c] = new[c]
<1>1. Columns \in Nat BY RowAssumption
<1>2. CASE "span" \in features
  <2>1. \A c \in 1..Columns : c <= c BY <1>1
  <2> QED BY <1>2, <2>1 DEF Span
<1>3. CASE ~("span" \in features)
  BY <1>3 DEF Span
<1> QED BY <1>2, <1>3

(* Writing a message over the ground yields the rows it was made for, and    *)
(* the ground elsewhere.                                                     *)
LEMMA OverwrittenIsTarget ==
    ASSUME NEW h \in Nat \ {0}, NEW ground, DOMAIN ground = 1..h, NEW target \in Screen(h),
           NEW updates,
           DOMAIN updates \subseteq 1..h,
           \A r \in (1..h) \ DOMAIN updates : ground[r] = target[r],
           \A r \in DOMAIN updates :
              /\ \A c \in DOMAIN updates[r] : updates[r][c] = target[r][c]
              /\ \A c \in (1..Columns) \ DOMAIN updates[r] : ground[r][c] = target[r][c]
    PROVE  Overwritten(ground, updates) = target
<1>1. DOMAIN ground = 1..h /\ target = [r \in 1..h |-> target[r]]
  BY DEF Screen
<1>2. ASSUME NEW r \in 1..h
      PROVE  Overwritten(ground, updates)[r] = target[r]
  <2>1. CASE r \in DOMAIN updates
    <3>1. Overwritten(ground, updates)[r]
            = [c \in 1..Columns |->
                IF c \in DOMAIN updates[r] THEN updates[r][c] ELSE ground[r][c]]
      BY <1>1, <2>1 DEF Overwritten
    <3>2. target[r] \in Row BY DEF Screen
    <3> QED BY <2>1, <3>1, <3>2 DEF Row
  <2>2. CASE r \notin DOMAIN updates
    BY <1>1, <2>2 DEF Overwritten
  <2> QED BY <2>1, <2>2
<1>3. Overwritten(ground, updates) = [r \in 1..h |-> Overwritten(ground, updates)[r]]
  BY <1>1 DEF Overwritten
<1> QED BY <1>1, <1>2, <1>3

(* What a message from the rows old to the rows now achieves: commit() and  *)
(* finish() agree on its result, which holds the marked rows and, elsewhere, *)
(* the old row or the current one; an empty message means that the marked   *)
(* rows were already there.                                                 *)
Exact(h, old, now, marks, full, features, cells, blank) ==
    LET plan == Plan(old, now, marks, full, features)
        after == Commit(old, now, plan)
    IN /\ after \in Screen(h)
       /\ Finish(cells, plan, blank) = after
       /\ \A r \in 1..h :
            \/ after[r] = now[r]
            \/ old # <<>> /\ Len(old) = h /\ r \notin marks /\ after[r] = old[r]
       /\ Empty(plan) => old = after

(* A baseline that the window shows; without one, any cells will do. *)
Shows(cells, old) == old # <<>> => cells = old /\ old \in Screen(Len(old))

(* Every message that prepare() makes is exact. *)
LEMMA PlanIsExact ==
    ASSUME NEW h \in Nat \ {0}, NEW old, NEW now \in Screen(h),
           NEW marks \in SUBSET (1..h), NEW full \in BOOLEAN, NEW features,
           NEW cells, Shows(cells, old), NEW blank
    PROVE  Exact(h, old, now, marks, full, features, cells, blank)
<1> DEFINE plan == Plan(old, now, marks, full, features)
           after == Commit(old, now, plan)
           all == FullBaseline(old, now, full)
           move == IF SearchMove(now, marks, all, features) THEN FindMove(old, now) ELSE {}
           ground == Moved(old, move)
           rows == {r \in DOMAIN now : all \/ (r \in marks /\ now[r] # ground[r])}
           columns(r) == IF all THEN 1..Columns ELSE Span(ground[r], now[r], features)
<1>1. /\ plan.full = all /\ plan.move = move /\ plan.height = Len(now)
      /\ DOMAIN plan.updates = rows
      /\ \A r \in rows : plan.updates[r] = [c \in columns(r) |-> now[r][c]]
  BY DEF Plan
<1>2. /\ h \in Nat \ {0} /\ DOMAIN now = 1..h
      /\ Len(now) = h /\ now = [r \in 1..h |-> now[r]]
  BY DEF Screen
<1>3. \A r \in 1..h : now[r] \in Row
  BY DEF Screen
<1>4. after = [r \in 1..h |-> IF r \in rows THEN now[r] ELSE ground[r]]
  BY <1>1, <1>2 DEF Commit
<1>5. CASE all
  <2>1. move = {} BY <1>5 DEF SearchMove
  <2>2. rows = 1..h BY <1>2, <1>5
  <2>3. after = now BY <1>2, <1>4, <2>2
  <2>4. DOMAIN Resized(cells, h, blank) = 1..h
    BY DEF Resized
  <2>5. Moved(Resized(cells, h, blank), plan.move) = Resized(cells, h, blank)
    BY <1>1, <2>1 DEF Moved
  <2>6. \A r \in rows : plan.updates[r] = [c \in 1..Columns |-> now[r][c]]
    BY <1>1, <1>5
  <2>7. Overwritten(Resized(cells, h, blank), plan.updates) = now
    <3> DEFINE start == Resized(cells, h, blank)
               u == plan.updates
    <3>1. DOMAIN u = 1..h BY <1>1, <2>2
    <3>2. \A r \in DOMAIN u :
            /\ \A c \in DOMAIN u[r] : u[r][c] = now[r][c]
            /\ \A c \in (1..Columns) \ DOMAIN u[r] : start[r][c] = now[r][c]
      <4>1. \A r \in DOMAIN u : u[r] = [c \in 1..Columns |-> now[r][c]]
        BY <2>2, <2>6, <3>1
      <4> HIDE DEF u, start
      <4> QED BY <4>1
    <3>3. DOMAIN start = 1..h BY <2>4
    <3> HIDE DEF u, start
    <3>4. Overwritten(start, u) = now
      BY <3>1, <3>2, <3>3, OverwrittenIsTarget
    <3> QED BY <3>4 DEF u, start
  <2>8. Finish(cells, plan, blank) = now
    BY <1>1, <1>2, <2>5, <2>7 DEF Finish
  <2>9. ~Empty(plan) BY <1>1, <1>5 DEF Empty
  <2> HIDE DEF plan, after
  <2>10. /\ after \in Screen(h)
         /\ Finish(cells, plan, blank) = after
         /\ \A r \in 1..h : after[r] = now[r]
    BY <2>3, <2>8
  <2> QED BY <2>9, <2>10 DEF plan, after, Exact
<1>6. CASE ~all
  <2>1. old # <<>> /\ Len(old) = h /\ old \in Screen(h)
    BY <1>2, <1>6 DEF FullBaseline, Shows
  <2>2. cells = old
    BY <2>1 DEF Shows
  <2>3. /\ ground \in Screen(h)
        /\ \A r \in 1..h : ground[r] \in {old[r], now[r]}
    BY <2>1, MovedIsExact
  <2>4. rows \subseteq 1..h /\ \A r \in 1..h : r \notin rows => r \notin marks \/ ground[r] = now[r]
    BY <1>2, <1>6
  <2>5. after \in Screen(h)
    BY <1>3, <1>4, <2>3 DEF Screen
  <2>6. \A r \in 1..h :
          \/ after[r] = now[r]
          \/ old # <<>> /\ Len(old) = h /\ r \notin marks /\ after[r] = old[r]
    BY <1>4, <2>1, <2>3, <2>4
  <2>7. Resized(cells, h, blank) = old
    BY <1>2, <2>1, <2>2 DEF Resized, Screen
  <2>8. \A r \in rows : /\ plan.updates[r] = [c \in columns(r) |-> now[r][c]]
                         /\ columns(r) = Span(ground[r], now[r], features)
    BY <1>1, <1>6
  <2>9. ASSUME NEW r \in rows
        PROVE  \A c \in (1..Columns) \ columns(r) : ground[r][c] = now[r][c]
    <3>1. ground[r] \in Row /\ now[r] \in Row
      BY <1>2, <1>3, <2>3 DEF Screen
    <3>2. columns(r) = Span(ground[r], now[r], features)
      BY <2>8
    <3> DEFINE g == ground[r]
               n == now[r]
    <3>3. g \in Row /\ n \in Row BY <3>1
    <3> HIDE DEF g, n
    <3>4. \A c \in (1..Columns) \ Span(g, n, features) : g[c] = n[c]
      BY <3>3, SpanCoversDifferences
    <3> QED BY <3>2, <3>4 DEF g, n
  <2>10. Overwritten(ground, plan.updates) = after
    <3> DEFINE u == plan.updates
               start == ground
    <3>1. /\ \A r \in 1..h : r \notin rows => ground[r] = after[r]
          /\ \A r \in rows : after[r] = now[r]
      BY <1>4, <2>4
    <3>2. /\ DOMAIN u \subseteq 1..h /\ DOMAIN start = 1..h
          /\ \A r \in (1..h) \ DOMAIN u : start[r] = after[r]
      <4> HIDE DEF plan, after, rows, ground, columns, all, move
      <4> QED BY <1>1, <2>3, <2>4, <3>1 DEF Screen
    <3>3. \A r \in DOMAIN u :
            /\ \A c \in DOMAIN u[r] : u[r][c] = after[r][c]
            /\ \A c \in (1..Columns) \ DOMAIN u[r] : start[r][c] = after[r][c]
      <4> HIDE DEF plan, after, rows, ground, columns, all, move
      <4>1. SUFFICES ASSUME NEW r \in rows
                     PROVE  /\ \A c \in DOMAIN u[r] : u[r][c] = after[r][c]
                            /\ \A c \in (1..Columns) \ DOMAIN u[r] : start[r][c] = after[r][c]
        BY <1>1
      <4>2. u[r] = [c \in columns(r) |-> now[r][c]] /\ after[r] = now[r]
        BY <2>8, <3>1
      <4>3. \A c \in (1..Columns) \ columns(r) : ground[r][c] = now[r][c]
        BY <2>9
      <4> QED BY <4>2, <4>3
    <3>4. after \in Screen(h) BY <2>5
    <3> HIDE DEF u, start, after
    <3>5. Overwritten(start, u) = after
      BY <3>2, <3>3, <3>4, OverwrittenIsTarget
    <3> QED BY <3>5 DEF u, start
  <2>11. Finish(cells, plan, blank) = after
    BY <1>1, <1>2, <2>7, <2>10 DEF Finish
  <2>12. Empty(plan) => old = after
    <3>1. SUFFICES ASSUME Empty(plan) PROVE old = after OBVIOUS
    <3>2. rows = {} /\ move = {} BY <1>1, <3>1 DEF Empty
    <3>3. ground = old BY <3>2 DEF Moved
    <3>4. old = [r \in 1..h |-> old[r]] BY <2>1 DEF Screen
    <3> QED BY <1>4, <3>2, <3>3, <3>4
  <2> HIDE DEF plan, after
  <2>13. /\ after \in Screen(h)
         /\ Finish(cells, plan, blank) = after
         /\ \A r \in 1..h :
              \/ after[r] = now[r]
              \/ old # <<>> /\ Len(old) = h /\ r \notin marks /\ after[r] = old[r]
         /\ Empty(plan) => old = after
    BY <2>5, <2>6, <2>11, <2>12
  <2> QED BY <2>13 DEF plan, after, Exact
<1> QED BY <1>5, <1>6
=============================================================================
