--------------------------- MODULE FrameDeltaProofs ---------------------------
(***************************************************************************)
(* What FrameRowsProofs shows of one message, through every sequence of    *)
(* drawing, scrolling and messages, for screens and histories of every     *)
(* size: baseline and window agree, and hold every row of the view that    *)
(* was marked when the message was made.                                   *)
(***************************************************************************)
EXTENDS FrameDelta, FrameRowsProofs

-----------------------------------------------------------------------------
(* What holds between steps. *)
DeltaInv == DeltaTypeOK /\ WindowShowsBaseline /\ UnmarkedRowsAreCurrent

(* The view is a screen, of history rows above live ones. *)
LEMMA ShownIsScreen == ASSUME DeltaTypeOK PROVE Shown \in Screens
<1>1. /\ live \in [1..Height -> Row] /\ hist \in Seq(Row) /\ scr \in 0..Len(hist)
      /\ Height \in Nat
  BY DeltaAssumption DEF DeltaTypeOK, Screens, Rows
<1>2. ASSUME NEW r \in 1..Height PROVE Line(r) \in Row
  <2>1. CASE r <= scr
    <3>1. Len(hist) - scr + r \in 1..Len(hist) BY <1>1, <2>1
    <3>2. hist[Len(hist) - scr + r] \in Row BY <1>1, <3>1
    <3> QED BY <2>1, <3>2 DEF Line
  <2>2. CASE ~(r <= scr)
    <3>1. r - scr \in 1..Height BY <1>1, <2>2
    <3>2. live[r - scr] \in Row BY <1>1, <3>1
    <3> QED BY <2>2, <3>2 DEF Line
  <2> QED BY <2>1, <2>2
<1> QED BY <1>2 DEF Shown, Screens, Rows

(* The first message meets an empty baseline. *)
LEMMA DeltaInit == Init => DeltaInv
BY DeltaAssumption DEF Init, DeltaInv, DeltaTypeOK, WindowShowsBaseline,
    UnmarkedRowsAreCurrent, Screens

(* Drawing marks the live row it writes, which is the row of the view when  *)
(* that is not scrolled, and leaves history rows alone.                     *)
LEMMA DrawKeeps == ASSUME DeltaInv, Draw PROVE DeltaInv'
<1>1. PICK r \in Rows, new \in Row :
        /\ live' = [live EXCEPT ![r] = new]
        /\ dirty' = dirty \cup {r}
  BY DEF Draw
<1>2. hist' = hist /\ scr' = scr /\ base' = base /\ view' = view BY DEF Draw
<1>3. DeltaTypeOK'
  BY <1>1, <1>2 DEF DeltaInv, DeltaTypeOK, Screens
<1>4. WindowShowsBaseline'
  BY <1>2 DEF DeltaInv, WindowShowsBaseline
<1>5. UnmarkedRowsAreCurrent'
  <2>1. SUFFICES ASSUME base # <<>>, NEW s \in Rows \ dirty', scr = 0 \/ s <= scr
                 PROVE  view[s] = Line(s)'
    BY <1>2 DEF UnmarkedRowsAreCurrent
  <2>2. s \in Rows \ dirty /\ s # r BY <1>1, <2>1
  <2>3. view[s] = Line(s)
    BY <2>1, <2>2 DEF DeltaInv, UnmarkedRowsAreCurrent
  <2>4. Line(s)' = Line(s)
    <3>1. CASE s <= scr BY <1>2, <3>1 DEF Line
    <3>2. CASE ~(s <= scr)
      <4>1. scr = 0 /\ s \in Int BY <2>1, <3>2 DEF Rows
      <4>2. s - scr = s BY <4>1
      <4>3. live'[s] = live[s] BY <1>1, <2>2 DEF DeltaInv, DeltaTypeOK, Screens
      <4> QED BY <1>2, <3>2, <4>2, <4>3 DEF Line
    <3> QED BY <3>1, <3>2
  <2> QED BY <2>3, <2>4
<1> QED BY <1>3, <1>4, <1>5 DEF DeltaInv

(* Whatever moves rows under the view marks all of them. *)
LEMMA MarkAllKeeps ==
    ASSUME DeltaInv, dirty' = Rows, base' = base, view' = view, live' \in Screens,
           hist' \in Seq(Row), Len(hist') <= History, scr' \in 0..Len(hist')
    PROVE  DeltaInv'
BY DEF DeltaInv, DeltaTypeOK, WindowShowsBaseline, UnmarkedRowsAreCurrent

(* A line feed keeps the history within its bound. *)
LEMMA LineFeedKeeps == ASSUME DeltaInv, LineFeed PROVE DeltaInv'
<1>1. /\ live \in [1..Height -> Row] /\ hist \in Seq(Row) /\ Len(hist) <= History
      /\ scr \in 0..Len(hist)
      /\ Height \in Nat \ {0} /\ Blank \in Row /\ History \in Nat
  BY DeltaAssumption DEF DeltaInv, DeltaTypeOK, Screens, Rows
<1>2. live' \in Screens
  BY <1>1 DEF LineFeed, Screens, Rows
<1>3. live[1] \in Row BY <1>1
<1>4. hist' \in Seq(Row) /\ Len(hist') <= History
  <2>1. CASE History = 0
    BY <1>1, <2>1 DEF LineFeed, Pushed
  <2>2. CASE History # 0 /\ Len(hist) < History
    BY <1>1, <1>3, <2>2 DEF LineFeed, Pushed
  <2>3. CASE History # 0 /\ ~(Len(hist) < History)
    <3>1. hist # <<>> BY <1>1, <2>3
    <3>2. Tail(hist) \in Seq(Row) /\ Len(Tail(hist)) = Len(hist) - 1
      BY <1>1, <3>1
    <3>3. hist' = Append(Tail(hist), live[1]) BY <2>3 DEF LineFeed, Pushed
    <3> QED BY <1>1, <1>3, <3>2, <3>3
  <2> QED BY <2>1, <2>2, <2>3
<1>5. scr' \in 0..Len(hist')
  <2>1. Len(hist') \in Nat BY <1>4
  <2>2. scr' = IF scr = 0 THEN 0 ELSE IF scr < Len(hist') THEN scr + 1 ELSE Len(hist')
    BY DEF LineFeed
  <2> QED BY <1>1, <2>1, <2>2
<1>6. dirty' = Rows /\ base' = base /\ view' = view BY DEF LineFeed
<1> QED BY <1>2, <1>4, <1>5, <1>6, MarkAllKeeps

(* Scrolling moves the view within the history. *)
LEMMA ScrollViewKeeps == ASSUME DeltaInv, ScrollView PROVE DeltaInv'
<1>1. /\ dirty' = Rows /\ base' = base /\ view' = view /\ live' = live /\ hist' = hist
      /\ scr' \in 0..Len(hist)
  BY DEF ScrollView
<1>2. live \in Screens /\ hist \in Seq(Row) /\ Len(hist) <= History
  BY DEF DeltaInv, DeltaTypeOK
<1> QED BY <1>1, <1>2, MarkAllKeeps

(* Clearing the history returns the view to the live rows. *)
LEMMA ClearHistoryKeeps == ASSUME DeltaInv, ClearHistory PROVE DeltaInv'
<1>1. /\ dirty' = Rows /\ base' = base /\ view' = view /\ live' = live /\ hist' = <<>>
      /\ scr' = 0
  BY DEF ClearHistory
<1>2. live \in Screens /\ History \in Nat
  BY DeltaAssumption DEF DeltaInv, DeltaTypeOK
<1>3. hist' \in Seq(Row) /\ Len(hist') <= History /\ scr' \in 0..Len(hist')
  BY <1>1, <1>2
<1> QED BY <1>1, <1>2, <1>3, MarkAllKeeps

(* A message brings the marked rows to baseline and window. *)
LEMMA ReplicateKeeps == ASSUME DeltaInv, Replicate PROVE DeltaInv'
<1>1. PICK full \in BOOLEAN, features \in SUBSET Negotiated :
        LET plan == Plan(base, Shown, dirty, full, features) IN
        IF Empty(plan) THEN UNCHANGED <<base, view>>
        ELSE /\ base' = Commit(base, Shown, plan)
             /\ view' = Finish(view, plan, Blank)
  BY DEF Replicate
<1>2. live' = live /\ hist' = hist /\ scr' = scr /\ dirty' = {}
  BY DEF Replicate, engine
<1>3. /\ base \in {<<>>} \cup Screens /\ dirty \in SUBSET Rows /\ view = base
      /\ Shown \in Screens
  BY ShownIsScreen DEF DeltaInv, DeltaTypeOK, WindowShowsBaseline
<1> DEFINE plan == Plan(base, Shown, dirty, full, features)
           after == Commit(base, Shown, plan)
<1>4. /\ after \in Screens
      /\ Finish(base, plan, Blank) = after
      /\ \A r \in Rows :
           after[r] = Shown[r] \/ (base # <<>> /\ r \notin dirty /\ after[r] = base[r])
      /\ Empty(plan) => base = after
  <2> DEFINE now == Shown
  <2>1. Screens = Screen(Height) /\ Rows = 1..Height
    BY DEF Screens, Screen, Rows
  <2>2. /\ Height \in Nat \ {0} /\ now \in Screen(Height) /\ dirty \in SUBSET (1..Height)
        /\ Shows(base, base)
    <3>1. base \in Screen(Height) => base \in Screen(Len(base))
      BY DeltaAssumption DEF Screen
    <3> QED BY <1>3, <2>1, <3>1, DeltaAssumption DEF Shows
  <2> HIDE DEF now
  <2>3. Exact(Height, base, now, dirty, full, features, base, Blank)
    BY <2>2, PlanIsExact
  <2> QED BY <2>1, <2>3 DEF now, Exact
<1>5. base' = after /\ view' = after
  BY <1>1, <1>3, <1>4
<1> HIDE DEF plan, after
<1>6. DeltaTypeOK'
  BY <1>2, <1>4, <1>5 DEF DeltaInv, DeltaTypeOK
<1>7. WindowShowsBaseline'
  BY <1>5 DEF WindowShowsBaseline
<1>8. UnmarkedRowsAreCurrent'
  <2>1. SUFFICES ASSUME NEW r \in Rows, scr = 0 \/ r <= scr
                 PROVE  view'[r] = Line(r)'
    BY <1>2 DEF UnmarkedRowsAreCurrent
  <2>2. Line(r)' = Line(r) /\ Shown[r] = Line(r)
    BY <1>2 DEF Line, Shown
  <2>3. CASE after[r] = Shown[r]
    BY <1>5, <2>2, <2>3
  <2>4. CASE base # <<>> /\ r \notin dirty /\ after[r] = base[r]
    <3>1. view[r] = Line(r)
      BY <2>1, <2>4 DEF DeltaInv, UnmarkedRowsAreCurrent
    <3> QED BY <1>3, <1>5, <2>2, <2>4, <3>1
  <2> QED BY <1>4, <2>3, <2>4
<1> QED BY <1>6, <1>7, <1>8 DEF DeltaInv

(* The three facts together are inductive. *)
LEMMA DeltaInvHolds == Spec => []DeltaInv
<1>1. Init => DeltaInv BY DeltaInit
<1>2. DeltaInv /\ [Next]_vars => DeltaInv'
  <2>1. SUFFICES ASSUME DeltaInv, [Next]_vars PROVE DeltaInv' OBVIOUS
  <2>2. CASE Draw BY <2>1, <2>2, DrawKeeps
  <2>3. CASE LineFeed BY <2>1, <2>3, LineFeedKeeps
  <2>4. CASE ScrollView BY <2>1, <2>4, ScrollViewKeeps
  <2>5. CASE ClearHistory BY <2>1, <2>5, ClearHistoryKeeps
  <2>6. CASE Replicate BY <2>1, <2>6, ReplicateKeeps
  <2>7. CASE UNCHANGED vars
    BY <2>1, <2>7 DEF vars, DeltaInv, DeltaTypeOK, WindowShowsBaseline,
        UnmarkedRowsAreCurrent, Line
  <2> QED BY <2>1, <2>2, <2>3, <2>4, <2>5, <2>6, <2>7 DEF Next
<1> QED BY <1>1, <1>2, PTL DEF Spec

(* Baselines and windows always have a whole row per line of the screen,    *)
(* and the view stays within the history.                                   *)
THEOREM DeltaTypeCorrect == Spec => []DeltaTypeOK
<1>1. DeltaInv => DeltaTypeOK BY DEF DeltaInv
<1> QED BY <1>1, DeltaInvHolds, PTL

(* The window never shows anything but the baseline, whatever the size of   *)
(* the screen, the features negotiated and the collisions of row_hash.      *)
THEOREM WindowFollowsBaseline == Spec => []WindowShowsBaseline
<1>1. DeltaInv => WindowShowsBaseline BY DEF DeltaInv
<1> QED BY <1>1, DeltaInvHolds, PTL

(* Rows that are not marked are never stale in the window while its view is *)
(* not scrolled, nor are history rows in a scrolled view.                   *)
THEOREM UnmarkedRowsStayCurrent == Spec => []UnmarkedRowsAreCurrent
<1>1. DeltaInv => UnmarkedRowsAreCurrent BY DEF DeltaInv
<1> QED BY <1>1, DeltaInvHolds, PTL
=============================================================================
