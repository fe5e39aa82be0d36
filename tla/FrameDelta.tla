------------------------------ MODULE FrameDelta ------------------------------
(***************************************************************************)
(* Replication of one screen to one window that imports every message at   *)
(* once: the engine draws, marks rows and scrolls through its history,     *)
(* replicate_encoded sends deltas.  The queue, congestion and control are  *)
(* module Frames.                                                          *)
(*                                                                         *)
(* The engine marks rows of the live screen; row_dirty is asked about rows *)
(* of the view, which lies scr rows further up.                            *)
(***************************************************************************)
EXTENDS FrameRows

CONSTANTS
    Height,     \* rows of the screen
    Blank,      \* a cleared row
    History,    \* theme_history_size
    Copies,     \* may the client have negotiated moves?
    Spans       \* may the client have negotiated spans?

ASSUME DeltaAssumption ==
    /\ Height \in Nat \ {0}
    /\ Blank \in Row
    /\ History \in Nat
    /\ Copies \in BOOLEAN /\ Spans \in BOOLEAN

VARIABLES
    live,       \* term.line: the rows programs write
    hist,       \* term.hist: rows that left the screen, oldest first
    scr,        \* term.scr: how far the view is scrolled back
    dirty,      \* term.dirty: the rows marked since the last clean()
    base,       \* Screen.bytes: the baseline, empty or a row per screen row
    view        \* the window's imported cells, empty before the first frame

engine == <<live, hist, scr>>
vars == <<live, hist, scr, dirty, base, view>>

Rows == 1..Height
Screens == [Rows -> Row]
Negotiated == (IF Copies THEN {"copy"} ELSE {}) \cup (IF Spans THEN {"span"} ELSE {})

(* te_tlineat: a row of the view. *)
Line(r) == IF r <= scr THEN hist[Len(hist) - scr + r] ELSE live[r - scr]

Shown == [r \in Rows |-> Line(r)]

Init ==
    /\ live = [r \in Rows |-> Blank]
    /\ hist = <<>> /\ scr = 0
    /\ dirty = Rows
    /\ base = <<>>
    /\ view = <<>>

(* te_tsetchar, te_tclearregion: a live row is written and marked. *)
Draw ==
    /\ \E r \in Rows, new \in Row :
         /\ live' = [live EXCEPT ![r] = new]
         /\ dirty' = dirty \cup {r}
    /\ UNCHANGED <<hist, scr, base, view>>

(* te_tscrollup by one line: the top row enters the history, if there is    *)
(* one, and a scrolled view keeps its place.                                *)
Pushed == IF History = 0 THEN hist
          ELSE IF Len(hist) < History THEN Append(hist, live[1])
          ELSE Append(Tail(hist), live[1])

LineFeed ==
    /\ live' = [r \in Rows |-> IF r < Height THEN live[r + 1] ELSE Blank]
    /\ hist' = Pushed
    /\ scr' = IF scr = 0 THEN 0 ELSE IF scr < Len(hist') THEN scr + 1 ELSE Len(hist')
    /\ dirty' = Rows
    /\ UNCHANGED <<base, view>>

(* te_kscrollup, te_kscrolldown; input returns to the live rows. *)
ScrollView ==
    /\ \E s \in 0..Len(hist) : s # scr /\ scr' = s
    /\ dirty' = Rows
    /\ UNCHANGED <<live, hist, base, view>>

(* ED 3 discards the history. *)
ClearHistory ==
    /\ hist # <<>>
    /\ hist' = <<>> /\ scr' = 0
    /\ dirty' = Rows
    /\ UNCHANGED <<live, base, view>>

(* replicate_encoded, then the window imports the message. *)
Replicate ==
    /\ \E full \in BOOLEAN, features \in SUBSET Negotiated :
         LET plan == Plan(base, Shown, dirty, full, features) IN
         IF Empty(plan) THEN UNCHANGED <<base, view>>
         ELSE /\ base' = Commit(base, Shown, plan)
              /\ view' = Finish(view, plan, Blank)
    /\ dirty' = {}
    /\ UNCHANGED engine

Next == Draw \/ LineFeed \/ ScrollView \/ ClearHistory \/ Replicate

Spec == Init /\ [][Next]_vars

-----------------------------------------------------------------------------
(* Types of the replication state. *)
DeltaTypeOK ==
    /\ live \in Screens
    /\ hist \in Seq(Row) /\ Len(hist) <= History
    /\ scr \in 0..Len(hist)
    /\ dirty \subseteq Rows
    /\ base \in {<<>>} \cup Screens
    /\ view \in {<<>>} \cup Screens

(* The window shows exactly the baseline: moves with overlapping source and *)
(* destination, spans that send only the changed cells and hash collisions  *)
(* never make the window's cells differ from what the daemon believes it    *)
(* sent (frames.rs commit, viewport.rs finish).                             *)
WindowShowsBaseline == view = base

(* A row that is not marked is current in the window, so skipping it is     *)
(* safe: every row while the view is at the bottom, whatever was scrolled   *)
(* before, and the history rows of a scrolled view.                         *)
UnmarkedRowsAreCurrent ==
    base # <<>> =>
        \A r \in Rows \ dirty : (scr = 0 \/ r <= scr) => view[r] = Line(r)

(* After a message the window shows what the engine shows, scrolled or not: *)
(* frame_tests.rs compares a replica with a complete encoding.              *)
DeltaReconstructsViewport == (base # <<>> /\ dirty = {}) => view = Shown
=============================================================================
