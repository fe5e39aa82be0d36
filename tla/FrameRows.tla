------------------------------ MODULE FrameRows ------------------------------
(***************************************************************************)
(* The row delta of frames.rs and its application in the window's          *)
(* viewport.rs: what prepare() puts in a frame message, what commit() does *)
(* to the baseline and what finish() does to the imported cells.           *)
(*                                                                         *)
(* A row is a tuple of cells.  Hash stands for row_hash and may collide.   *)
(* A negotiated move and spans are the "copy" and "span" features.         *)
(***************************************************************************)
EXTENDS Integers, Sequences, FiniteSets, FiniteSetsExt

CONSTANTS
    Cell,       \* cell contents
    Columns,    \* cells in a row
    Hash        \* row_hash: a function of rows

Row == [1..Columns -> Cell]

ASSUME RowAssumption ==
    /\ Columns \in Nat \ {0}
    /\ DOMAIN Hash = Row

Features == {"copy", "span"}

-----------------------------------------------------------------------------
(* find_move *)

Changed(before, now) == {r \in DOMAIN now : before[r] # now[r]}

(* Rows first..last of now look like the rows shift further on in before. *)
LooksMoved(before, now, shift, first, last) ==
    \A r \in first..last :
        /\ r + shift \in DOMAIN before
        /\ Hash[now[r]] = Hash[before[r + shift]]

(* The runs the scan meets: for each shift and last row the longest one. *)
Runs(before, now) ==
    {m \in [shift : ((1 - Len(now))..(Len(now) - 1)) \ {0},
            first : DOMAIN now, last : DOMAIN now] :
        /\ m.first <= m.last
        /\ LooksMoved(before, now, m.shift, m.first, m.last)
        /\ m.first = 1 \/ ~LooksMoved(before, now, m.shift, m.first - 1, m.last)}

Count(m) == m.last + 1 - m.first

(* The changed rows a run would repair. *)
Score(before, now, m) == Cardinality(Changed(before, now) \cap (m.first..m.last))

Better(before, now, m, n) ==
    \/ Score(before, now, m) > Score(before, now, n)
    \/ Score(before, now, m) = Score(before, now, n) /\ Count(m) > Count(n)

Earlier(m, n) == m.shift < n.shift \/ (m.shift = n.shift /\ m.last < n.last)

(* The scan keeps the first of the best runs that repair two rows or more.  *)
Best(before, now) ==
    LET runs == Runs(before, now) IN
    {m \in runs :
        /\ Score(before, now, m) >= 2
        /\ \A n \in runs \ {m} :
             /\ ~Better(before, now, n, m)
             /\ Better(before, now, m, n) \/ Earlier(m, n)}

Move(m) == [source |-> m.first + m.shift, destination |-> m.first, count |-> Count(m)]

FindMoveByHash(before, now) == {Move(m) : m \in Best(before, now)}

(* Hashes choose the candidate; only equal rows authorize it.  The result   *)
(* is empty or the one move.                                                *)
FindMove(before, now) ==
    {m \in {Move(b) : b \in Best(before, now)} :
        \A k \in 0..(m.count - 1) : before[m.source + k] = now[m.destination + k]}

(* copy_within over rows: all sources are read before any is written. *)
Copied(rows, m) ==
    [r \in DOMAIN rows |->
        IF r \in m.destination..(m.destination + m.count - 1)
        THEN rows[m.source + r - m.destination] ELSE rows[r]]

Moved(rows, ms) == IF ms = {} THEN rows ELSE Copied(rows, CHOOSE m \in ms : TRUE)

-----------------------------------------------------------------------------
(* Screen::prepare: the rows of a message. *)

SearchMove(now, dirty, full, features) ==
    /\ ~full
    /\ "copy" \in features
    /\ Cardinality(dirty) >= 3
    /\ Cardinality(dirty) * 2 >= Len(now)

(* The columns from the first to the last in which two rows differ, or all  *)
(* of them where the client has not negotiated spans.  A span that would    *)
(* save no bytes is sent as a row, which writes the same cells.             *)
Span(old, new, features) ==
    IF "span" \in features
    THEN {c \in 1..Columns : \E first, last \in 1..Columns :
            /\ first <= c /\ c <= last
            /\ old[first] # new[first] /\ old[last] # new[last]}
    ELSE 1..Columns

FullBaseline(base, now, full) == full \/ Len(base) # Len(now)

(* The message for a screen "now" of which "dirty" rows may have changed    *)
(* since "base"; updates is a function from rows to the cells sent.         *)
Plan(base, now, dirty, full, features) ==
    LET all == FullBaseline(base, now, full)
        move == IF SearchMove(now, dirty, all, features) THEN FindMove(base, now) ELSE {}
        ground == Moved(base, move)
        rows == {r \in DOMAIN now : all \/ (r \in dirty /\ now[r] # ground[r])}
    IN [full |-> all, move |-> move, height |-> Len(now),
        updates |-> [r \in rows |->
                        LET cs == IF all THEN 1..Columns ELSE Span(ground[r], now[r], features)
                        IN [c \in cs |-> now[r][c]]]]

Empty(plan) == ~plan.full /\ plan.move = {} /\ DOMAIN plan.updates = {}

-----------------------------------------------------------------------------
(* Applying a message. *)

(* Writing the sent cells over the rows. *)
Overwritten(rows, updates) ==
    [r \in DOMAIN rows |->
        IF r \notin DOMAIN updates THEN rows[r]
        ELSE [c \in 1..Columns |->
                IF c \in DOMAIN updates[r] THEN updates[r][c] ELSE rows[r][c]]]

(* Rows of a new height: kept where they exist, blank below. *)
Resized(rows, height, blank) ==
    [r \in 1..height |-> IF r \in DOMAIN rows THEN rows[r] ELSE blank]

FinishUpdatesFirst(cells, plan, blank) ==
    Moved(Overwritten(Resized(cells, plan.height, blank), plan.updates), plan.move)

(* Viewport::finish: the window's cells after the message. *)
Finish(cells, plan, blank) ==
    Overwritten(Moved(Resized(cells, plan.height, blank), plan.move), plan.updates)

(* Screen::commit: the baseline after the message.  It stores whole rows,   *)
(* and a full message updates every row.                                    *)
Commit(base, now, plan) ==
    [r \in DOMAIN now |->
        IF r \in DOMAIN plan.updates THEN now[r] ELSE Moved(base, plan.move)[r]]
=============================================================================
