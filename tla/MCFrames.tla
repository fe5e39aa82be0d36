------------------------------ MODULE MCFrames ------------------------------
(* Instances of Frames for TLC.  Rows of one cell; row_hash collides.  Rows *)
(* move only on screens of three or more rows: see MCFrameDelta.            *)
EXTENDS Frames, TLC
CONSTANTS a, b
MCBlank == [c \in 1..Columns |-> a]
MCHash == [r \in Row |-> 0]
Symmetric == Permutations(Client)
=============================================================================
