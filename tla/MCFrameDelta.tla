----------------------------- MODULE MCFrameDelta -----------------------------
(* Instances of FrameDelta for TLC. *)
EXTENDS FrameDelta
CONSTANTS a, b
MCBlank == [c \in 1..Columns |-> a]
(* Some rows collide, some do not. *)
MCHash == [r \in Row |-> r[1] = a]
=============================================================================
