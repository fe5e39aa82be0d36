------------------------------ MODULE MCWindows ------------------------------
(* Instances of Windows for TLC; the constants are given in the .cfg file. *)
EXTENDS Windows
=============================================================================
