----------------------------- MODULE MCHandoff -----------------------------
(* Handoff for TLC.  Two sessions can be told apart by what was read from  *)
(* them; a second and a third attempt meet late answers to earlier ones.   *)
EXTENDS Handoff
=============================================================================
