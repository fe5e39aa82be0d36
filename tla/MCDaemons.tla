----------------------------- MODULE MCDaemons ------------------------------
(* Instances of Daemons for TLC. *)
EXTENDS Daemons

MCEncodable == UNION {[1..n -> Dir] : n \in 0..TabLimit}
=============================================================================
