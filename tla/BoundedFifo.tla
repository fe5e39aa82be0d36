---------------------------- MODULE BoundedFifo ----------------------------
(***************************************************************************)
(* What every user of the daemon's transport queue relies on: a bounded    *)
(* byte stream.  A client's output, a PTY's input and each direction of    *)
(* the bridge accept a chunk whole or not at all, and the bytes accepted   *)
(* leave in order, once each.  How the bytes are stored is not visible.    *)
(***************************************************************************)
EXTENDS Integers, Sequences

CONSTANTS Byte,    \* the values a queued byte can have
          Limit    \* the most bytes that may wait

VARIABLES pending, \* the bytes accepted and not yet written
          took,    \* the chunk the latest operation accepted
          wrote    \* the bytes the latest operation wrote to the transport

fifoVars == <<pending, took, wrote>>

FifoInit == /\ pending \in Seq(Byte)
            /\ Len(pending) <= Limit
            /\ took = << >>
            /\ wrote = << >>

(* A whole chunk joins the back. *)
Accept == /\ took' \in Seq(Byte)
          /\ wrote' = << >>
          /\ pending' = pending \o took'
          /\ Len(pending') <= Limit

(* The oldest bytes leave from the front; a refused chunk is the case in   *)
(* which none do.                                                          *)
Deliver == /\ wrote' \in Seq(Byte)
           /\ took' = << >>
           /\ pending = wrote' \o pending'

FifoNext == Accept \/ Deliver

FifoSpec == FifoInit /\ [][FifoNext]_fifoVars
=============================================================================
