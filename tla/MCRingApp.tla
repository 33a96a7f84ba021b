----------------------------- MODULE MCRingApp -----------------------------
(* Instances of RingApp for TLC. *)
EXTENDS RingApp
=============================================================================
