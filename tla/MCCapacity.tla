----------------------------- MODULE MCCapacity -----------------------------
(* Three callers of one provider, with every limit small enough to bind. *)
EXTENDS Capacity

CONSTANTS c1, c2, c3
=============================================================================
