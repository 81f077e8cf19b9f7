------------------------------- MODULE MCRing -------------------------------
(* Ring on a small array with a pool larger than the array, so that it fills, *)
(* evicts, wraps several times and recycles buffers, and a counter that wraps. *)
EXTENDS Ring
=============================================================================
