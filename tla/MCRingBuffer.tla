----------------------------- MODULE MCRingBuffer -----------------------------
(* Symmetry for the runs of RingBuffer that check no liveness property. *)
EXTENDS RingBuffer, TLC

Symmetry == Permutations(Readers) \cup Permutations(Writers)
=============================================================================
