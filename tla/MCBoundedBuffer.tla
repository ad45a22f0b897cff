--------------------------- MODULE MCBoundedBuffer ---------------------------
(* An instance of BoundedBuffer small enough for TLC; the threads of a kind *)
(* are interchangeable.                                                     *)
EXTENDS BoundedBuffer, TLC

Threads == Permutations(Producer) \cup Permutations(Consumer)
=============================================================================
