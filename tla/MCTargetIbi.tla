----------------------------- MODULE MCTargetIbi -----------------------------
(* Bounds for TargetIbi: an IBI without payload, one of a word, one of two. *)
EXTENDS TargetIbiInv

MCPayloads == {0, 2, 6}
MCHeaders == {"other", "rsvdW", "te0"}
=============================================================================
