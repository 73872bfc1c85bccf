--------------------------- MODULE MCDescriptorIbi ---------------------------
(* Bounds for DescriptorIbi: lengths on both sides of the word boundaries.  *)
EXTENDS DescriptorIbiInv

SmallPayloads == {0, 1, 2, 4, 6, 8}
WithFive == {2, 5}
=============================================================================
