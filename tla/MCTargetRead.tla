----------------------------- MODULE MCTargetRead -----------------------------
(* Bounds for TargetRead: a message that ends with its first word, one that *)
(* ends inside its second word and one that ends with it.                   *)
EXTENDS TargetRead

Lax == {{}, {"dataFirst", "flushFirst"}}
MCLengths == {4, 5, 8}
MCHeaders == {"mainR", "rsvdW", "other"}
=============================================================================
