----------------------------- MODULE MCTargetWrite -----------------------------
(* Bounds for TargetWrite: writes of up to two words, a data queue of one, a *)
(* descriptor queue of two; behaviours with no corner case, and with each of *)
(* those that do not lose a descriptor.                                      *)
EXTENDS TargetWrite

AtMostOne == {{}, {"cccError"}, {"restartAfterError"}, {"lateRoom"}}
MCHeaders == {"mainW", "rsvdW", "other"}
=============================================================================
