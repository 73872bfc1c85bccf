------------------------------- MODULE WordLists -------------------------------
(***************************************************************************)
(* Queues of data words, each named by the write or message it belongs to  *)
(* and its index in it: what it means for a queue to hold a set of words,  *)
(* each once and in order.  Used by the invariants of TargetWriteInv and   *)
(* TargetReadInv.                                                          *)
(***************************************************************************)
EXTENDS Integers, Sequences

Words == [msg : Nat, idx : Nat]

Before(v, w) == v.msg < w.msg \/ (v.msg = w.msg /\ v.idx < w.idx)

Lists(s, S) ==
    /\ \A k \in DOMAIN s : s[k] \in S
    /\ \A w \in S : \E k \in DOMAIN s : s[k] = w
    /\ \A j, k \in DOMAIN s : j < k => Before(s[j], s[k])

=============================================================================
