------------------------------- MODULE MCBench -------------------------------
EXTENDS Bench

call(k, h, n, st, rs, g) == [kind |-> k, to |-> h, n |-> n, stop |-> st, rsvd |-> rs, good |-> g]
ccc(c) == [kind |-> "ccc", c |-> c, stop |-> TRUE]

MCOps ==
    { call("write", "mainW", 3, TRUE, TRUE, TRUE),
      call("write", "virtW", 1, FALSE, TRUE, TRUE),
      call("write", "mainW", 1, TRUE, FALSE, TRUE),
      call("write", "mainW", 1, TRUE, TRUE, FALSE),
      call("read", "mainR", 2, TRUE, TRUE, TRUE),
      call("read", "virtR", 1, FALSE, FALSE, TRUE),
      ccc("enec"), [kind |-> "te0"], [kind |-> "te1"] }
MCHeaders == AllHeaders
=============================================================================
