----------------------------- MODULE MCRecovery ------------------------------
EXTENDS RecoveryBus

Plain(bytes) == [i \in 1..Len(bytes) |-> <<bytes[i]>>]

wr(c, d, stop) ==
    [kind |-> "write", cmd |-> c, data |-> Plain(d), claim |-> Len(d), pec |-> TRUE,
     extra |-> 0, sent |-> Len(d) + 4, bad |-> 0, stop |-> stop]
rd(c) == [kind |-> "read", cmd |-> c, pec |-> TRUE, bad |-> 0, n |-> -1, stop |-> TRUE]

MCCmds ==
    { wr(RECOVERY_CTRL, <<1, 0, 15>>, TRUE),
      wr(DEVICE_RESET, <<2, 3, 4>>, FALSE),
      wr(INDIRECT_FIFO_CTRL, <<5, 1, 6, 7, 8, 9>>, FALSE),
      wr(INDIRECT_FIFO_CTRL, <<0, 0, 1, 2, 3, 4>>, TRUE),
      wr(INDIRECT_FIFO_DATA, <<1, 2, 3, 4, 5>>, TRUE),
      wr(INDIRECT_FIFO_DATA, <<6, 7, 8, 9>>, FALSE),
      wr(INDIRECT_FIFO_DATA, <<1, 1, 1, 1, 2, 2, 2, 2, 3, 3>>, TRUE),
      wr(INDIRECT_FIFO_DATA, <<1, 1, 1, 1, 2, 2, 2, 2, 3, 3, 3, 3, 4>>, TRUE),
      wr(HW_STATUS, <<1, 2, 3, 4>>, TRUE),
      wr(16, <<1, 2, 3, 4>>, FALSE),
      [wr(DEVICE_RESET, <<7, 7, 7>>, FALSE) EXCEPT !.pec = FALSE],
      wr(DEVICE_RESET, <<6, 6, 6, 6>>, FALSE),
      [wr(DEVICE_RESET, <<6, 6, 6, 6>>, TRUE) EXCEPT !.pec = FALSE],
      [wr(DEVICE_RESET, <<8, 8>>, TRUE) EXCEPT !.claim = 3],
      [wr(RECOVERY_CTRL, <<8, 8, 8, 8>>, TRUE) EXCEPT !.claim = 3],
      [wr(RECOVERY_CTRL, <<9, 9, 15>>, TRUE) EXCEPT !.sent = 1],
      [wr(RECOVERY_CTRL, <<9, 9, 15>>, TRUE) EXCEPT !.sent = 6],
      [wr(DEVICE_RESET, <<5, 5, 5>>, FALSE) EXCEPT !.extra = 1, !.sent = 8],
      [wr(DEVICE_RESET, <<9, 9, 9>>, FALSE) EXCEPT !.bad = 3],
      [wr(DEVICE_RESET, <<9, 9, 9>>, TRUE) EXCEPT !.bad = 5],
      [wr(RECOVERY_CTRL, <<7, 7, 15>>, FALSE) EXCEPT !.bad = 2],
      [wr(RECOVERY_CTRL, <<7, 7, 15>>, TRUE) EXCEPT !.bad = 7],
      [rd(DEVICE_STATUS) EXCEPT !.stop = FALSE], rd(INDIRECT_FIFO_STATUS), rd(INDIRECT_FIFO_CTRL),
      [rd(PROT_CAP) EXCEPT !.n = 6],
      [rd(RECOVERY_CTRL) EXCEPT !.pec = FALSE],
      [rd(RECOVERY_CTRL) EXCEPT !.bad = 2],
      [kind |-> "message", data |-> Plain(<<1, 2, 3, 4, 5>>), stop |-> TRUE],
      [kind |-> "address", to |-> "virt"], [kind |-> "address", to |-> "other"],
      [kind |-> "stop"] }
=============================================================================
