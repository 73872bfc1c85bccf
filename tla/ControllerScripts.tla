-------------------------- MODULE ControllerScripts --------------------------
(***************************************************************************)
(* The bus operations of the bench controller as sequences of bus steps    *)
(* (lib_i3c_top/i3c_controller_fixed.py).  Its methods are straight-line   *)
(* code over the primitives of the cocotbext-i3c controller: START, STOP,  *)
(* an address byte and its acknowledge, a data byte and its T-bit, a read  *)
(* of up to k bytes.  What they decide on the way is left to the module    *)
(* that runs the steps: data skipped after a refused address, a read ended *)
(* by the target, an arbitration lost to an IBI.                           *)
(***************************************************************************)
EXTENDS Naturals, Sequences

start == [do |-> "start"]
stop == [do |-> "stop"]
addr(h) == [do |-> "addr", h |-> h]
ack(h, skip) == [do |-> "ack", h |-> h, skip |-> skip]
byte(c) == [do |-> "byte", c |-> c]
tbit(c, good) == [do |-> "tbit", c |-> c, good |-> good]
read(k) == [do |-> "read", k |-> k]
readTbit(k) == [do |-> "readTbit", k |-> k]

Data == {"byte", "tbit", "read", "readTbit"}

\* n bytes of kind c, with good or with bad parity.
WriteBytes(n, c, good) ==
    [i \in 1..(2 * n) |-> IF i % 2 = 1 THEN byte(c) ELSE tbit(c, good)]

WriteByte(c, good) == WriteBytes(1, c, good)

\* An address; skip: a refusal skips the data after it.
Header(h, skip) == <<addr(h), ack(h, skip)>>

Reserved == <<start>> \o Header("rsvdW", FALSE)

StopIf(yes) == IF yes THEN <<stop>> ELSE <<>>

I3cWrite(op) ==
    (IF op.rsvd THEN Reserved ELSE <<>>) \o <<start>> \o Header(op.to, TRUE)
    \o WriteBytes(op.n, "data", op.good) \o StopIf(op.stop)

I3cRead(op) ==
    (IF op.rsvd THEN Reserved ELSE <<>>) \o <<start>> \o Header(op.to, TRUE)
    \o <<read(op.n)>> \o StopIf(op.stop)

\* A broadcast command: its code, then what it carries.
I3cCccWrite(op) ==
    Reserved \o WriteByte("BCAST", TRUE) \o WriteByte(op.c, TRUE) \o StopIf(op.stop)

\* The errors leave the bus as it is, for the test to go on from there.
SendTe0Error == <<start>> \o Header("rsvdR", FALSE)

SendTe1Error == Reserved \o WriteByte("ENTHDR", FALSE)

Script(op) ==
    CASE op.kind = "write" -> I3cWrite(op)
      [] op.kind = "read"  -> I3cRead(op)
      [] op.kind = "ccc"   -> I3cCccWrite(op)
      [] op.kind = "te0"   -> SendTe0Error
      [] op.kind = "te1"   -> SendTe1Error

\* What answers an IBI whose address has been received: the acknowledge, its
\* data, then what the test has chained to it or, if nothing, perhaps a STOP.
ExecuteChainCcc(c) == Reserved \o WriteByte("BCAST", TRUE) \o WriteByte(c, TRUE) \o <<stop>>

ExecuteChainWrite(h) ==
    Reserved \o <<start>> \o Header(h, TRUE) \o WriteByte("chained", TRUE) \o <<stop>>

HandleIbiInline(chain, limit, sendStop) ==
    <<[do |-> "ibiAck"], read(limit + 1)>>
    \o CASE chain = "none" -> StopIf(sendStop)
         [] chain = "write" -> ExecuteChainWrite("mainW")
         [] OTHER -> ExecuteChainCcc(chain)

=============================================================================
