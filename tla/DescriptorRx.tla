----------------------------- MODULE DescriptorRx -----------------------------
(***************************************************************************)
(* The private write path of the target below its main state machine: the  *)
(* descriptor builder (ctrl/descriptor_rx.sv), the converter that packs    *)
(* bytes into words (width_converter_8toN), and the TTI RX data and RX     *)
(* descriptor queues.  Recovery mode, which borrows the path, is off.      *)
(*                                                                         *)
(* A word is abstracted to the write it belongs to and its index in it.  A *)
(* descriptor keeps, beside the length and the error bit the hardware      *)
(* writes, the number of bytes the controller sent; no guard looks at it.  *)
(***************************************************************************)
EXTENDS Integers, Sequences

CONSTANTS
    RxDepth,     \* entries of the RX data queue
    DescDepth    \* entries of the RX descriptor queue

ASSUME RxDepthsAssumption == {RxDepth, DescDepth} \subseteq Nat \ {0}

VARIABLES
    rxq,      \* the RX data queue
    bcnt,     \* bytes in the converter; a full one is handed to the queue
    tag,      \* which word the converter holds
    descq,    \* the RX descriptor queue
    count,    \* byte_counter
    error,    \* rx_error
    msg,      \* number of the write in progress (ghost)
    sent      \* bytes of it the controller has sent (ghost)

rxVars == <<rxq, bcnt, tag, descq, count, error, msg, sent>>

DataWords(n) == (n + 3) \div 4

\* A word no write put there.
NoWord == [msg |-> 0, idx |-> 0]

-----------------------------------------------------------------------------
(* The converter. *)

Ready == bcnt # 4

Room == Len(rxq) < RxDepth

PushWord ==
    /\ bcnt = 4 /\ Room
    /\ rxq' = Append(rxq, tag)
    /\ bcnt' = 0
    /\ tag' = NoWord
    /\ UNCHANGED <<descq, count, error, msg, sent>>

\* A byte from the FSM is packed and counted.
ByteIn ==
    /\ Ready
    /\ tag' = IF bcnt = 0 THEN [msg |-> msg, idx |-> count \div 4] ELSE tag
    /\ bcnt' = bcnt + 1
    /\ count' = (count + 1) % 65536
    /\ UNCHANGED <<rxq, descq, error, msg, sent>>

-----------------------------------------------------------------------------
(* The end of a write: a descriptor, and a flush that pads the last word.  *)
(* Nobody looks whether the descriptor queue is full.                      *)

Descriptor == [msg |-> msg, len |-> count, err |-> error, sent |-> sent]

\* Slip: a write without data gets no descriptor.
MutEndTransferEmpty ==
    /\ descq' = IF Len(descq) < DescDepth /\ count # 0 THEN Append(descq, Descriptor) ELSE descq
    /\ count' = 0
    /\ error' = FALSE
    /\ msg' = msg + 1
    /\ sent' = 0

\* Slip: the error is not forgotten with the write it belongs to.
MutEndTransferError ==
    /\ descq' = IF Len(descq) < DescDepth THEN Append(descq, Descriptor) ELSE descq
    /\ count' = 0
    /\ msg' = msg + 1
    /\ sent' = 0
    /\ UNCHANGED error

EndTransfer ==
    /\ descq' = IF Len(descq) < DescDepth THEN Append(descq, Descriptor) ELSE descq
    /\ count' = 0
    /\ error' = FALSE
    /\ msg' = msg + 1
    /\ sent' = 0

\* Slip: an empty converter is flushed too.
MutTransferEnds ==
    /\ EndTransfer
    /\ bcnt' = 4
    /\ UNCHANGED <<rxq, tag>>

TransferEnds ==
    /\ EndTransfer
    /\ bcnt' = IF bcnt = 0 THEN 0 ELSE 4
    /\ UNCHANGED <<rxq, tag>>

\* Firmware's read of a full queue made room in the cycle before: the word is
\* handed over in the very cycle of the flush, which refills the converter.
TransferEndsAsRoomAppears ==
    /\ bcnt = 4 /\ Len(rxq) = RxDepth
    /\ EndTransfer
    /\ rxq' = Append(Tail(rxq), tag)
    /\ bcnt' = 4
    /\ tag' = NoWord

\* rx_byte_err_i.
ErrorSeen == error' = TRUE

-----------------------------------------------------------------------------
(* Firmware. *)

ReadWord ==
    /\ rxq # <<>>
    /\ rxq' = Tail(rxq)
    /\ UNCHANGED <<bcnt, tag, descq, count, error, msg, sent>>

ReadDescriptor ==
    /\ descq # <<>>
    /\ descq' = Tail(descq)
    /\ UNCHANGED <<rxq, bcnt, tag, count, error, msg, sent>>

RxInit ==
    /\ rxq = <<>> /\ descq = <<>>
    /\ bcnt = 0 /\ tag = NoWord
    /\ count = 0 /\ error = FALSE
    /\ msg = 1 /\ sent = 0

ByteCounts == {n \in Nat : n < 65536}
RxDescriptors == [msg : Nat, len : ByteCounts, err : BOOLEAN, sent : Nat]

RxTypeOK ==
    /\ rxq \in Seq([msg : Nat, idx : Nat]) /\ Len(rxq) <= RxDepth
    /\ bcnt \in 0..4
    /\ tag \in [msg : Nat, idx : Nat]
    /\ descq \in Seq(RxDescriptors)
    /\ Len(descq) <= DescDepth
    /\ count \in ByteCounts
    /\ error \in BOOLEAN
    /\ msg \in Nat \ {0} /\ sent \in Nat

=============================================================================
