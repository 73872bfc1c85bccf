----------------------------- MODULE DescriptorTx -----------------------------
(***************************************************************************)
(* The private read path of the target below its main state machine: the   *)
(* TTI TX descriptor and TX data queues, the converter that cuts a data    *)
(* word into bytes (width_converter_Nto8), and the descriptor handler that *)
(* counts the bytes of a message and drains what an aborted read left      *)
(* behind (ctrl/descriptor_tx.sv).  Recovery mode, which borrows the path, *)
(* is off.                                                                 *)
(*                                                                         *)
(* A data word is abstracted to the message it belongs to and its index in *)
(* it; neither is visible to the hardware, which knows lengths only.       *)
(***************************************************************************)
EXTENDS Integers, Sequences

CONSTANTS
    Lengths,     \* message lengths, in bytes, firmware asks for
    Messages,    \* how many messages firmware queues
    TxDepth,     \* entries of the TX data queue (TtiTxFifoDepth)
    DescDepth,   \* entries of the TX descriptor queue
    Disciplines  \* what firmware and the controller may keep to, see keeps

\* The byte counter has 16 bits.
ByteCounts == {n \in Nat : n < 65536}

\* A message is not empty: the byte counter of an empty one would wrap.
ASSUME LengthsAssumption == Lengths \subseteq ByteCounts \ {0} /\ Lengths # {}
ASSUME TxDepthsAssumption == {Messages, TxDepth, DescDepth} \subseteq Nat \ {0}

\* dataFirst: firmware queues all the data of a message, then its descriptor.
\* flushFirst: the controller addresses the target only when a flush is over.
AllDisciplines == SUBSET {"dataFirst", "flushFirst"}

ASSUME DisciplinesAssumption == Disciplines \subseteq AllDisciplines /\ Disciplines # {}

VARIABLES
    keeps,      \* the disciplines kept in this behaviour
    fw,         \* what firmware has written: message, length, words, descriptor
    txq,        \* the TX data queue
    conv,       \* the word in the converter and how many bytes it has left
    descq,      \* the TX descriptor queue
    desc,       \* tx_descriptor
    descValid,  \* descriptor_valid
    pending,    \* tx_pending
    count,      \* byte_counter
    flush       \* flush

handlerVars == <<desc, descValid, pending, count, flush>>
txVars == <<keeps, fw, txq, conv, descq, handlerVars>>

DataWords(n) == (n + 3) \div 4
NoDesc == [msg |-> 0, len |-> 0]
Empty == [msg |-> 0, idx |-> 0, left |-> 0]

-----------------------------------------------------------------------------
(* Firmware.  A write to a full queue waits. *)

NewMessage(m, n) == [msg |-> m, len |-> n, words |-> 0, desc |-> FALSE]

FwData ==
    /\ fw.words < DataWords(fw.len)
    /\ Len(txq) < TxDepth
    /\ txq' = Append(txq, [msg |-> fw.msg, idx |-> fw.words])
    /\ fw' = [fw EXCEPT !.words = @ + 1]
    /\ UNCHANGED <<keeps, conv, descq, handlerVars>>

FwDescriptor ==
    /\ ~fw.desc
    /\ "dataFirst" \in keeps => fw.words = DataWords(fw.len)
    /\ Len(descq) < DescDepth
    /\ descq' = Append(descq, [msg |-> fw.msg, len |-> fw.len])
    /\ fw' = [fw EXCEPT !.desc = TRUE]
    /\ UNCHANGED <<keeps, txq, conv, handlerVars>>

FwNextMessage ==
    /\ fw.desc /\ fw.words = DataWords(fw.len)
    /\ fw.msg < Messages
    /\ \E n \in Lengths : fw' = NewMessage(fw.msg + 1, n)
    /\ UNCHANGED <<keeps, txq, conv, descq, handlerVars>>

-----------------------------------------------------------------------------
(* The converter. *)

ByteThere == conv.left > 0

TakeByte == conv' = IF conv.left = 1 THEN Empty ELSE [conv EXCEPT !.left = @ - 1]

\* A flush empties the converter; a word the queue hands over in the same
\* cycle is lost.
FlushConverter ==
    /\ conv' = Empty
    /\ txq' = IF ByteThere \/ txq = <<>> THEN txq ELSE Tail(txq)

-----------------------------------------------------------------------------
(* The descriptor handler's own steps. *)

Minus1(n) == (n - 1) % 65536

\* One word may be in the converter and not in the queue.
Enough(n) == Len(txq) + 1 >= n \div 4 \/ Len(txq) + 1 >= TxDepth

MayStart == ~pending /\ descValid /\ Enough(desc.len)

TxStart ==
    /\ MayStart
    /\ pending' = TRUE
    /\ count' = desc.len
    /\ UNCHANGED <<keeps, fw, txq, conv, descq, desc, descValid, flush>>

\* tx_end while flushing: the last byte goes, and with it the rest of its word.
FlushLast == flush /\ count = 1

MayLoad == ~ByteThere /\ txq # <<>> /\ ~FlushLast

LoadWord ==
    /\ MayLoad
    /\ conv' = [msg |-> Head(txq).msg, idx |-> Head(txq).idx, left |-> 4]
    /\ txq' = Tail(txq)
    /\ UNCHANGED <<keeps, fw, descq, handlerVars>>

FlushByte ==
    /\ flush /\ count # 1 /\ ByteThere
    /\ TakeByte
    /\ count' = Minus1(count)
    /\ flush' = (count # 0)
    /\ UNCHANGED <<keeps, fw, txq, descq, desc, descValid, pending>>

\* Slip: the rest of the last word stays in the converter.
MutFlushEnd ==
    /\ FlushLast
    /\ ByteThere
    /\ TakeByte
    /\ count' = 0
    /\ flush' = FALSE
    /\ desc' = NoDesc /\ descValid' = FALSE /\ pending' = FALSE
    /\ UNCHANGED <<keeps, fw, txq, descq>>

FlushEnd ==
    /\ FlushLast
    /\ FlushConverter
    /\ count' = IF ByteThere THEN 0 ELSE 1
    /\ flush' = FALSE
    /\ desc' = NoDesc /\ descValid' = FALSE /\ pending' = FALSE
    /\ UNCHANGED <<keeps, fw, descq>>

\* Slip: a flush waits until the counter has run out.
MutFlushDry ==
    /\ flush /\ count = 0
    /\ flush' = FALSE
    /\ UNCHANGED <<keeps, fw, txq, conv, descq, desc, descValid, pending, count>>

\* Nothing left to drain, whatever the counter says.
FlushDry ==
    /\ flush /\ count # 1 /\ ~ByteThere /\ txq = <<>>
    /\ flush' = FALSE
    /\ UNCHANGED <<keeps, fw, txq, conv, descq, desc, descValid, pending, count>>

HandlerStep == TxStart \/ LoadWord \/ FlushByte \/ FlushEnd \/ FlushDry

\* No step that takes the clock a single cycle is due.
Settled == ~MayStart /\ ~MayLoad /\ ~FlushLast

-----------------------------------------------------------------------------
(* The interface to the target FSM. *)

\* Slip: the descriptor queue is not looked at.
MutAvail == descq = <<>> \/ Enough(IF descValid THEN desc.len ELSE Head(descq).len)

\* tx_desc_avail_o: the length checked is that of the message in hand, if
\* there is one, but a descriptor must be in the queue.
Avail == descq # <<>> /\ Enough(IF descValid THEN desc.len ELSE Head(descq).len)

ByteValid == pending /\ ByteThere

ByteLast == count = 1

\* tx_start_i: the FSM matched a read address, whether it acknowledges or not.
ReadStarts ==
    /\ IF descq # <<>> /\ ~descValid /\ ~flush
       THEN desc' = Head(descq) /\ descValid' = TRUE /\ descq' = Tail(descq)
       ELSE UNCHANGED <<desc, descValid, descq>>
    /\ UNCHANGED <<keeps, fw, txq, conv, pending, count, flush>>

\* Slip: the unused bytes of the last word are not flushed.
MutByteTaken ==
    /\ count' = IF ByteValid THEN Minus1(count) ELSE count
    /\ IF ByteLast
       THEN desc' = NoDesc /\ descValid' = FALSE /\ pending' = FALSE
       ELSE UNCHANGED <<desc, descValid, pending>>
    /\ IF ByteValid THEN TakeByte /\ UNCHANGED txq ELSE UNCHANGED <<txq, conv>>
    /\ UNCHANGED <<keeps, fw, descq, flush>>

\* tx_byte_ready_i: the FSM has sent a byte, valid or not.
ByteTaken ==
    /\ count' = IF ByteValid THEN Minus1(count) ELSE count
    /\ IF ByteLast
       THEN desc' = NoDesc /\ descValid' = FALSE /\ pending' = FALSE
       ELSE UNCHANGED <<desc, descValid, pending>>
    /\ IF ByteLast /\ desc.len % 4 # 0 THEN FlushConverter
       ELSE IF ByteValid THEN TakeByte /\ UNCHANGED txq
       ELSE UNCHANGED <<txq, conv>>
    /\ UNCHANGED <<keeps, fw, descq, flush>>

\* tx_abort_i.
Aborted ==
    /\ desc' = NoDesc /\ descValid' = FALSE /\ pending' = FALSE
    /\ flush' = (flush \/ count # 0)
    /\ UNCHANGED <<keeps, fw, txq, conv, descq, count>>

TxInit ==
    /\ keeps \in Disciplines
    /\ \E n \in Lengths : fw = NewMessage(1, n)
    /\ txq = <<>> /\ descq = <<>>
    /\ conv = Empty
    /\ desc = NoDesc /\ descValid = FALSE
    /\ pending = FALSE /\ count = 0 /\ flush = FALSE

TxTypeOK ==
    /\ keeps \in Disciplines
    /\ fw \in [msg : 1..Messages, len : Lengths, words : Nat, desc : BOOLEAN]
    /\ fw.words <= DataWords(fw.len)
    /\ txq \in Seq([msg : 1..Messages, idx : Nat]) /\ Len(txq) <= TxDepth
    /\ conv \in [msg : 0..Messages, idx : Nat, left : 0..4]
    /\ descq \in Seq([msg : 1..Messages, len : Lengths]) /\ Len(descq) <= DescDepth
    /\ desc \in [msg : 0..Messages, len : Lengths \cup {0}]
    /\ {descValid, pending, flush} \subseteq BOOLEAN
    /\ count \in ByteCounts

=============================================================================
