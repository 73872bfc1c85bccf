---------------------------- MODULE DescriptorIbi ----------------------------
(***************************************************************************)
(* The IBI descriptor handler of the I3C target (ctrl/descriptor_ibi.sv)   *)
(* and the TTI IBI queue it drains.  Firmware writes a descriptor and its  *)
(* payload words into one queue; the handler latches the descriptor, waits *)
(* until the whole payload is queued, pops the descriptor, and hands the   *)
(* mandatory data byte (MDB) and the payload to the target FSM byte by     *)
(* byte.  The target FSM may abort the IBI between two bytes, and the      *)
(* handler then flushes what is left of the payload.                       *)
(*                                                                         *)
(* A queue word is abstracted to the low byte the hardware would read as a *)
(* length, and two ghost fields no guard of the hardware looks at: the     *)
(* payload length of the IBI the word was written for, and its index in    *)
(* that IBI (0 is the descriptor).                                         *)
(***************************************************************************)
EXTENDS Integers, Sequences

CONSTANTS
    Payloads,   \* the payload lengths, in bytes, firmware asks for
    LowBytes,   \* the low bytes payload words may have
    Depth       \* entries of the TTI IBI queue (TtiIbiFifoDepth)

\* Divide by four and round up, as data_words is computed.
WordsFor(n) == (n \div 4) + (IF n % 4 = 0 THEN 0 ELSE 1)

\* A length is one byte of the descriptor.  Firmware must not ask for an IBI
\* that can never be queued whole: the descriptor and its payload fit.
ASSUME DepthAssumption == Depth \in Nat
ASSUME LowBytesAssumption == LowBytes \subseteq 0..255
ASSUME PayloadsAssumption == Payloads \subseteq 0..255
ASSUME FitAssumption == \A n \in Payloads : WordsFor(n) < Depth

VARIABLES
    queue,   \* the TTI IBI queue, oldest word first
    fill,    \* the last word firmware wrote (ghost)
    state,   \* state_q
    len,     \* data_len: payload length minus one, modulo 256
    words,   \* data_words
    cnt      \* data_cnt_q: index of the payload byte on offer

ibiVars == <<queue, fill, state, len, words, cnt>>

Word == [low : 0..255, of : 0..255, idx : 0..64]

States == {"Idle", "DescLatch", "DescPop", "WriteMdb", "WriteData", "Flush"}

NoPayload == 255   \* data_len of a descriptor that asks for no payload

-----------------------------------------------------------------------------
(* Firmware side: the writes to the IBI port and the queue reset. *)

NextWords ==
    IF fill.idx = WordsFor(fill.of)
    THEN { [low |-> n, of |-> n, idx |-> 0] : n \in Payloads }
    ELSE { [low |-> b, of |-> fill.of, idx |-> fill.idx + 1] : b \in LowBytes }

FwWrite ==
    /\ Len(queue) < Depth
    /\ \E w \in NextWords :
          /\ queue' = Append(queue, w)
          /\ fill' = w
    /\ UNCHANGED <<state, len, words, cnt>>

\* TTI RESET_CONTROL.IBI_QUEUE_RST: the queue is emptied, the handler returns
\* to Idle, and firmware starts over with a descriptor.
QueueReset ==
    /\ queue' = <<>>
    /\ fill' = [low |-> 0, of |-> 0, idx |-> 0]
    /\ state' = "Idle"
    /\ cnt' = 0
    /\ UNCHANGED <<len, words>>

-----------------------------------------------------------------------------
(* The handler's own steps, one per state that needs no target handshake. *)

Pop == /\ queue' = IF queue = <<>> THEN queue ELSE Tail(queue)
       /\ UNCHANGED fill

Keep == UNCHANGED <<queue, fill>>

LatchDescriptor ==
    /\ state = "Idle"
    /\ queue # <<>>
    /\ len' = (Head(queue).low - 1) % 256
    /\ words' = WordsFor(Head(queue).low)
    /\ cnt' = 0
    /\ state' = "DescLatch"
    /\ Keep

\* Slip: the descriptor itself is counted as a word of the payload.
MutPayloadQueuedEarly ==
    /\ state = "DescLatch"
    /\ Len(queue) >= words
    /\ state' = "DescPop"
    /\ Keep /\ UNCHANGED <<len, words, cnt>>

\* Slip: one word too many is waited for.
MutPayloadQueuedLate ==
    /\ state = "DescLatch"
    /\ Len(queue) > words + 1
    /\ state' = "DescPop"
    /\ Keep /\ UNCHANGED <<len, words, cnt>>

PayloadQueued ==
    /\ state = "DescLatch"
    /\ Len(queue) >= words + 1
    /\ state' = "DescPop"
    /\ Keep /\ UNCHANGED <<len, words, cnt>>

PopDescriptor ==
    /\ state = "DescPop"
    /\ Pop
    /\ state' = "WriteMdb"
    /\ UNCHANGED <<len, words, cnt>>

\* The counter cannot move past the last word of a 256-byte space.
LastWordOfAll == cnt \div 4 = 63

FlushDone ==
    /\ state = "Flush"
    /\ cnt >= len
    /\ cnt' = 0
    /\ state' = "Idle"
    /\ Keep /\ UNCHANGED <<len, words>>

\* Slip: the counter stays where it is.
MutFlushWordStays ==
    /\ state = "Flush"
    /\ cnt < len
    /\ Pop
    /\ UNCHANGED <<state, len, words, cnt>>

FlushWord ==
    /\ state = "Flush"
    /\ cnt < len
    /\ Pop
    /\ cnt' = IF LastWordOfAll THEN 0 ELSE cnt + 4
    /\ state' = IF LastWordOfAll THEN "Idle" ELSE "Flush"
    /\ UNCHANGED <<len, words>>

HandlerStep ==
    \/ LatchDescriptor
    \/ PayloadQueued
    \/ PopDescriptor
    \/ FlushDone
    \/ FlushWord

-----------------------------------------------------------------------------
(* The byte interface to the target FSM. *)

ByteValid == \/ state = "WriteMdb"
             \/ state = "WriteData" /\ queue # <<>>

ByteLast == \/ state = "WriteMdb" /\ len = NoPayload
            \/ state = "WriteData" /\ cnt = len

\* Slip: an IBI of the MDB alone is not told apart.
MutMdbTaken ==
    /\ state = "WriteMdb"
    /\ state' = "WriteData"
    /\ Keep /\ UNCHANGED <<len, words, cnt>>

\* ibi_byte_ready_i: the target FSM has sent the byte on offer.
MdbTaken ==
    /\ state = "WriteMdb"
    /\ state' = IF len = NoPayload THEN "Idle" ELSE "WriteData"
    /\ Keep /\ UNCHANGED <<len, words, cnt>>

\* Slip: the word is popped one byte early.
MutDataTaken ==
    /\ state = "WriteData"
    /\ cnt # len
    /\ cnt' = (cnt + 1) % 256
    /\ IF cnt % 4 = 2 THEN Pop ELSE Keep
    /\ UNCHANGED <<state, len, words>>

DataTaken ==
    /\ state = "WriteData"
    /\ cnt # len
    /\ cnt' = (cnt + 1) % 256
    /\ IF cnt % 4 = 3 THEN Pop ELSE Keep
    /\ UNCHANGED <<state, len, words>>

LastDataTaken ==
    /\ state = "WriteData"
    /\ cnt = len
    /\ Pop
    /\ cnt' = 0
    /\ state' = "Idle"
    /\ UNCHANGED <<len, words>>

ByteTaken == MdbTaken \/ DataTaken \/ LastDataTaken

\* Slip: the word on offer is left to the flush.
MutDataFlushed ==
    /\ state = "WriteData"
    /\ Keep
    /\ cnt' = IF LastWordOfAll THEN 0 ELSE 4 * (cnt \div 4 + 1)
    /\ state' = IF LastWordOfAll THEN "Idle" ELSE "Flush"
    /\ UNCHANGED <<len, words>>

\* ibi_byte_flush_i: the controller ended the IBI early.
DataFlushed ==
    /\ state = "WriteData"
    /\ Pop
    /\ cnt' = IF LastWordOfAll THEN 0 ELSE 4 * (cnt \div 4 + 1)
    /\ state' = IF LastWordOfAll THEN "Idle" ELSE "Flush"
    /\ UNCHANGED <<len, words>>

-----------------------------------------------------------------------------
(* The handler in the least restrictive environment it is written for: the *)
(* target takes a byte whenever it likes, and aborts only once the MDB has *)
(* been taken, so that the flush branch of WriteMdb is dead.  TargetIbi    *)
(* shows that the target FSM is such an environment.                       *)

Init ==
    /\ queue = <<>>
    /\ fill = [low |-> 0, of |-> 0, idx |-> 0]
    /\ state = "Idle"
    /\ len = 0
    /\ words = 0
    /\ cnt = 0

Next == \/ FwWrite
        \/ QueueReset
        \/ HandlerStep
        \/ ByteTaken
        \/ DataFlushed

Spec == Init /\ [][Next]_ibiVars

\* The handler is clocked, so a step it can take is taken; firmware goes on
\* writing an IBI it has started.
FairSpec == Spec /\ WF_ibiVars(HandlerStep) /\ WF_ibiVars(fill.idx < WordsFor(fill.of) /\ FwWrite)

-----------------------------------------------------------------------------
(* What the handler must guarantee. *)

TypeOK ==
    /\ queue \in Seq(Word)
    /\ Len(queue) <= Depth
    /\ fill \in Word
    /\ state \in States
    /\ len \in 0..255
    /\ words \in 0..64
    /\ cnt \in 0..255

\* Whatever was sent, aborted or reset, a handler that is ready for the next
\* IBI finds a descriptor at the head of the queue, never a payload word of an
\* earlier IBI that it would misread as one.
HeadIsDescriptor ==
    state \in {"Idle", "DescLatch", "DescPop"} /\ queue # <<>> => Head(queue).idx = 0

\* The target FSM does not look at ibi_byte_valid once an IBI has started, so
\* the queue must not run dry in the middle of one.
NeverRunsDry == state = "WriteData" => queue # <<>>

\* The payload byte on offer is taken from the word that holds it, and from
\* the IBI whose length the handler latched.
ByteFromItsWord ==
    state = "WriteData" /\ queue # <<>> =>
        /\ Head(queue).idx = cnt \div 4 + 1
        /\ Head(queue).of = len + 1

\* A flush comes to an end, and an IBI whose payload is being written is
\* eventually offered to the target, unless firmware resets the queue.
FlushEnds == state = "Flush" ~> state = "Idle"
OfferedOnceQueued == state = "DescLatch" ~> state \in {"WriteMdb", "Idle"}

=============================================================================
