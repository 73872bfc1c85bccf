----------------------------- MODULE TargetWrite -----------------------------
(***************************************************************************)
(* Private writes end to end: the controller writes bytes, the target FSM  *)
(* checks their parity and passes them on, and firmware reads descriptors  *)
(* and, for each, the words of its write.  IBIs and reads are left out: no *)
(* header is a read, or a write to the virtual target, whose bytes are for *)
(* the recovery handler.  Common command codes appear as the state the FSM *)
(* waits in and the errors they raise.                                     *)
(*                                                                         *)
(* An event of the bus finds the single-cycle steps of the write path done *)
(* (Settled), the bits of SCL being many cycles of the clock apart.        *)
(***************************************************************************)
EXTENDS TargetFsm, DescriptorRx

CONSTANTS
    Writes,     \* how many writes the controller starts
    MaxBytes,   \* how many bytes it sends in one
    CornerSets  \* which of the corner cases below a behaviour may go into

\* fullDescriptors: a write while the descriptor queue is full.
\* cccError: a common command code with a protocol error.
\* restartAfterError: a repeated START after a byte with bad parity.
\* lateRoom: firmware frees a full data queue in the cycle before a write ends.
AllCorners == {"fullDescriptors", "cccError", "restartAfterError", "lateRoom"}

ASSUME CornersAssumption == CornerSets \subseteq SUBSET AllCorners
ASSUME WriteBoundsAssumption == {Writes, MaxBytes} \subseteq Nat
ASSUME WritesOnlyAssumption == Headers \cap (Reads \cup Virtual) = {}

VARIABLES
    corners,   \* the corner cases of this behaviour, fixed
    reading,   \* the descriptor firmware has read last, or none
    taken,     \* words firmware has read of the write it expects
    expected,  \* the write whose words firmware reads next (ghost)
    wrong      \* firmware has read a word of another write, or out of order (ghost)

fwVars == <<reading, taken, expected, wrong>>
vars == <<corners, fsmVars, rxVars, fwVars>>

NoDescriptor == [msg |-> 0, len |-> 0, err |-> FALSE, sent |-> 0]

Settled == ~rxValid /\ ~(bcnt = 4 /\ Room)

-----------------------------------------------------------------------------
(* Firmware reads words as they come while no descriptor is there, and a   *)
(* descriptor tells it where a write ends.                                 *)

WantsWord == IF reading = NoDescriptor THEN descq = <<>> ELSE taken < DataWords(reading.len)

TakeWord ==
    /\ WantsWord
    /\ ReadWord
    /\ taken' = taken + 1
    /\ wrong' = (wrong \/ Head(rxq) # [msg |-> expected, idx |-> taken])
    /\ UNCHANGED <<corners, fsmVars, reading, expected>>

TakeDescriptor ==
    /\ reading = NoDescriptor
    /\ ReadDescriptor
    /\ reading' = Head(descq)
    /\ UNCHANGED <<corners, fsmVars, taken, expected, wrong>>

\* All the words the descriptor promises are read: on to the next write.
FinishWrite ==
    /\ reading # NoDescriptor
    /\ taken >= DataWords(reading.len)
    /\ wrong' = (wrong \/ taken > DataWords(reading.len) \/ reading.msg # expected)
    /\ reading' = NoDescriptor
    /\ taken' = 0
    /\ expected' = expected + 1
    /\ UNCHANGED <<corners, fsmVars, rxVars>>

Firmware == TakeWord \/ TakeDescriptor \/ FinishWrite

-----------------------------------------------------------------------------
(* The clocked steps of the write path. *)

Path ==
    /\ \/ ByteAccepted /\ ByteIn
       \/ PushWord /\ UNCHANGED fsmVars
    /\ UNCHANGED <<corners, fwVars>>

-----------------------------------------------------------------------------
(* The controller. *)

InWrite == fsm \in {"RxPWriteData", "RxPWriteTbit"}

RoomForDescriptor == "fullDescriptors" \in corners \/ Len(descq) < DescDepth

EndOrRestart == Stop \/ (RepeatedStart /\ (parityErr => "restartAfterError" \in corners))

\* A STOP or a repeated START ends the write in progress.
EndsFrame ==
    /\ Settled
    /\ EndOrRestart
    /\ IF InWrite THEN TransferEnds ELSE UNCHANGED rxVars
    /\ UNCHANGED <<corners, fwVars>>

EndsFrameAsRoomAppears ==
    /\ "lateRoom" \in corners
    /\ ~rxValid
    /\ InWrite /\ EndOrRestart
    /\ WantsWord
    /\ TransferEndsAsRoomAppears
    /\ taken' = taken + 1
    /\ wrong' = (wrong \/ Head(rxq) # [msg |-> expected, idx |-> taken])
    /\ UNCHANGED <<corners, reading, expected>>

Addresses(h) ==
    /\ h = "mainW" => msg <= Writes /\ RoomForDescriptor
    /\ FByteReceived(h) \/ SByteReceived(h)

\* Slip: a byte the converter could not take is no error.
MutTbitReceived(good) ==
    /\ WriteTbitReceived(good, Ready)
    /\ sent' = sent + 1
    /\ IF ~good THEN ErrorSeen ELSE UNCHANGED error
    /\ UNCHANGED <<rxq, bcnt, tag, descq, count, msg>>

\* The T-bit of a data byte: the byte is checked, and passed on or dropped.
TbitReceived(good) ==
    /\ WriteTbitReceived(good, Ready)
    /\ sent' = sent + 1
    /\ IF ~good \/ (overflow' /\ ~overflow) THEN ErrorSeen ELSE UNCHANGED error
    /\ UNCHANGED <<rxq, bcnt, tag, descq, count, msg>>

CccFails == "cccError" \in corners /\ CccDone

Controller ==
    /\ Settled
    /\ UNCHANGED <<corners, fwVars>>
    /\ \/ /\ UNCHANGED rxVars
          /\ \/ Start(FALSE)
             \/ BusAvailable
             \/ \E h \in Headers : Addresses(h)
             \/ CheckFByte(FALSE) \/ CheckSByte(FALSE)
             \/ AckSent
             \/ CccReceived
             \/ CccDone
             \/ CccNext
             \/ LeaveCcc
             \/ sent < MaxBytes /\ WriteByteReceived
       \/ \E good \in BOOLEAN : TbitReceived(good)
       \/ CccFails /\ ErrorSeen /\ UNCHANGED <<rxq, bcnt, tag, descq, count, msg, sent>>

Init ==
    /\ corners \in CornerSets
    /\ FsmInit /\ RxInit
    /\ reading = NoDescriptor /\ taken = 0
    /\ expected = 1 /\ wrong = FALSE

Next == Firmware \/ Path \/ EndsFrame \/ EndsFrameAsRoomAppears \/ Controller

Spec == Init /\ [][Next]_vars

\* The write path is clocked, and firmware goes on reading what it is given.
FairSpec == Spec /\ WF_vars(Path) /\ WF_vars(Firmware)

-----------------------------------------------------------------------------

TypeOK ==
    /\ corners \in CornerSets
    /\ FsmTypeOK /\ RxTypeOK
    /\ reading \in RxDescriptors
    /\ taken \in Nat /\ expected \in Nat /\ wrong \in BOOLEAN

\* Firmware that reads, for each descriptor, as many words as the length asks
\* for gets the words of that write, in order.  The two corners that break the
\* pairing of words and descriptors are excepted.
WordsInOrder == ~wrong
WordsMatchDescriptors == corners \subseteq {"cccError", "restartAfterError"} => WordsInOrder

Reported == { descq[i] : i \in DOMAIN descq } \cup {reading}

\* A write that lost bytes, to bad parity or to a full queue, says so.
LossSaid == \A d \in Reported : ~d.err => d.len = d.sent
LossReported == "restartAfterError" \notin corners => LossSaid

\* A write that says an error occurred did lose bytes.
NoFalseAlarm == "cccError" \notin corners => \A d \in Reported : d.err => d.len < d.sent

\* Every write that has ended is eventually seen by firmware.
EveryWriteSeen == \A n \in 1..Writes : msg > n ~> expected > n

=============================================================================
