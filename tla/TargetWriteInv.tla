---------------------------- MODULE TargetWriteInv ----------------------------
(***************************************************************************)
(* The inductive invariants behind the safety properties of TargetWrite:   *)
(* one for what the byte counter and the error flag say about the bytes    *)
(* sent, one for the order of the words between converter and firmware.    *)
(***************************************************************************)
EXTENDS TargetWrite, WordLists

-----------------------------------------------------------------------------
(* Bytes sent, counted and under way. *)

PassedOn == IF rxValid THEN count + 1 ELSE count

\* Every byte counted, or about to be, was sent.
NoMoreThanSent == PassedOn <= sent

\* The controller stays within its bound.
WithinBound == sent <= MaxBytes /\ (fsm = "RxPWriteTbit" => sent < MaxBytes)

\* The error flag of the write in progress is set only after a byte was lost.
ErrorIsLoss == error => PassedOn < sent

NoFalseAlarmInv ==
    /\ NoMoreThanSent
    /\ "cccError" \notin corners => ErrorIsLoss
    /\ NoFalseAlarm

\* A byte the FSM or the converter drops leaves the error flag set until the
\* descriptor is written, and the flags that make it drop bytes go no later.
LossIsError ==
    /\ ~error => PassedOn = sent
    /\ parityErr \/ overflow => error

LossReportedInv ==
    "restartAfterError" \notin corners => LossIsError /\ LossSaid

-----------------------------------------------------------------------------
(* The words between the bus and firmware. *)

\* The descriptors of the writes that have ended and firmware has not
\* finished, by number of the write.
DescriptorOf(m) ==
    IF reading = NoDescriptor THEN descq[m - expected + 1]
    ELSE IF m = expected THEN reading ELSE descq[m - expected]

Ended == IF reading = NoDescriptor THEN Len(descq) ELSE Len(descq) + 1

\* No descriptor is missing, and they are in the order of their writes.
DescriptorsInOrder ==
    /\ expected >= 1 /\ msg = expected + Ended
    /\ \A m \in expected..(msg - 1) : DescriptorOf(m).msg = m

\* The words a write has filled, or begun to fill.
WordsOf(m) == DataWords(IF m = msg THEN count ELSE DescriptorOf(m).len)

\* Of all the words begun, those firmware has yet to read.
FirstDue(m) == IF m = expected THEN taken ELSE 0
Due ==
    UNION { { [msg |-> m, idx |-> i] : i \in FirstDue(m)..(WordsOf(m) - 1) }
            : m \in expected..msg }

\* The words in the queue and the converter, oldest first.
Stream == IF bcnt = 0 THEN rxq ELSE Append(rxq, tag)

\* Each word due, once and in order.
WordsHeld == Lists(Stream, Due)

\* A converter that is not full holds the unfinished word of this write.
ConverterInStep ==
    /\ bcnt < 4 => bcnt = count % 4
    /\ bcnt = 4 => count % 4 = 0
    /\ bcnt \in 1..3 => tag = [msg |-> msg, idx |-> count \div 4]

\* A write in progress or acknowledged has room for its descriptor.
RoomKept ==
    /\ fsm \in {"CheckFByte", "CheckSByte", "TxAckFByte", "TxAckSByte"} => header \in Headers
    /\ fsm \in {"TxAckFByte", "TxAckSByte"} => header \in {"mainW", "rsvdW"}
    /\ \/ InWrite
       \/ fsm \in {"CheckFByte", "CheckSByte", "TxAckFByte", "TxAckSByte"} /\ header = "mainW"
       => Len(descq) < DescDepth

Paired == corners \subseteq {"cccError", "restartAfterError"}

WordsInv ==
    /\ DescriptorsInOrder
    /\ taken <= WordsOf(expected)
    /\ WordsHeld
    /\ ConverterInStep
    /\ RoomKept
    /\ WordsInOrder

WordsMatchInv == Paired => WordsInv

=============================================================================
