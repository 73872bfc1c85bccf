---------------------------- MODULE TargetReadInv ----------------------------
(***************************************************************************)
(* The inductive invariant behind the safety properties of TargetRead: the *)
(* words in the data queue and the converter are the words firmware has    *)
(* written and no read or flush has taken, and the descriptors say where   *)
(* one message ends and the next begins.                                   *)
(*                                                                         *)
(* The message in hand is the one whose descriptor the handler holds, or   *)
(* the one whose rest it flushes; its length, which the handler forgets    *)
(* when a read is aborted, is the parameter n.                             *)
(***************************************************************************)
EXTENDS TargetRead, WordLists

\* The last message whose descriptor firmware has written, the message of the
\* next descriptor to be taken, and the first message with words due.
Described == IF fw.desc THEN fw.msg ELSE fw.msg - 1
NextMsg == Described - Len(descq) + 1
InHand == descValid \/ flush
First == IF InHand THEN NextMsg - 1 ELSE NextMsg

\* The bytes of the message in hand that are gone.
Gone(n) == IF pending \/ flush THEN n - count ELSE 0

\* The words of a message firmware has queued, gone or not.
WordsOf(m, n) ==
    IF m > Described THEN fw.words
    ELSE IF m < NextMsg THEN DataWords(n) ELSE DataWords(descq[m - NextMsg + 1].len)

\* Of those the ones that are not gone.
FirstDue(m, n) == IF m = First THEN Gone(n) \div 4 ELSE 0
Due(n) ==
    UNION { { [msg |-> m, idx |-> i] : i \in FirstDue(m, n)..(WordsOf(m, n) - 1) }
            : m \in First..fw.msg }

\* The words in the converter and the queue, oldest first.
ConvWord == [msg |-> conv.msg, idx |-> conv.idx]
Stream == IF ByteThere THEN <<ConvWord>> \o txq ELSE txq

\* Each word due, once and in order.
WordsHeld(n) == Lists(Stream, Due(n))

\* The converter has given as many bytes of its word as are gone of it.
ConverterInStep(n) ==
    IF ByteThere THEN conv.left = 4 - (Gone(n) % 4) ELSE Gone(n) % 4 = 0

\* The descriptors queued are those of consecutive messages, up to the last
\* one described.
DescriptorsInOrder ==
    /\ NextMsg >= 1
    /\ \A i \in DOMAIN descq : descq[i].msg = NextMsg + i - 1

SaidWhole == fw.desc => fw.words = DataWords(fw.len)

\* The registers of the handler agree on what is in hand.
HandRight(n) ==
    /\ pending => descValid
    /\ ~(descValid /\ flush)
    /\ descValid => desc = [msg |-> NextMsg - 1, len |-> n]
    /\ pending \/ flush => count \in 1..n

\* A descriptor is in hand from the ACK to the last byte, and a byte is on
\* offer whenever the machine shifts one out.
Acks == fsm \in {"TxAckFByte", "TxAckSByte"} /\ header \in Reads
Shifts == fsm \in {"TxPReadData", "TxPReadTbitCont"}
Chooses == fsm = "TxPReadTbitSel" /\ ~prLast

ReadInStep ==
    /\ descValid <=> Acks \/ Shifts \/ Chooses
    /\ Shifts \/ Chooses => pending
    /\ Shifts => ByteThere
    /\ ~prUnderrun /\ prWait = 0

ReadInv(n) ==
    /\ DescriptorsInOrder
    /\ SaidWhole
    /\ HandRight(n)
    /\ ConverterInStep(n)
    /\ WordsHeld(n)
    /\ ReadInStep

ReadsRight == Disciplined => \E n \in Lengths : ReadInv(n)

=============================================================================
