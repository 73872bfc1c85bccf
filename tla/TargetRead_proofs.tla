-------------------------- MODULE TargetRead_proofs --------------------------
(***************************************************************************)
(* Proofs about TargetRead.  The invariant of TargetReadInv is shown to be *)
(* kept by what the steps do to the words between firmware and the bus,    *)
(* and the safety properties follow.                                       *)
(***************************************************************************)
EXTENDS TargetReadInv, TargetLemmas

-----------------------------------------------------------------------------
(* Typing. *)

\* Every step keeps the types of the FSM.
LEMMA FsmTypesStep == ASSUME FsmTypeOK, [Next]_vars PROVE FsmTypeOK'
<1>0. Avail \in BOOLEAN /\ ByteLast \in BOOLEAN /\ ByteValid \in BOOLEAN
  BY DEF Avail, ByteLast, ByteValid
<1>1. CASE Firmware \/ Handler
  BY <1>1, FsmKept DEF Firmware, Handler
<1>2. CASE Controller
  BY <1>2, StopTyped, StartTyped, RepeatedStartTyped, BusAvailableTyped, AddressTyped
     DEF Controller, EndFrame
<1>3. CASE CheckAddress
  BY <1>0, <1>3, CheckTyped DEF CheckAddress
<1>4. CASE BusBit \/ TbitDecided
  <2>1. AckSent \/ \E b \in BOOLEAN : \/ ReadByteSent(b) \/ TbitSelected(b) \/ TbitWaits(b)
                                      \/ ReadContinued \/ ReadAborted \/ ReadEnded
    BY <1>0, <1>4 DEF BusBit, TbitDecided
  <2> QED
    BY <2>1, AckTyped, ReadTyped
<1>5. CASE UNCHANGED vars
  BY <1>5, FsmKept DEF vars
<1> QED
  BY <1>1, <1>2, <1>3, <1>4, <1>5 DEF Next, Target

\* The parts of the handler's state: what firmware has written, the queues,
\* the converter, and the registers.
Messaged == [msg : 1..Messages, idx : Nat]

QueuesTypeOK ==
    /\ txq \in Seq(Messaged) /\ Len(txq) <= TxDepth
    /\ conv \in [msg : 0..Messages, idx : Nat, left : 0..4]

Queued == [msg : 1..Messages, len : Lengths]

DescsTypeOK ==
    /\ descq \in Seq(Queued) /\ Len(descq) <= DescDepth
    /\ desc \in [msg : 0..Messages, len : Lengths \cup {0}]

FwTypeOK ==
    /\ fw \in [msg : 1..Messages, len : Lengths, words : Nat, desc : BOOLEAN]
    /\ fw.words <= DataWords(fw.len)

FlagsTypeOK ==
    /\ descValid \in BOOLEAN /\ pending \in BOOLEAN /\ flush \in BOOLEAN
    /\ count \in ByteCounts

LEMMA TypeParts ==
    TxTypeOK <=> keeps \in Disciplines /\ FwTypeOK /\ QueuesTypeOK /\ DescsTypeOK /\ FlagsTypeOK
<1>1. {descValid, pending, flush} \subseteq BOOLEAN <=>
         descValid \in BOOLEAN /\ pending \in BOOLEAN /\ flush \in BOOLEAN
  BY Zenon
<1> QED
  BY <1>1, Zenon DEF TxTypeOK, FwTypeOK, QueuesTypeOK, DescsTypeOK, FlagsTypeOK, Messaged, Queued

LEMMA TypePartsAfter ==
    (keeps \in Disciplines)' /\ FwTypeOK' /\ QueuesTypeOK' /\ DescsTypeOK' /\ FlagsTypeOK'
      => TxTypeOK'
<1>1. keeps \in Disciplines /\ FwTypeOK /\ QueuesTypeOK /\ DescsTypeOK /\ FlagsTypeOK
        => TxTypeOK
  BY TypeParts
<1> QED
  BY <1>1, PTL

\* Bounds of the constants, and of the numbers of words that follow from them.
LEMMA NumbersTyped ==
    /\ \A n \in Lengths : n \in ByteCounts /\ n \in Nat \ {0}
    /\ \A n \in Nat : DataWords(n) \in Nat
    /\ \A n \in Lengths : DataWords(n) \in Nat \ {0}
    /\ 0 \in ByteCounts /\ 1 \in ByteCounts
    /\ Messages \in Nat \ {0} /\ TxDepth \in Nat \ {0} /\ DescDepth \in Nat \ {0}
<1>1. \A n \in Lengths : n \in ByteCounts /\ n \in Nat \ {0}
  BY LengthsAssumption DEF ByteCounts
<1>2. \A n \in Nat : DataWords(n) \in Nat
  BY SMT DEF DataWords
<1>3. \A n \in Nat \ {0} : DataWords(n) \in Nat \ {0}
  BY SMT DEF DataWords
<1>4. 0 \in ByteCounts /\ 1 \in ByteCounts
  BY SMT DEF ByteCounts
<1> QED
  BY <1>1, <1>2, <1>3, <1>4, TxDepthsAssumption

LEMMA RecordsTyped ==
    /\ \A w \in Messaged : w.msg \in 0..Messages /\ w.idx \in Nat
    /\ \A d \in Queued : d \in [msg : 0..Messages, len : Lengths \cup {0}]
<1>1. \A m \in 1..Messages : m \in 0..Messages
  BY NumbersTyped
<1>2. \A d \in Queued : d = [msg |-> d.msg, len |-> d.len] /\ d.msg \in 1..Messages /\ d.len \in Lengths
  BY DEF Queued
<1>3. \A w \in Messaged : w.msg \in 1..Messages /\ w.idx \in Nat
  BY DEF Messaged
<1>4. ASSUME NEW d \in Queued PROVE d \in [msg : 0..Messages, len : Lengths \cup {0}]
  <2>1. d.msg \in 0..Messages /\ d.len \in Lengths \cup {0}
    BY <1>1, <1>2
  <2>2. [msg |-> d.msg, len |-> d.len] \in [msg : 0..Messages, len : Lengths \cup {0}]
    BY <2>1, Zenon
  <2> QED
    BY <1>2, <2>2
<1> QED
  BY <1>1, <1>3, <1>4

\* The ways the converter and the byte counter move.
LEMMA TakeByteTyped ==
    ASSUME QueuesTypeOK, ByteThere, TakeByte
    PROVE  conv' \in [msg : 0..Messages, idx : Nat, left : 0..4]
<1>1. Empty \in [msg : 0..Messages, idx : Nat, left : 0..4]
  BY NumbersTyped DEF Empty
<1> QED
  BY <1>1 DEF TakeByte, QueuesTypeOK, ByteThere

LEMMA FlushConverterTyped == ASSUME QueuesTypeOK, FlushConverter PROVE QueuesTypeOK'
<1>1. conv' \in [msg : 0..Messages, idx : Nat, left : 0..4]
  BY NumbersTyped DEF FlushConverter, Empty
<1>2. txq' = txq \/ (txq # <<>> /\ txq' = Tail(txq))
  BY DEF FlushConverter
<1>3. txq' \in Seq(Messaged) /\ Len(txq') <= TxDepth
  <2>1. txq \in Seq(Messaged) /\ Len(txq) <= TxDepth /\ TxDepth \in Nat
    BY NumbersTyped DEF QueuesTypeOK
  <2>2. CASE txq # <<>> /\ txq' = Tail(txq)
    <3>1. Tail(txq) \in Seq(Messaged) /\ Len(Tail(txq)) = Len(txq) - 1 /\ Len(txq) \in Nat
      BY <2>1, <2>2
    <3> QED
      BY <2>1, <2>2, <3>1
  <2> QED
    BY <1>2, <2>1, <2>2
<1> QED
  BY <1>1, <1>3 DEF QueuesTypeOK

LEMMA CountTyped == ASSUME count \in ByteCounts PROVE Minus1(count) \in ByteCounts
  BY SMT DEF Minus1, ByteCounts

LEMMA NoDescTyped == NoDesc \in [msg : 0..Messages, len : Lengths \cup {0}]
  BY NumbersTyped DEF NoDesc

\* Firmware's steps keep the types of the read path.
LEMMA FirmwareTyped ==
    ASSUME TxTypeOK, FwData \/ FwDescriptor \/ FwNextMessage
    PROVE  TxTypeOK'
<1>0. keeps \in Disciplines /\ FwTypeOK /\ QueuesTypeOK /\ DescsTypeOK /\ FlagsTypeOK
  BY TypeParts
<1>1. CASE FwData
  <2>1. [msg |-> fw.msg, idx |-> fw.words] \in Messaged
    BY <1>0 DEF FwTypeOK, Messaged
  <2>2. QueuesTypeOK'
    BY <1>0, <1>1, <2>1, TxDepthsAssumption DEF FwData, QueuesTypeOK
  <2>3. FwTypeOK'
    BY <1>0, <1>1, NumbersTyped DEF FwData, FwTypeOK
  <2>4. UNCHANGED <<keeps, descq, handlerVars>>
    BY <1>1 DEF FwData
  <2>5. (keeps \in Disciplines)' /\ DescsTypeOK' /\ FlagsTypeOK'
    BY <1>0, <2>4 DEF handlerVars, DescsTypeOK, FlagsTypeOK
  <2> QED
    BY <2>2, <2>3, <2>5, TypePartsAfter
<1>2. CASE FwDescriptor
  <2>1. [msg |-> fw.msg, len |-> fw.len] \in Queued
    BY <1>0 DEF FwTypeOK, Queued
  <2>2. DescsTypeOK'
    BY <1>0, <1>2, <2>1, TxDepthsAssumption DEF FwDescriptor, DescsTypeOK, handlerVars
  <2>3. FwTypeOK'
    BY <1>0, <1>2 DEF FwDescriptor, FwTypeOK
  <2>4. UNCHANGED <<keeps, txq, conv, handlerVars>>
    BY <1>2 DEF FwDescriptor
  <2>5. (keeps \in Disciplines)' /\ QueuesTypeOK' /\ FlagsTypeOK'
    BY <1>0, <2>4 DEF handlerVars, QueuesTypeOK, FlagsTypeOK
  <2> QED
    BY <2>2, <2>3, <2>5, TypePartsAfter
<1>3. CASE FwNextMessage
  <2>1. PICK n \in Lengths : fw' = NewMessage(fw.msg + 1, n)
    BY <1>3 DEF FwNextMessage
  <2>2. FwTypeOK'
    BY <1>0, <1>3, <2>1, NumbersTyped DEF FwNextMessage, NewMessage, FwTypeOK
  <2>3. UNCHANGED <<keeps, txq, conv, descq, handlerVars>>
    BY <1>3 DEF FwNextMessage
  <2>4. (keeps \in Disciplines)' /\ QueuesTypeOK' /\ DescsTypeOK' /\ FlagsTypeOK'
    BY <1>0, <2>3 DEF handlerVars, QueuesTypeOK, DescsTypeOK, FlagsTypeOK
  <2> QED
    BY <2>2, <2>4, TypePartsAfter
<1> QED
  BY <1>1, <1>2, <1>3

\* So do the handler's own steps.
LEMMA HandlerTyped ==
    ASSUME TxTypeOK, HandlerStep
    PROVE  TxTypeOK'
<1>0. keeps \in Disciplines /\ FwTypeOK /\ QueuesTypeOK /\ DescsTypeOK /\ FlagsTypeOK
  BY TypeParts
<1>1. (keeps \in Disciplines)' /\ FwTypeOK'
  BY <1>0 DEF HandlerStep, TxStart, LoadWord, FlushByte, FlushEnd, FlushDry, FwTypeOK
<1>2. CASE TxStart
  <2>1. desc.len \in ByteCounts
    BY <1>0, NumbersTyped DEF DescsTypeOK
  <2>2. FlagsTypeOK'
    BY <1>0, <1>2, <2>1 DEF TxStart, FlagsTypeOK
  <2>3. QueuesTypeOK' /\ DescsTypeOK'
    BY <1>0, <1>2 DEF TxStart, QueuesTypeOK, DescsTypeOK
  <2> QED
    BY <1>1, <2>2, <2>3, TypePartsAfter
<1>3. CASE LoadWord
  <2>1. txq # <<>> /\ Head(txq) \in Messaged
    BY <1>0, <1>3 DEF LoadWord, MayLoad, QueuesTypeOK
  <2>2. conv' \in [msg : 0..Messages, idx : Nat, left : 0..4]
    <3>1. Head(txq).msg \in 0..Messages /\ Head(txq).idx \in Nat /\ 4 \in 0..4
      BY <2>1, RecordsTyped
    <3> QED
      BY <1>3, <3>1, Zenon DEF LoadWord
  <2>3. txq' \in Seq(Messaged) /\ Len(txq') <= TxDepth
    <3>1. Tail(txq) \in Seq(Messaged) /\ Len(Tail(txq)) = Len(txq) - 1 /\ Len(txq) \in Nat
      BY <1>0, <2>1 DEF QueuesTypeOK
    <3> QED
      BY <1>0, <1>3, <3>1, NumbersTyped DEF LoadWord, QueuesTypeOK
  <2>4. DescsTypeOK' /\ FlagsTypeOK'
    BY <1>0, <1>3 DEF LoadWord, handlerVars, DescsTypeOK, FlagsTypeOK
  <2> QED
    BY <1>1, <2>2, <2>3, <2>4, TypePartsAfter DEF QueuesTypeOK
<1>4. CASE FlushByte
  <2>1. QueuesTypeOK'
    BY <1>0, <1>4, TakeByteTyped DEF FlushByte, QueuesTypeOK
  <2>2. DescsTypeOK'
    BY <1>0, <1>4 DEF FlushByte, DescsTypeOK
  <2>3. count' \in ByteCounts
    BY <1>0, <1>4, CountTyped DEF FlushByte, FlagsTypeOK
  <2>4. FlagsTypeOK'
    BY <1>0, <1>4, <2>3 DEF FlushByte, FlagsTypeOK
  <2> QED
    BY <1>1, <2>1, <2>2, <2>4, TypePartsAfter
<1>5. CASE FlushEnd
  <2>1. QueuesTypeOK'
    BY <1>0, <1>5, FlushConverterTyped DEF FlushEnd
  <2>2. DescsTypeOK'
    BY <1>0, <1>5, NoDescTyped DEF FlushEnd, DescsTypeOK
  <2>3. FlagsTypeOK'
    BY <1>5, NumbersTyped DEF FlushEnd, FlagsTypeOK
  <2> QED
    BY <1>1, <2>1, <2>2, <2>3, TypePartsAfter
<1>6. CASE FlushDry
  <2>1. QueuesTypeOK' /\ DescsTypeOK' /\ FlagsTypeOK'
    BY <1>0, <1>6 DEF FlushDry, QueuesTypeOK, DescsTypeOK, FlagsTypeOK
  <2> QED
    BY <1>1, <2>1, TypePartsAfter
<1> QED
  BY <1>2, <1>3, <1>4, <1>5, <1>6 DEF HandlerStep

\* So do the steps the FSM has it take.
LEMMA InterfaceTyped ==
    ASSUME TxTypeOK, ReadStarts \/ ByteTaken \/ Aborted \/ UNCHANGED txVars
    PROVE  TxTypeOK'
<1>0. keeps \in Disciplines /\ FwTypeOK /\ QueuesTypeOK /\ DescsTypeOK /\ FlagsTypeOK
  BY TypeParts
<1>1. (keeps \in Disciplines)' /\ FwTypeOK'
  BY <1>0 DEF ReadStarts, ByteTaken, Aborted, txVars, FwTypeOK
<1>2. CASE ReadStarts
  <2>1. QueuesTypeOK'
    BY <1>0, <1>2 DEF ReadStarts, QueuesTypeOK
  <2>2. FlagsTypeOK'
    BY <1>0, <1>2 DEF ReadStarts, FlagsTypeOK
  <2>3. DescsTypeOK'
    <3>1. CASE descq # <<>> /\ desc' = Head(descq) /\ descq' = Tail(descq)
      <4>1. descq \in Seq(Queued) /\ descq # <<>>
        BY <1>0, <3>1 DEF DescsTypeOK
      <4>2. /\ Head(descq) \in Queued /\ Tail(descq) \in Seq(Queued)
            /\ Len(Tail(descq)) = Len(descq) - 1 /\ Len(descq) \in Nat
        BY <4>1
      <4>3. desc' \in [msg : 0..Messages, len : Lengths \cup {0}]
        BY <3>1, <4>2, RecordsTyped
      <4> QED
        BY <1>0, <3>1, <4>2, <4>3, TxDepthsAssumption DEF DescsTypeOK
    <3>2. CASE UNCHANGED <<desc, descq>>
      BY <1>0, <3>2 DEF DescsTypeOK
    <3> QED
      BY <1>2, <3>1, <3>2 DEF ReadStarts
  <2> QED
    BY <1>1, <2>1, <2>2, <2>3, TypePartsAfter
<1>3. CASE ByteTaken
  <2>1. QueuesTypeOK'
    <3>1. CASE FlushConverter
      BY <1>0, <3>1, FlushConverterTyped
    <3>2. CASE ByteValid /\ TakeByte /\ UNCHANGED txq
      BY <1>0, <3>2, TakeByteTyped DEF ByteValid, QueuesTypeOK
    <3>3. CASE UNCHANGED <<txq, conv>>
      BY <1>0, <3>3 DEF QueuesTypeOK
    <3> QED
      BY <1>3, <3>1, <3>2, <3>3 DEF ByteTaken
  <2>2. DescsTypeOK'
    BY <1>0, <1>3, NoDescTyped DEF ByteTaken, DescsTypeOK
  <2>3. FlagsTypeOK'
    <3>1. count' \in ByteCounts
      BY <1>0, <1>3, CountTyped DEF ByteTaken, FlagsTypeOK
    <3> QED
      BY <1>0, <1>3, <3>1 DEF ByteTaken, FlagsTypeOK
  <2> QED
    BY <1>1, <2>1, <2>2, <2>3, TypePartsAfter
<1>4. CASE Aborted
  <2>1. QueuesTypeOK'
    BY <1>0, <1>4 DEF Aborted, QueuesTypeOK
  <2>2. DescsTypeOK'
    BY <1>0, <1>4, NoDescTyped DEF Aborted, DescsTypeOK
  <2>3. FlagsTypeOK'
    BY <1>0, <1>4 DEF Aborted, FlagsTypeOK
  <2> QED
    BY <1>1, <2>1, <2>2, <2>3, TypePartsAfter
<1>5. CASE UNCHANGED txVars
  <2>1. QueuesTypeOK' /\ DescsTypeOK' /\ FlagsTypeOK'
    BY <1>0, <1>5 DEF txVars, handlerVars, QueuesTypeOK, DescsTypeOK, FlagsTypeOK
  <2> QED
    BY <1>1, <2>1, TypePartsAfter
<1> QED
  BY <1>2, <1>3, <1>4, <1>5

\* Every step keeps the types.
LEMMA TypeStep == TypeOK /\ [Next]_vars => TypeOK'
<1> SUFFICES ASSUME TypeOK, [Next]_vars PROVE TxTypeOK'
  BY FsmTypesStep DEF TypeOK
<1>1. CASE Firmware \/ Handler
  BY <1>1, FirmwareTyped, HandlerTyped DEF Firmware, Handler, TypeOK
<1>2. CASE Controller \/ Target \/ UNCHANGED vars
  <2>1. ReadStarts \/ ByteTaken \/ Aborted \/ UNCHANGED txVars
    BY <1>2 DEF Controller, EndFrame, Target, CheckAddress, BusBit, TbitDecided, vars
  <2> QED
    BY <2>1, InterfaceTyped DEF TypeOK
<1> QED
  BY <1>1, <1>2 DEF Next

\* The types hold in every state.
THEOREM TypeCorrect == Spec => []TypeOK
<1>1. Init => TypeOK
  <2> SUFFICES ASSUME Init PROVE TxTypeOK
    BY FsmInitTyped DEF Init, TypeOK
  <2>1. PICK n \in Lengths : fw = NewMessage(1, n)
    BY DEF Init, TxInit
  <2>2. FwTypeOK
    BY <2>1, NumbersTyped DEF NewMessage, FwTypeOK
  <2>3. QueuesTypeOK
    BY NumbersTyped DEF Init, TxInit, Empty, QueuesTypeOK
  <2>4. DescsTypeOK
    BY NumbersTyped, NoDescTyped DEF Init, TxInit, DescsTypeOK
  <2>5. FlagsTypeOK
    BY NumbersTyped DEF Init, TxInit, FlagsTypeOK
  <2> QED
    BY <2>2, <2>3, <2>4, <2>5, TypeParts DEF Init, TxInit
<1> QED
  BY <1>1, TypeStep, PTL DEF Spec

-----------------------------------------------------------------------------
(* The messages and their words. *)

\* The messages in order: gone, in hand, described, and being written.
Shaped(n) ==
    /\ Len(descq) \in Nat
    /\ Described \in Nat /\ NextMsg \in Nat \ {0}
    /\ NextMsg + Len(descq) = Described + 1
    /\ fw.msg \in Nat /\ fw.words \in Nat
    /\ fw.msg = IF fw.desc THEN Described ELSE Described + 1
    /\ First \in Nat /\ NextMsg = IF InHand THEN First + 1 ELSE First
    /\ Gone(n) \in 0..(n - 1)
    /\ \A m \in Nat : WordsOf(m, n) \in Nat

\* The set of words due, written out.
DueWritten(n) ==
    /\ Due(n) \subseteq Words
    /\ \A w \in Words :
          w \in Due(n) <=> /\ w.msg \in First..fw.msg
                           /\ w.idx < WordsOf(w.msg, n)
                           /\ w.msg = First => Gone(n) \div 4 <= w.idx

WrittenOut ==
    \A n \in Lengths :
       TypeOK /\ DescriptorsInOrder /\ HandRight(n) => Shaped(n) /\ DueWritten(n)

LEMMA ShapeOut == WrittenOut
<1> SUFFICES ASSUME NEW n \in Lengths, TypeOK, DescriptorsInOrder, HandRight(n)
             PROVE  Shaped(n) /\ DueWritten(n)
  BY DEF WrittenOut
<1>1. /\ Len(descq) \in Nat
      /\ \A i \in 1..Len(descq) : descq[i].len \in Lengths
  <2>1. descq \in Seq(Queued)
    BY TypeParts DEF TypeOK, DescsTypeOK
  <2>2. \A i \in 1..Len(descq) : descq[i] \in Queued
    BY <2>1
  <2> QED
    BY <2>1, <2>2 DEF Queued
<1>2. fw.msg \in Nat \ {0} /\ fw.words \in Nat /\ fw.desc \in BOOLEAN
  BY TypeParts, NumbersTyped DEF TypeOK, FwTypeOK
<1>3. /\ Described \in Nat
      /\ fw.msg = IF fw.desc THEN Described ELSE Described + 1
  BY <1>2 DEF Described
<1>4. NextMsg \in Nat \ {0} /\ NextMsg + Len(descq) = Described + 1
  BY <1>1, <1>3 DEF NextMsg, DescriptorsInOrder
<1>5. First \in Nat /\ NextMsg = IF InHand THEN First + 1 ELSE First
  BY <1>4 DEF First
<1>6. Gone(n) \in 0..(n - 1)
  BY NumbersTyped DEF Gone, HandRight
<1>7. ASSUME NEW m \in Nat PROVE WordsOf(m, n) \in Nat
  <2>1. CASE m > Described \/ m < NextMsg
    BY <1>2, <2>1, NumbersTyped DEF WordsOf
  <2>2. CASE m <= Described /\ m >= NextMsg
    <3>1. m - NextMsg + 1 \in 1..Len(descq)
      BY <1>1, <1>3, <1>4, <2>2
    <3>2. DataWords(descq[m - NextMsg + 1].len) \in Nat
      BY <1>1, <3>1, NumbersTyped
    <3> QED
      BY <1>2, <3>2, NumbersTyped DEF WordsOf
  <2> QED
    BY <1>3, <1>4, <2>1, <2>2
<1>8. Shaped(n)
  BY <1>1, <1>2, <1>3, <1>4, <1>5, <1>6, <1>7 DEF Shaped
<1>9. Gone(n) \div 4 \in Nat
  BY <1>6, NumbersTyped
<1>10. ASSUME NEW w
       PROVE  w \in Due(n) <=> \E m \in First..fw.msg :
                                  \E i \in FirstDue(m, n)..(WordsOf(m, n) - 1) :
                                     w = [msg |-> m, idx |-> i]
  BY DEF Due
<1>11. \A m \in First..fw.msg : m \in Nat /\ WordsOf(m, n) \in Nat /\ FirstDue(m, n) \in Nat
  BY <1>2, <1>5, <1>7, <1>9 DEF FirstDue
<1>12. ASSUME NEW w \in Due(n) PROVE w \in Words
  BY <1>10, <1>11 DEF Words
<1>13. ASSUME NEW w \in Words
       PROVE  w \in Due(n) <=> /\ w.msg \in First..fw.msg
                               /\ w.idx < WordsOf(w.msg, n)
                               /\ w.msg = First => Gone(n) \div 4 <= w.idx
  <2>1. w.msg \in Nat /\ w.idx \in Nat /\ w = [msg |-> w.msg, idx |-> w.idx]
    BY DEF Words
  <2>2. w \in Due(n) <=> /\ w.msg \in First..fw.msg
                         /\ w.idx \in FirstDue(w.msg, n)..(WordsOf(w.msg, n) - 1)
    <3>1. \A m, i : w = [msg |-> m, idx |-> i] => m = w.msg /\ i = w.idx
      OBVIOUS
    <3> QED
      BY <1>10, <2>1, <3>1
  <2> QED
    BY <1>9, <1>11, <2>1, <2>2 DEF FirstDue
<1> QED
  BY <1>8, <1>12, <1>13 DEF DueWritten

LEMMA ShapeAfter ==
    ASSUME NEW n \in Lengths, TypeOK', DescriptorsInOrder', HandRight(n)'
    PROVE  Shaped(n)' /\ DueWritten(n)'
<1>1. WrittenOut'
  BY ShapeOut, PTL
<1> QED
  BY <1>1 DEF WrittenOut

-----------------------------------------------------------------------------
(* Before a step. *)

\* What the steps between firmware and the FSM keep.
TxRight(n) ==
    /\ DescriptorsInOrder
    /\ SaidWhole
    /\ HandRight(n)
    /\ ConverterInStep(n)
    /\ WordsHeld(n)

\* What the proofs below assume of the state before a step.
ReadPre(n) == TypeOK /\ Disciplined /\ TxRight(n)

LEMMA HeldBefore ==
    ASSUME NEW n \in Lengths, ReadPre(n)
    PROVE  /\ n \in Nat \ {0}
           /\ Shaped(n) /\ DueWritten(n)
           /\ Due(n) \in SUBSET Words /\ Lists(Stream, Due(n))
           /\ txq \in Seq(Words) /\ Stream \in Seq(Words) /\ ConvWord \in Words
           /\ conv.left \in 0..4
           /\ ByteThere => Stream # <<>> /\ Head(Stream) = ConvWord /\ Tail(Stream) = txq
<1>1. Shaped(n) /\ DueWritten(n)
  BY ShapeOut DEF WrittenOut, ReadPre, TxRight
<1>2. Messaged \subseteq Words
  BY NumbersTyped DEF Messaged, Words
<1>3. txq \in Seq(Words)
  <2>1. txq \in Seq(Messaged)
    BY TypeParts DEF ReadPre, TypeOK, QueuesTypeOK
  <2> QED
    BY <1>2, <2>1, SeqMonotonic
<1>4. ConvWord \in Words /\ conv.left \in 0..4
  <2>1. conv.msg \in Nat /\ conv.idx \in Nat /\ conv.left \in 0..4
    BY TypeParts, NumbersTyped DEF ReadPre, TypeOK, QueuesTypeOK
  <2> QED
    BY <2>1 DEF ConvWord, Words
<1>5. Stream \in Seq(Words) /\
      (ByteThere => Stream # <<>> /\ Head(Stream) = ConvWord /\ Tail(Stream) = txq)
  <2>1. /\ <<ConvWord>> \o txq \in Seq(Words)
        /\ <<ConvWord>> \o txq # <<>>
        /\ Head(<<ConvWord>> \o txq) = ConvWord
        /\ Tail(<<ConvWord>> \o txq) = txq
    BY <1>3, <1>4
  <2> QED
    BY <1>3, <2>1 DEF Stream
<1> QED
  BY <1>1, <1>3, <1>4, <1>5, NumbersTyped DEF ReadPre, TxRight, WordsHeld, DueWritten

\* While a message is in hand its first byte that is not gone is in the first
\* word of the stream.
LEMMA HeadDue ==
    ASSUME NEW n \in Lengths, ReadPre(n), InHand
    PROVE  /\ Stream # <<>>
           /\ Head(Stream) = [msg |-> First, idx |-> Gone(n) \div 4]
           /\ \A m \in Nat : m = First => WordsOf(m, n) = DataWords(n)
<1>1. /\ First \in Nat /\ First < NextMsg /\ First <= Described /\ Described \in Nat
      /\ First <= fw.msg /\ fw.msg \in Nat
  <2>1. /\ Len(descq) \in Nat /\ Described \in Nat /\ NextMsg \in Nat /\ First \in Nat
        /\ NextMsg + Len(descq) = Described + 1
        /\ fw.msg = Described \/ fw.msg = Described + 1
        /\ NextMsg = First + 1
    BY HeldBefore DEF Shaped
  <2> QED
    BY <2>1
<1>2. ASSUME NEW m \in Nat, m = First PROVE WordsOf(m, n) = DataWords(n)
  BY <1>1, <1>2 DEF WordsOf
<1>3. Gone(n) \div 4 \in Nat /\ Gone(n) \div 4 < DataWords(n)
  <2>1. Gone(n) \in 0..(n - 1) /\ n \in Nat \ {0}
    BY HeldBefore DEF Shaped
  <2> QED
    BY <2>1, SMT DEF DataWords
<1> DEFINE w == [msg |-> First, idx |-> Gone(n) \div 4]
<1>4. w \in Words /\ w.msg = First /\ w.idx = Gone(n) \div 4
  BY <1>1, <1>3 DEF Words
<1> HIDE DEF w
<1>5. w \in Due(n)
  <2>1. w.msg \in First..fw.msg
    BY <1>1, <1>4
  <2>2. w.idx < WordsOf(w.msg, n)
    BY <1>1, <1>2, <1>3, <1>4
  <2>3. Gone(n) \div 4 <= w.idx
    BY <1>3, <1>4
  <2> QED
    BY <1>4, <2>1, <2>2, <2>3, HeldBefore DEF DueWritten
<1>6. Stream # <<>>
  BY <1>5, HeldBefore DEF Lists
<1> DEFINE h == Head(Stream)
<1>7. h \in Due(n) /\ (w = h \/ Before(h, w))
  BY <1>5, <1>6, HeldBefore, ListsTail
<1> HIDE DEF h
<1>8. h \in Words /\ h.msg \in First..fw.msg /\ (h.msg = First => Gone(n) \div 4 <= h.idx)
  BY <1>7, HeldBefore DEF DueWritten
<1>9. ~Before(h, w)
  <2>1. h.msg \in Nat /\ h.idx \in Nat
    BY <1>8 DEF Words
  <2> QED
    BY <1>1, <1>3, <1>4, <1>8, <2>1 DEF Before
<1> QED
  BY <1>2, <1>6, <1>7, <1>9 DEF w, h

\* A step that takes no word and adds none leaves the words due as they are.
LEMMA DueSame ==
    ASSUME NEW n \in Lengths, NEW q \in Lengths, ReadPre(n), Shaped(q)', DueWritten(q)',
           First' = First, Gone(q)' \div 4 = Gone(n) \div 4,
           fw'.msg = fw.msg \/ fw'.msg = fw.msg + 1,
           \A m \in First..fw.msg : WordsOf(m, q)' = WordsOf(m, n),
           \A m \in Nat : m = fw'.msg /\ m # fw.msg => WordsOf(m, q)' = 0
    PROVE  Due(q)' = Due(n)
<1>1. Due(n) \subseteq Words /\ Due(q)' \subseteq Words
  BY HeldBefore DEF DueWritten
<1>2. First \in Nat /\ fw.msg \in Nat
  BY HeldBefore DEF Shaped
<1>3. ASSUME NEW w \in Words
      PROVE  w \in Due(q)' <=> w \in Due(n)
  <2>1. w.msg \in Nat /\ w.idx \in Nat
    BY DEF Words
  <2>2. w \in Due(n) <=> /\ w.msg \in First..fw.msg
                         /\ w.idx < WordsOf(w.msg, n)
                         /\ w.msg = First => Gone(n) \div 4 <= w.idx
    BY HeldBefore DEF DueWritten
  <2>3. w \in Due(q)' <=> /\ w.msg \in First..fw'.msg
                          /\ w.idx < WordsOf(w.msg, q)'
                          /\ w.msg = First => Gone(n) \div 4 <= w.idx
    BY DEF DueWritten
  <2>4. CASE w.msg \in First..fw.msg
    <3>1. WordsOf(w.msg, q)' = WordsOf(w.msg, n) /\ w.msg \in First..fw'.msg
      BY <1>2, <2>4
    <3> QED
      BY <2>2, <2>3, <2>4, <3>1
  <2>5. CASE w.msg \notin First..fw.msg
    <3>1. w.msg \in First..fw'.msg => WordsOf(w.msg, q)' = 0
      BY <1>2, <2>1, <2>5
    <3> QED
      BY <2>1, <2>2, <2>3, <2>5, <3>1
  <2> QED
    BY <2>4, <2>5
<1> QED
  BY <1>1, <1>3

-----------------------------------------------------------------------------
(* The words held, step by step. *)

\* A step that leaves what firmware has written and the words where they are.
LEMMA HeldSame ==
    ASSUME NEW n \in Lengths, ReadPre(n), TypeOK',
           UNCHANGED <<fw, descq>>, DescriptorsInOrder', HandRight(n)',
           InHand' = InHand, Gone(n)' = Gone(n), Stream' = Stream
    PROVE  WordsHeld(n)'
<1>1. Shaped(n)' /\ DueWritten(n)'
  BY ShapeAfter
<1>2. First' = First /\ \A m : WordsOf(m, n)' = WordsOf(m, n)
  BY DEF First, NextMsg, Described, WordsOf
<1>3. fw.msg \in Nat /\ fw'.msg = fw.msg
  BY HeldBefore DEF Shaped
<1>4. Due(n)' = Due(n)
  BY <1>1, <1>2, <1>3, DueSame
<1> QED
  BY <1>4, HeldBefore DEF WordsHeld

\* A step of another component.
LEMMA HeldStill ==
    ASSUME NEW n \in Lengths, ReadPre(n), TypeOK', UNCHANGED txVars
    PROVE  TxRight(n)'
  BY DEF ReadPre, TxRight, DescriptorsInOrder, SaidWhole, HandRight, ConverterInStep, WordsHeld,
         Described, NextMsg, InHand, First, Gone, WordsOf, FirstDue, Due, ConvWord, Stream,
         ByteThere, txVars, handlerVars

\* Firmware queues a word.
LEMMA HeldAtData ==
    ASSUME NEW n \in Lengths, ReadPre(n), TypeOK', FwData
    PROVE  TxRight(n)'
<1>1. /\ fw.words < DataWords(fw.len)
      /\ txq' = Append(txq, [msg |-> fw.msg, idx |-> fw.words])
      /\ fw' = [fw EXCEPT !.words = fw.words + 1]
      /\ UNCHANGED <<conv, descq, desc, descValid, pending, count, flush>>
  BY DEF FwData, handlerVars
<1>2. /\ fw'.msg = fw.msg /\ fw'.desc = fw.desc /\ fw'.len = fw.len
      /\ fw'.words = fw.words + 1
  <2>1. fw \in [msg : 1..Messages, len : Lengths, words : Nat, desc : BOOLEAN]
    BY TypeParts DEF ReadPre, TypeOK, FwTypeOK
  <2> QED
    BY <1>1, <2>1
<1>3. ~fw.desc
  <2>1. fw.words \in Nat
    BY HeldBefore DEF Shaped
  <2> QED
    BY <1>1, <2>1 DEF ReadPre, TxRight, SaidWhole
<1>4. /\ Described' = Described /\ NextMsg' = NextMsg /\ InHand' = InHand /\ First' = First
      /\ Gone(n)' = Gone(n)
  BY <1>1, <1>2 DEF Described, NextMsg, InHand, First, Gone
<1>5. DescriptorsInOrder' /\ SaidWhole' /\ HandRight(n)' /\ ConverterInStep(n)'
  BY <1>1, <1>2, <1>3, <1>4
     DEF ReadPre, TxRight, DescriptorsInOrder, SaidWhole, HandRight, ConverterInStep, ByteThere
<1>6. Shaped(n)' /\ DueWritten(n)'
  BY <1>5, ShapeAfter
<1>7. /\ fw.msg \in Nat /\ fw.words \in Nat /\ fw.msg > Described
      /\ Described \in Nat /\ First \in Nat /\ First <= fw.msg
      /\ First = fw.msg => Gone(n) = 0
  <2>1. /\ Len(descq) \in Nat /\ Described \in Nat /\ NextMsg \in Nat /\ First \in Nat
        /\ NextMsg + Len(descq) = Described + 1
        /\ fw.msg = Described + 1 /\ fw.words \in Nat
        /\ NextMsg = IF InHand THEN First + 1 ELSE First
    BY <1>3, HeldBefore DEF Shaped
  <2>2. InHand \/ Gone(n) = 0
    BY DEF ReadPre, TxRight, HandRight, InHand, Gone
  <2> QED
    BY <2>1, <2>2
<1>8. \A m \in Nat : /\ m = fw.msg => WordsOf(m, n) = fw.words /\ WordsOf(m, n)' = fw.words + 1
                     /\ m # fw.msg /\ m <= fw.msg => WordsOf(m, n)' = WordsOf(m, n)
  <2>1. fw.msg = Described + 1
    BY <1>3, HeldBefore DEF Shaped
  <2> QED
    BY <1>1, <1>2, <1>4, <1>7, <2>1 DEF WordsOf
<1> DEFINE new == [msg |-> fw.msg, idx |-> fw.words]
<1>9. new \in Words /\ new.msg = fw.msg /\ new.idx = fw.words
  BY <1>7 DEF Words
<1>10. \A w \in Words : w = new <=> w.msg = fw.msg /\ w.idx = fw.words
  BY DEF Words
<1> HIDE DEF new
<1>11. Stream' = Append(Stream, new)
  <2>1. CASE ByteThere
    <3>1. <<ConvWord>> \in Seq(Words) /\ <<new>> \in Seq(Words)
      BY <1>9, HeldBefore
    <3>2. /\ Append(txq, new) = txq \o <<new>>
          /\ Append(<<ConvWord>> \o txq, new) = (<<ConvWord>> \o txq) \o <<new>>
      BY <1>9, <2>1, HeldBefore, AppendIsConcat DEF Stream
    <3>3. (<<ConvWord>> \o txq) \o <<new>> = <<ConvWord>> \o (txq \o <<new>>)
      BY <3>1, HeldBefore, ConcatAssociative
    <3>4. Stream = <<ConvWord>> \o txq /\ Stream' = <<ConvWord>> \o Append(txq, new)
      BY <1>1, <2>1 DEF Stream, ByteThere, ConvWord, new
    <3> QED
      BY <3>2, <3>3, <3>4
  <2>2. CASE ~ByteThere
    BY <1>1, <2>2 DEF Stream, ByteThere, new
  <2> QED
    BY <2>1, <2>2
<1>12. ASSUME NEW w \in Words
       PROVE  (w \in Due(n)' <=> w \in Due(n) \/ w = new) /\ (w \in Due(n) => Before(w, new))
  <2>1. w.msg \in Nat /\ w.idx \in Nat
    BY DEF Words
  <2>2. w \in Due(n) <=> /\ w.msg \in First..fw.msg
                         /\ w.idx < WordsOf(w.msg, n)
                         /\ w.msg = First => Gone(n) \div 4 <= w.idx
    BY HeldBefore DEF DueWritten
  <2>3. w \in Due(n)' <=> /\ w.msg \in First..fw.msg
                          /\ w.idx < WordsOf(w.msg, n)'
                          /\ w.msg = First => Gone(n) \div 4 <= w.idx
    BY <1>2, <1>4, <1>6 DEF DueWritten
  <2>4. CASE w.msg = fw.msg
    <3>1. WordsOf(w.msg, n) = fw.words /\ WordsOf(w.msg, n)' = fw.words + 1
      BY <1>8, <2>1, <2>4
    <3>2. w.msg = First => Gone(n) \div 4 <= w.idx
      BY <1>7, <2>1, <2>4
    <3> QED
      BY <1>7, <1>9, <1>10, <2>1, <2>2, <2>3, <2>4, <3>1, <3>2 DEF Before
  <2>5. CASE w.msg # fw.msg
    <3>1. w.msg \in First..fw.msg => WordsOf(w.msg, n)' = WordsOf(w.msg, n) /\ w.msg < fw.msg
      BY <1>7, <1>8, <2>1, <2>5
    <3> QED
      BY <1>9, <2>2, <2>3, <2>5, <3>1 DEF Before
  <2> QED
    BY <2>4, <2>5
<1>13. Due(n)' = Due(n) \cup {new}
  BY <1>6, <1>9, <1>12, HeldBefore DEF DueWritten
<1>14. Lists(Append(Stream, new), Due(n) \cup {new})
  <2>1. \A v \in Due(n) : Before(v, new)
    BY <1>12, HeldBefore
  <2> QED
    BY <1>9, <2>1, HeldBefore, ListsAppend
<1> QED
  BY <1>5, <1>11, <1>13, <1>14 DEF TxRight, WordsHeld

\* Firmware queues the descriptor of the message it has queued whole.
LEMMA HeldAtDescriptor ==
    ASSUME NEW n \in Lengths, ReadPre(n), TypeOK', FwDescriptor
    PROVE  TxRight(n)'
<1>1. /\ ~fw.desc /\ fw.words = DataWords(fw.len)
      /\ descq' = Append(descq, [msg |-> fw.msg, len |-> fw.len])
      /\ fw' = [fw EXCEPT !.desc = TRUE]
      /\ UNCHANGED <<txq, conv, desc, descValid, pending, count, flush>>
  BY DEF FwDescriptor, handlerVars, ReadPre, Disciplined
<1>2. /\ fw'.msg = fw.msg /\ fw'.desc /\ fw'.len = fw.len /\ fw'.words = fw.words
      /\ fw.len \in Lengths
  <2>1. fw \in [msg : 1..Messages, len : Lengths, words : Nat, desc : BOOLEAN]
    BY TypeParts DEF ReadPre, TypeOK, FwTypeOK
  <2> QED
    BY <1>1, <2>1
<1>3. /\ Len(descq) \in Nat /\ Len(descq') = Len(descq) + 1
      /\ DOMAIN descq' = 1..(Len(descq) + 1) /\ DOMAIN descq = 1..Len(descq)
      /\ \A i \in 1..Len(descq) : descq'[i] = descq[i]
      /\ descq'[Len(descq) + 1] = [msg |-> fw.msg, len |-> fw.len]
  <2>1. descq \in Seq(Queued)
    BY TypeParts DEF ReadPre, TypeOK, DescsTypeOK
  <2> QED
    BY <1>1, <2>1
<1>4. /\ fw.msg = Described + 1 /\ Described \in Nat /\ NextMsg \in Nat \ {0}
      /\ NextMsg + Len(descq) = Described + 1
      /\ First \in Nat /\ fw.words \in Nat
  BY <1>1, HeldBefore DEF Shaped
<1>5. Described' = Described + 1 /\ NextMsg' = NextMsg
  <2>1. Described' = fw.msg
    BY <1>2 DEF Described
  <2>2. NextMsg' = Described' - Len(descq') + 1
    BY DEF NextMsg
  <2>3. Len(descq') = Len(descq) + 1 /\ Described' = Described + 1
    BY <1>3, <1>4, <2>1
  <2> QED
    BY <1>3, <1>4, <2>2, <2>3
<1>6. InHand' = InHand /\ First' = First /\ Gone(n)' = Gone(n)
  BY <1>1, <1>5 DEF InHand, First, Gone
<1>7. DescriptorsInOrder'
  <2>1. ASSUME NEW i \in DOMAIN descq' PROVE descq'[i].msg = NextMsg + i - 1
    <3>1. CASE i \in 1..Len(descq)
      BY <1>3, <3>1 DEF ReadPre, TxRight, DescriptorsInOrder
    <3>2. CASE i = Len(descq) + 1
      <4>1. descq'[i].msg = fw.msg /\ fw.msg = NextMsg + i - 1
        BY <1>3, <1>4, <3>2
      <4> QED
        BY <4>1
    <3> QED
      BY <1>3, <2>1, <3>1, <3>2
  <2> QED
    BY <1>4, <1>5, <2>1 DEF DescriptorsInOrder
<1>8. SaidWhole' /\ HandRight(n)' /\ ConverterInStep(n)' /\ Stream' = Stream
  BY <1>1, <1>2, <1>5, <1>6
     DEF ReadPre, TxRight, SaidWhole, HandRight, ConverterInStep, ByteThere, Stream, ConvWord
<1>9. Shaped(n)' /\ DueWritten(n)'
  BY <1>7, <1>8, ShapeAfter
<1>10. ASSUME NEW m \in First..fw.msg PROVE WordsOf(m, n)' = WordsOf(m, n)
  <2>1. m \in Nat
    BY <1>4
  <2>2. CASE m = fw.msg
    <3>1. WordsOf(m, n) = fw.words
      BY <1>4, <2>2 DEF WordsOf
    <3>2. m - NextMsg + 1 = Len(descq) + 1 /\ ~(m > Described + 1) /\ ~(m < NextMsg)
      BY <1>3, <1>4, <2>2
    <3>3. WordsOf(m, n)' = DataWords(fw.len)
      BY <1>3, <1>5, <3>2 DEF WordsOf
    <3> QED
      BY <1>1, <3>1, <3>3
  <2>3. CASE m # fw.msg
    <3>1. ~(m > Described) /\ ~(m > Described + 1)
      BY <1>4, <2>1, <2>3
    <3>2. m < NextMsg \/ m - NextMsg + 1 \in 1..Len(descq)
      BY <1>3, <1>4, <2>1, <3>1
    <3> QED
      BY <1>3, <1>5, <3>1, <3>2 DEF WordsOf
  <2> QED
    BY <2>2, <2>3
<1>11. Due(n)' = Due(n)
  BY <1>2, <1>6, <1>9, <1>10, DueSame
<1> QED
  BY <1>7, <1>8, <1>11 DEF ReadPre, TxRight, WordsHeld

\* Firmware turns to the next message.
LEMMA HeldAtNextMessage ==
    ASSUME NEW n \in Lengths, ReadPre(n), TypeOK', FwNextMessage
    PROVE  TxRight(n)'
<1>1. /\ fw.desc /\ UNCHANGED <<txq, conv, descq, desc, descValid, pending, count, flush>>
      /\ fw'.msg = fw.msg + 1 /\ fw'.words = 0 /\ ~fw'.desc
  BY DEF FwNextMessage, NewMessage, handlerVars
<1>2. fw.msg = Described /\ Described \in Nat /\ First \in Nat
  BY <1>1, HeldBefore DEF Shaped
<1>3. /\ Described' = Described /\ NextMsg' = NextMsg
      /\ InHand' = InHand /\ First' = First /\ Gone(n)' = Gone(n)
  <2>1. Described' = Described
    BY <1>1, <1>2 DEF Described
  <2> QED
    BY <1>1, <2>1 DEF NextMsg, InHand, First, Gone
<1>4. /\ DescriptorsInOrder' /\ SaidWhole' /\ HandRight(n)' /\ ConverterInStep(n)'
      /\ Stream' = Stream
  BY <1>1, <1>3
     DEF ReadPre, TxRight, DescriptorsInOrder, SaidWhole, HandRight, ConverterInStep, ByteThere,
         Stream, ConvWord
<1>5. Shaped(n)' /\ DueWritten(n)'
  BY <1>4, ShapeAfter
<1>6. /\ \A m \in First..fw.msg : WordsOf(m, n)' = WordsOf(m, n)
      /\ \A m \in Nat : m = fw'.msg => WordsOf(m, n)' = 0
  BY <1>1, <1>2, <1>3 DEF WordsOf
<1>7. Due(n)' = Due(n)
  BY <1>1, <1>3, <1>5, <1>6, DueSame
<1> QED
  BY <1>4, <1>7 DEF ReadPre, TxRight, WordsHeld

\* A message is started.
LEMMA HeldAtStart ==
    ASSUME NEW n \in Lengths, ReadPre(n), TypeOK', TxStart
    PROVE  TxRight(n)'
<1>1. /\ ~pending /\ descValid /\ ~flush /\ desc = [msg |-> NextMsg - 1, len |-> n]
      /\ pending' = TRUE /\ count' = desc.len
      /\ UNCHANGED <<fw, txq, conv, descq, desc, descValid, flush>>
  BY DEF TxStart, MayStart, ReadPre, TxRight, HandRight
<1>2. count' = n /\ n \in Nat \ {0}
  BY <1>1, HeldBefore
<1>3. Gone(n) = 0 /\ Gone(n)' = 0
  BY <1>1, <1>2 DEF Gone
<1>4. UNCHANGED <<NextMsg, InHand, Stream>>
  BY <1>1 DEF NextMsg, Described, InHand, Stream, ByteThere, ConvWord
<1>5. DescriptorsInOrder' /\ SaidWhole' /\ ConverterInStep(n)'
  BY <1>1, <1>3, <1>4
     DEF ReadPre, TxRight, DescriptorsInOrder, SaidWhole, ConverterInStep, ByteThere
<1>6. HandRight(n)'
  BY <1>1, <1>2, <1>4 DEF ReadPre, TxRight, HandRight
<1>7. WordsHeld(n)'
  BY <1>1, <1>3, <1>4, <1>5, <1>6, HeldSame
<1> QED
  BY <1>5, <1>6, <1>7 DEF TxRight

\* The converter takes the next word out of the queue.
LEMMA HeldAtLoad ==
    ASSUME NEW n \in Lengths, ReadPre(n), TypeOK', LoadWord
    PROVE  TxRight(n)'
<1>1. /\ ~ByteThere /\ txq # <<>>
      /\ conv' = [msg |-> Head(txq).msg, idx |-> Head(txq).idx, left |-> 4]
      /\ txq' = Tail(txq)
      /\ UNCHANGED <<fw, descq, desc, descValid, pending, count, flush>>
  BY DEF LoadWord, MayLoad, handlerVars
<1>2. UNCHANGED <<NextMsg, InHand>> /\ Gone(n)' = Gone(n)
  BY <1>1 DEF NextMsg, Described, InHand, Gone
<1>3. DescriptorsInOrder' /\ SaidWhole' /\ HandRight(n)'
  BY <1>1, <1>2 DEF ReadPre, TxRight, DescriptorsInOrder, SaidWhole, HandRight
<1>4. ByteThere' /\ conv'.left = 4
  BY <1>1 DEF ByteThere
<1>5. ConverterInStep(n)'
  BY <1>1, <1>2, <1>4 DEF ReadPre, TxRight, ConverterInStep
<1>6. Stream' = Stream
  <2>1. ConvWord' = Head(txq)
    <3>1. Head(txq) \in Words
      BY <1>1, HeldBefore
    <3> QED
      BY <1>1, <3>1 DEF ConvWord, Words
  <2>2. <<Head(txq)>> \o Tail(txq) = txq
    BY <1>1, HeldBefore
  <2>3. Stream' = <<ConvWord'>> \o txq'
    BY <1>4 DEF Stream
  <2>4. Stream = txq
    BY <1>1 DEF Stream
  <2> QED
    BY <1>1, <2>1, <2>2, <2>3, <2>4
<1>7. WordsHeld(n)'
  BY <1>1, <1>2, <1>3, <1>6, HeldSame
<1> QED
  BY <1>3, <1>5, <1>7 DEF TxRight

\* Where a byte is given or flushed, one of its word is gone.
UnderWay == pending \/ flush

LEMMA WordsSame ==
    ASSUME NEW n, UNCHANGED <<fw, descq>>
    PROVE  /\ UNCHANGED <<Described, NextMsg>>
           /\ \A m : WordsOf(m, n)' = WordsOf(m, n)
  BY DEF Described, NextMsg, WordsOf

\* A byte goes, not the last one of its message.
LEMMA HeldAtByte ==
    ASSUME NEW n \in Lengths, ReadPre(n), TypeOK',
           UnderWay, count # 1, ByteThere, TakeByte, count' = Minus1(count),
           UNCHANGED <<fw, txq, descq, desc, descValid, pending, flush>>
    PROVE  TxRight(n)'
<1>1. count \in 2..n /\ count' = count - 1 /\ n \in Nat /\ InHand
  <2>1. count \in 1..n /\ n \in Nat /\ InHand
    BY HeldBefore DEF ReadPre, TxRight, HandRight, UnderWay, InHand
  <2>2. count \in ByteCounts
    BY TypeParts DEF ReadPre, TypeOK, FlagsTypeOK
  <2>3. count' = count - 1
    BY <2>1, <2>2, SMT DEF Minus1, ByteCounts
  <2> QED
    BY <2>1, <2>3
<1>2. /\ UNCHANGED <<Described, NextMsg, InHand, First>>
      /\ \A m : WordsOf(m, n)' = WordsOf(m, n)
  BY WordsSame DEF InHand, First
<1>3. Gone(n) = n - count /\ Gone(n)' = Gone(n) + 1 /\ Gone(n) \in Nat
  BY <1>1 DEF Gone, UnderWay
<1>4. conv.left = 4 - (Gone(n) % 4) /\ conv.left \in 1..4
  BY HeldBefore DEF ReadPre, TxRight, ConverterInStep, ByteThere
<1>5. DescriptorsInOrder' /\ SaidWhole' /\ HandRight(n)'
  BY <1>1, <1>2 DEF ReadPre, TxRight, DescriptorsInOrder, SaidWhole, HandRight
<1>6. Shaped(n)' /\ DueWritten(n)'
  BY <1>5, ShapeAfter
<1>7. CASE conv.left # 1
  <2>1. conv' = [conv EXCEPT !.left = conv.left - 1]
    BY <1>7 DEF TakeByte
  <2>2. /\ conv'.left = conv.left - 1 /\ conv'.left \in 1..3
        /\ conv'.msg = conv.msg /\ conv'.idx = conv.idx
    <3>1. conv \in [msg : 0..Messages, idx : Nat, left : 0..4]
      BY TypeParts DEF ReadPre, TypeOK, QueuesTypeOK
    <3> QED
      BY <1>4, <1>7, <2>1, <3>1
  <2>3. Gone(n)' % 4 = (Gone(n) % 4) + 1 /\ Gone(n)' \div 4 = Gone(n) \div 4
    BY <1>3, <1>4, <1>7
  <2>4. ByteThere' /\ ConverterInStep(n)'
    BY <1>3, <1>4, <2>2, <2>3 DEF ConverterInStep, ByteThere
  <2>5. Stream' = Stream
    BY <2>2, <2>4 DEF Stream, ConvWord
  <2>6. fw'.msg = fw.msg /\ fw.msg \in Nat /\ First \in Nat
    BY HeldBefore DEF Shaped
  <2>7. Due(n)' = Due(n)
    BY <1>2, <1>6, <2>3, <2>6, DueSame
  <2> QED
    BY <1>5, <2>4, <2>5, <2>7 DEF ReadPre, TxRight, WordsHeld
<1>8. CASE conv.left = 1
  <2>1. conv' = Empty
    BY <1>8 DEF TakeByte
  <2>2. Gone(n) % 4 = 3 /\ Gone(n)' % 4 = 0 /\ Gone(n)' \div 4 = Gone(n) \div 4 + 1
    BY <1>3, <1>4, <1>8
  <2>3. ~ByteThere' /\ ConverterInStep(n)'
    BY <2>1, <2>2 DEF ConverterInStep, ByteThere, Empty
  <2>4. Stream' = Tail(Stream)
    BY <2>3, HeldBefore DEF Stream
  <2> DEFINE h == [msg |-> First, idx |-> Gone(n) \div 4]
  <2>5. h \in Words /\ \A w \in Words : w = h <=> w.msg = First /\ w.idx = Gone(n) \div 4
    <3>1. First \in Nat
      BY HeldBefore DEF Shaped
    <3>2. Gone(n) \div 4 \in Nat
      BY <1>3
    <3> QED
      BY <3>1, <3>2 DEF Words
  <2>6. Stream # <<>> /\ Head(Stream) = h
    BY <1>1, HeadDue
  <2> HIDE DEF h
  <2>7. ASSUME NEW w \in Words PROVE w \in Due(n)' <=> w \in Due(n) /\ w # h
    <3>1. w \in Due(n) <=> /\ w.msg \in First..fw.msg
                           /\ w.idx < WordsOf(w.msg, n)
                           /\ w.msg = First => Gone(n) \div 4 <= w.idx
      BY HeldBefore DEF DueWritten
    <3>2. w \in Due(n)' <=> /\ w.msg \in First..fw.msg
                            /\ w.idx < WordsOf(w.msg, n)
                            /\ w.msg = First => Gone(n) \div 4 + 1 <= w.idx
      BY <1>2, <1>6, <2>2 DEF DueWritten
    <3>3. w.idx \in Nat /\ Gone(n) \div 4 \in Nat
      BY <1>3 DEF Words
    <3>4. Gone(n) \div 4 + 1 <= w.idx <=> Gone(n) \div 4 <= w.idx /\ w.idx # Gone(n) \div 4
      BY <3>3
    <3> QED
      BY <2>5, <3>1, <3>2, <3>4
  <2>8. Due(n)' = Due(n) \ {h}
    BY <1>6, <2>7, HeldBefore DEF DueWritten
  <2>9. Lists(Tail(Stream), Due(n) \ {h})
    BY <2>6, HeldBefore, ListsTail
  <2> QED
    BY <1>5, <2>3, <2>4, <2>8, <2>9 DEF TxRight, WordsHeld
<1> QED
  BY <1>7, <1>8

\* The last byte of a message goes, and with it the rest of its word.
LEMMA HeldAtLast ==
    ASSUME NEW n \in Lengths, ReadPre(n), TypeOK',
           UnderWay, count = 1, Stream' = Tail(Stream), ~ByteThere',
           ~descValid', ~pending', ~flush', UNCHANGED <<fw, descq>>
    PROVE  TxRight(n)'
<1>1. InHand /\ n \in Nat \ {0}
  BY HeldBefore DEF ReadPre, TxRight, HandRight, UnderWay, InHand
<1>2. /\ UNCHANGED <<Described, NextMsg>> /\ ~InHand' /\ First' = First + 1
      /\ \A m : WordsOf(m, n)' = WordsOf(m, n)
  BY <1>1, WordsSame, HeldBefore DEF InHand, First, Shaped
<1>3. Gone(n) = n - 1 /\ Gone(n)' = 0
  BY <1>1 DEF Gone, UnderWay
<1>4. DescriptorsInOrder' /\ SaidWhole' /\ HandRight(n)' /\ ConverterInStep(n)'
  BY <1>2, <1>3 DEF ReadPre, TxRight, DescriptorsInOrder, SaidWhole, HandRight, ConverterInStep
<1>5. Shaped(n)' /\ DueWritten(n)'
  BY <1>4, ShapeAfter
<1>6. First \in Nat /\ fw.msg \in Nat
  BY HeldBefore DEF Shaped
<1>7. Gone(n) \div 4 \in Nat /\ DataWords(n) = Gone(n) \div 4 + 1
  BY <1>1, <1>3, SMT DEF DataWords
<1> DEFINE h == [msg |-> First, idx |-> Gone(n) \div 4]
<1>8. h \in Words /\ \A w \in Words : w = h <=> w.msg = First /\ w.idx = Gone(n) \div 4
  BY <1>6, <1>7 DEF Words
<1>9. /\ Stream # <<>> /\ Head(Stream) = h
      /\ \A m \in Nat : m = First => WordsOf(m, n) = DataWords(n)
  BY <1>1, HeadDue
<1> HIDE DEF h
<1>10. ASSUME NEW w \in Words PROVE w \in Due(n)' <=> w \in Due(n) /\ w # h
  <2>1. w.msg \in Nat /\ w.idx \in Nat
    BY DEF Words
  <2>2. w \in Due(n) <=> /\ w.msg \in First..fw.msg
                         /\ w.idx < WordsOf(w.msg, n)
                         /\ w.msg = First => Gone(n) \div 4 <= w.idx
    BY HeldBefore DEF DueWritten
  <2>3. w \in Due(n)' <=> /\ w.msg \in (First + 1)..fw.msg
                          /\ w.idx < WordsOf(w.msg, n)
                          /\ w.msg = First + 1 => 0 <= w.idx
    <3>1. 0 \div 4 = 0
      OBVIOUS
    <3> QED
      BY <1>2, <1>3, <1>5, <3>1 DEF DueWritten
  <2>4. CASE w.msg = First
    <3>1. WordsOf(w.msg, n) = Gone(n) \div 4 + 1
      BY <1>6, <1>7, <1>9, <2>4
    <3>2. w \in Due(n) => w.idx = Gone(n) \div 4
      BY <1>7, <2>1, <2>2, <2>4, <3>1
    <3>3. w \notin Due(n)'
      BY <1>6, <2>3, <2>4
    <3> QED
      BY <1>8, <2>4, <3>2, <3>3
  <2>5. CASE w.msg # First
    <3>1. w.msg \in First..fw.msg <=> w.msg \in (First + 1)..fw.msg
      BY <1>6, <2>1, <2>5
    <3> QED
      BY <1>8, <2>1, <2>2, <2>3, <2>5, <3>1
  <2> QED
    BY <2>4, <2>5
<1>11. Due(n)' = Due(n) \ {h}
  BY <1>5, <1>10, HeldBefore DEF DueWritten
<1>12. Lists(Tail(Stream), Due(n) \ {h})
  BY <1>9, HeldBefore, ListsTail
<1> QED
  BY <1>4, <1>11, <1>12 DEF TxRight, WordsHeld

\* The last byte of the message goes when the converter is flushed, too.
LEMMA FlushDropsHead ==
    ASSUME NEW n \in Lengths, ReadPre(n), InHand, FlushConverter
    PROVE  Stream' = Tail(Stream) /\ ~ByteThere'
<1>1. conv' = Empty /\ ~ByteThere'
  BY DEF FlushConverter, Empty, ByteThere
<1>2. Stream' = txq'
  BY <1>1 DEF Stream
<1>3. CASE ByteThere
  BY <1>1, <1>2, <1>3, HeldBefore DEF FlushConverter
<1>4. CASE ~ByteThere
  <2>1. txq # <<>>
    BY <1>4, HeadDue DEF Stream
  <2> QED
    BY <1>1, <1>2, <1>4, <2>1 DEF FlushConverter, Stream
<1> QED
  BY <1>1, <1>3, <1>4

\* The handler's own steps.
LEMMA HandlerKeeps ==
    ASSUME NEW n \in Lengths, ReadPre(n), TypeOK', HandlerStep
    PROVE  TxRight(n)'
<1>1. CASE FlushByte
  <2>1. flush /\ count \in 1..n /\ n \in Nat
    BY <1>1, HeldBefore DEF FlushByte, ReadPre, TxRight, HandRight
  <2>2. flush' = flush
    <3>1. flush \in BOOLEAN
      BY TypeParts DEF ReadPre, TypeOK, FlagsTypeOK
    <3>2. count # 0
      BY <2>1
    <3> QED
      BY <1>1, <2>1, <3>1, <3>2 DEF FlushByte
  <2> QED
    BY <1>1, <2>1, <2>2, HeldAtByte DEF FlushByte, UnderWay
<1>2. CASE FlushEnd
  <2>1. flush /\ count = 1 /\ InHand
    BY <1>2 DEF FlushEnd, FlushLast, InHand
  <2>2. Stream' = Tail(Stream) /\ ~ByteThere'
    BY <1>2, <2>1, FlushDropsHead DEF FlushEnd
  <2> QED
    BY <1>2, <2>1, <2>2, HeldAtLast DEF FlushEnd, UnderWay
<1>3. CASE FlushDry
  <2>1. InHand /\ Stream = <<>>
    BY <1>3 DEF FlushDry, InHand, Stream
  <2> QED
    BY <2>1, HeadDue
<1> QED
  BY <1>1, <1>2, <1>3, HeldAtStart, HeldAtLoad DEF HandlerStep

\* The FSM has sent a byte that was there.
LEMMA TakenKeeps ==
    ASSUME NEW n \in Lengths, ReadPre(n), TypeOK', ByteTaken, ByteValid
    PROVE  TxRight(n)'
<1>1. /\ pending /\ ByteThere /\ descValid /\ ~flush /\ InHand /\ UnderWay
      /\ desc.len = n /\ n \in Nat \ {0}
  BY HeldBefore DEF ByteValid, ReadPre, TxRight, HandRight, InHand, UnderWay
<1>2. CASE count # 1
  BY <1>1, <1>2, HeldAtByte DEF ByteTaken, ByteLast
<1>3. CASE count = 1
  <2>1. /\ ~descValid' /\ ~pending' /\ ~flush' /\ UNCHANGED <<fw, descq>>
        /\ IF n % 4 # 0 THEN FlushConverter ELSE TakeByte /\ UNCHANGED txq
    BY <1>1, <1>3 DEF ByteTaken, ByteLast
  <2>2. Stream' = Tail(Stream) /\ ~ByteThere'
    <3>1. CASE n % 4 # 0
      BY <1>1, <2>1, <3>1, FlushDropsHead
    <3>2. CASE n % 4 = 0
      <4>1. conv.left = 1
        <5>1. conv.left = 4 - ((n - 1) % 4)
          BY <1>1, <1>3 DEF ReadPre, TxRight, ConverterInStep, Gone
        <5>2. (n - 1) % 4 = 3
          BY <1>1, <3>2
        <5> QED
          BY <5>1, <5>2
      <4>2. conv' = Empty /\ txq' = txq
        BY <2>1, <3>2, <4>1 DEF TakeByte
      <4>3. ~ByteThere'
        BY <4>2 DEF ByteThere, Empty
      <4> QED
        BY <1>1, <4>2, <4>3, HeldBefore DEF Stream
    <3> QED
      BY <3>1, <3>2
  <2> QED
    BY <1>1, <1>3, <2>1, <2>2, HeldAtLast
<1> QED
  BY <1>2, <1>3

\* The controller stops a read: the rest of the message is to be flushed.
LEMMA AbortKeeps ==
    ASSUME NEW n \in Lengths, ReadPre(n), TypeOK', Aborted, pending
    PROVE  TxRight(n)'
<1>1. /\ descValid /\ ~flush /\ count \in 1..n /\ n \in Nat
      /\ ~descValid' /\ ~pending' /\ flush' = (flush \/ count # 0)
      /\ UNCHANGED <<fw, txq, conv, descq, count>>
  BY HeldBefore DEF ReadPre, TxRight, HandRight, Aborted
<1>2. flush'
  <2>1. count # 0
    BY <1>1
  <2> QED
    BY <1>1, <2>1
<1>3. InHand' = InHand
  <2>1. InHand /\ InHand' /\ InHand \in BOOLEAN /\ InHand' \in BOOLEAN
    BY <1>1, <1>2 DEF InHand
  <2> QED
    BY <2>1
<1>4. UNCHANGED NextMsg /\ Gone(n)' = Gone(n) /\ Stream' = Stream
  BY <1>1, <1>2 DEF NextMsg, Described, Gone, Stream, ByteThere, ConvWord
<1>5. DescriptorsInOrder' /\ SaidWhole' /\ HandRight(n)' /\ ConverterInStep(n)'
  BY <1>1, <1>2, <1>4
     DEF ReadPre, TxRight, DescriptorsInOrder, SaidWhole, HandRight, ConverterInStep, ByteThere
<1>6. WordsHeld(n)'
  BY <1>1, <1>3, <1>4, <1>5, HeldSame
<1> QED
  BY <1>5, <1>6 DEF TxRight

\* A read address has been matched: the next descriptor, if there is one, is
\* taken in hand.
LEMMA ReadStartsKeeps ==
    ASSUME NEW n \in Lengths, ReadPre(n), TypeOK', ReadStarts, ~descValid, ~flush
    PROVE  \E q \in Lengths : TxRight(q)'
<1>1. CASE descq = <<>>
  <2>1. UNCHANGED txVars
    BY <1>1 DEF ReadStarts, txVars, handlerVars
  <2> QED
    BY <2>1, HeldStill
<1>2. CASE descq # <<>>
  <2>1. /\ desc' = Head(descq) /\ descValid' = TRUE /\ descq' = Tail(descq)
        /\ UNCHANGED <<fw, txq, conv, pending, count, flush>>
        /\ ~pending /\ ~flush
    BY <1>2 DEF ReadStarts, ReadPre, TxRight, HandRight
  <2>2. /\ Len(descq) \in Nat \ {0} /\ Len(descq') = Len(descq) - 1
        /\ DOMAIN descq = 1..Len(descq) /\ DOMAIN descq' = 1..(Len(descq) - 1)
        /\ \A i \in 1..(Len(descq) - 1) : descq'[i] = descq[i + 1]
        /\ Head(descq) = descq[1] /\ Head(descq) \in Queued
    <3>1. descq \in Seq(Queued)
      BY TypeParts DEF ReadPre, TypeOK, DescsTypeOK
    <3> QED
      BY <1>2, <2>1, <3>1
  <2>a. PICK q \in Lengths : q = Head(descq).len
    BY <2>2 DEF Queued
  <2>3. /\ Described' = Described /\ Described \in Nat
        /\ NextMsg' = NextMsg + 1 /\ NextMsg \in Nat \ {0}
        /\ NextMsg + Len(descq) = Described + 1
    <3>1. /\ Described \in Nat /\ NextMsg \in Nat \ {0}
          /\ NextMsg + Len(descq) = Described + 1
      BY HeldBefore DEF Shaped
    <3>2. Described' = Described
      BY <2>1 DEF Described
    <3>3. NextMsg' = Described' - Len(descq') + 1 /\ NextMsg = Described - Len(descq) + 1
      BY DEF NextMsg
    <3> QED
      BY <2>2, <3>1, <3>2, <3>3
  <2>4. \A i \in 1..Len(descq) : descq[i].msg = NextMsg + i - 1
    BY <2>2 DEF ReadPre, TxRight, DescriptorsInOrder
  <2>5. Head(descq) = [msg |-> NextMsg, len |-> q]
    <3>1. Head(descq).msg = NextMsg
      <4>1. 1 \in 1..Len(descq) /\ NextMsg + 1 - 1 = NextMsg
        BY <2>2, <2>3
      <4>2. descq[1].msg = NextMsg + 1 - 1
        BY <2>4, <4>1
      <4> QED
        BY <2>2, <4>1, <4>2
    <3> QED
      BY <2>2, <2>a, <3>1 DEF Queued
  <2>6. First = NextMsg /\ First' = NextMsg
    BY <2>1, <2>3 DEF First, InHand
  <2>7. Gone(n) = 0 /\ Gone(q)' = 0
    BY <2>1 DEF Gone
  <2>8. DescriptorsInOrder'
    <3>1. ASSUME NEW i \in DOMAIN descq' PROVE descq'[i].msg = NextMsg' + i - 1
      <4>1. i + 1 \in 1..Len(descq) /\ descq'[i] = descq[i + 1] /\ i \in Nat
        BY <2>2
      <4>2. descq[i + 1].msg = NextMsg + (i + 1) - 1
        BY <2>4, <4>1
      <4> QED
        BY <2>3, <4>1, <4>2
    <3> QED
      BY <2>3, <3>1 DEF DescriptorsInOrder
  <2>9. SaidWhole' /\ HandRight(q)' /\ ConverterInStep(q)' /\ Stream' = Stream
    <3>1. NextMsg' - 1 = NextMsg
      BY <2>3
    <3>2. HandRight(q)'
      BY <2>1, <2>5, <3>1 DEF HandRight
    <3> QED
      BY <2>1, <2>7, <3>2
         DEF ReadPre, TxRight, SaidWhole, ConverterInStep, ByteThere, Stream, ConvWord
  <2>10. Shaped(q)' /\ DueWritten(q)'
    BY <2>5, <2>8, <2>9, ShapeAfter
  <2>11. ASSUME NEW m \in First..fw.msg PROVE WordsOf(m, q)' = WordsOf(m, n)
    <3>0. m \in Nat /\ m >= NextMsg
      BY <2>3, <2>6
    <3>1. CASE m > Described
      BY <2>1, <2>3, <3>1 DEF WordsOf
    <3>2. CASE m <= Described /\ m = NextMsg
      <4>1. WordsOf(m, n) = DataWords(descq[1].len)
        <5>1. ~(m > Described) /\ ~(m < NextMsg) /\ m - NextMsg + 1 = 1
          BY <2>3, <3>2
        <5> QED
          BY <5>1 DEF WordsOf
      <4>2. WordsOf(m, q)' = DataWords(q)
        <5>1. ~(m > Described) /\ m < NextMsg + 1
          BY <2>3, <3>2
        <5> QED
          BY <2>3, <5>1 DEF WordsOf
      <4> QED
        BY <2>2, <2>a, <4>1, <4>2
    <3>3. CASE m <= Described /\ m # NextMsg
      <4>1. /\ ~(m > Described) /\ ~(m < NextMsg) /\ ~(m < NextMsg + 1)
            /\ m - NextMsg \in 1..(Len(descq) - 1)
            /\ m - (NextMsg + 1) + 1 = m - NextMsg
        BY <2>2, <2>3, <3>0, <3>3
      <4>2. descq'[m - NextMsg] = descq[m - NextMsg + 1]
        BY <2>2, <4>1
      <4>3. WordsOf(m, q)' = DataWords(descq'[m - (NextMsg + 1) + 1].len)
        BY <2>3, <4>1 DEF WordsOf
      <4> QED
        BY <4>1, <4>2, <4>3 DEF WordsOf
    <3> QED
      BY <2>3, <3>0, <3>1, <3>2, <3>3
  <2>12. Due(q)' = Due(n)
    <3>1. First' = First /\ Gone(q)' = Gone(n) /\ fw'.msg = fw.msg /\ fw.msg \in Nat
      BY <2>1, <2>6, <2>7, HeldBefore DEF Shaped
    <3> QED
      BY <2>5, <2>10, <2>11, <3>1, DueSame
  <2>13. TxRight(q)'
    BY <2>8, <2>9, <2>12 DEF ReadPre, TxRight, WordsHeld
  <2> QED
    BY <2>5, <2>13
<1> QED
  BY <1>1, <1>2

-----------------------------------------------------------------------------
(* The FSM and the message in hand. *)

\* A described message that is not begun is queued whole, which is enough to
\* start it: the word that may be missing in the queue is in the converter.
LEMMA EnoughQueued ==
    ASSUME NEW n \in Lengths, ReadPre(n), ~pending, ~flush,
           NEW m \in Nat, m = First, m <= Described, NEW len \in Lengths,
           WordsOf(m, n) = DataWords(len)
    PROVE  Enough(len)
<1>1. Gone(n) = 0
  BY DEF Gone
<1>2. m <= fw.msg /\ fw.msg \in Nat
  <2>1. /\ Described \in Nat /\ fw.msg \in Nat
        /\ fw.msg = Described \/ fw.msg = Described + 1
    BY HeldBefore DEF Shaped
  <2> QED
    BY <2>1
<1>3. ASSUME NEW i \in 0..(DataWords(len) - 1) PROVE [msg |-> m, idx |-> i] \in Due(n)
  <2> DEFINE w == [msg |-> m, idx |-> i]
  <2>1. w \in Words /\ w.msg = m /\ w.idx = i
    BY DEF Words
  <2> HIDE DEF w
  <2>2. i \in Nat /\ i < DataWords(len) /\ 0 \div 4 <= i
    BY NumbersTyped
  <2>3. w.msg \in First..fw.msg /\ w.idx < WordsOf(w.msg, n) /\ Gone(n) \div 4 <= w.idx
    BY <1>1, <1>2, <2>1, <2>2
  <2>4. w \in Due(n)
    BY <2>1, <2>3, HeldBefore DEF DueWritten
  <2> QED
    BY <2>4 DEF w
<1>4. DataWords(len) <= Len(Stream)
  <2>1. DataWords(len) \in Nat
    BY NumbersTyped
  <2> QED
    BY <1>3, <2>1, HeldBefore, ListsLength
<1>5. Len(Stream) <= Len(txq) + 1 /\ Len(Stream) \in Nat /\ Len(txq) \in Nat
  <2>1. Len(<<ConvWord>> \o txq) = 1 + Len(txq) /\ Len(txq) \in Nat
    BY HeldBefore
  <2> QED
    BY <2>1, HeldBefore DEF Stream
<1>6. len \div 4 <= DataWords(len) /\ len \div 4 \in Nat /\ DataWords(len) \in Nat
  <2>1. len \in Nat
    BY NumbersTyped
  <2> QED
    BY <2>1, SMT DEF DataWords
<1> QED
  BY <1>4, <1>5, <1>6 DEF Enough

\* Between two steps of the bus the handler has started a message in hand and
\* put its next byte on offer.
LEMMA SettledOffers ==
    ASSUME NEW n \in Lengths, ReadPre(n), descValid, Settled
    PROVE  pending /\ ByteThere
<1>1. InHand /\ ~flush /\ desc.len = n
  BY DEF InHand, ReadPre, TxRight, HandRight
<1>2. ByteThere
  <2>1. SUFFICES ASSUME ~ByteThere PROVE FALSE
    OBVIOUS
  <2>2. txq # <<>>
    BY <1>1, <2>1, HeadDue DEF Stream
  <2> QED
    BY <1>1, <2>1, <2>2 DEF Settled, MayLoad, FlushLast
<1>3. pending
  <2>1. SUFFICES ASSUME ~pending PROVE FALSE
    OBVIOUS
  <2>2. First \in Nat /\ First <= Described
    <3>1. /\ Len(descq) \in Nat /\ Described \in Nat /\ NextMsg \in Nat /\ First \in Nat
          /\ NextMsg + Len(descq) = Described + 1
          /\ NextMsg = First + 1
      BY <1>1, HeldBefore DEF Shaped
    <3> QED
      BY <3>1
  <2>3. \A m \in Nat : m = First => WordsOf(m, n) = DataWords(n)
    BY <1>1, HeadDue
  <2>4. Enough(n)
    BY <1>1, <2>1, <2>2, <2>3, EnoughQueued
  <2> QED
    BY <1>1, <2>1, <2>4 DEF Settled, MayStart
<1> QED
  BY <1>2, <1>3

\* The data of the next message is there when its descriptor is.
LEMMA NextIsEnough ==
    ASSUME NEW n \in Lengths, ReadPre(n), ~descValid, ~flush, descq # <<>>
    PROVE  Avail
<1>1. ~pending /\ First = NextMsg
  BY DEF ReadPre, TxRight, HandRight, First, InHand
<1>2. /\ Len(descq) \in Nat \ {0} /\ Head(descq) = descq[1] /\ descq[1] \in Queued
  <2>1. descq \in Seq(Queued)
    BY TypeParts DEF ReadPre, TypeOK, DescsTypeOK
  <2> QED
    BY <2>1
<1>3. PICK len \in Lengths : len = Head(descq).len
  BY <1>2 DEF Queued
<1>4. First \in Nat /\ Described \in Nat /\ First <= Described
  <2>1. /\ Described \in Nat /\ NextMsg \in Nat /\ First \in Nat
        /\ NextMsg + Len(descq) = Described + 1
    BY HeldBefore DEF Shaped
  <2> QED
    BY <1>1, <1>2, <2>1
<1>5. \A m \in Nat : m = First => WordsOf(m, n) = DataWords(len)
  <2>1. ASSUME NEW m \in Nat, m = First PROVE WordsOf(m, n) = DataWords(len)
    <3>1. ~(m > Described) /\ ~(m < NextMsg) /\ m - NextMsg + 1 = 1
      BY <1>1, <1>4, <2>1
    <3> QED
      BY <1>2, <1>3, <3>1 DEF WordsOf
  <2> QED
    BY <2>1
<1>6. Enough(len)
  BY <1>1, <1>4, <1>5, EnoughQueued
<1> QED
  BY <1>3, <1>6 DEF Avail

\* The state of the machine and of the handler while no read is under way.
Aside == fsm \notin {"TxAckFByte", "TxAckSByte", "TxPReadData", "TxPReadTbitCont", "TxPReadTbitSel"}

Quiet == Aside /\ ~descValid /\ ~prUnderrun /\ prWait = 0

LEMMA QuietInStep == Quiet => ReadInStep
  BY DEF Quiet, Aside, ReadInStep, Acks, Shifts, Chooses

LEMMA QuietAfter == Quiet' => ReadInStep'
  BY QuietInStep, PTL

LEMMA AsideQuiet == ASSUME Aside, ReadInStep PROVE Quiet
  BY DEF Quiet, Aside, ReadInStep, Acks, Shifts, Chooses

-----------------------------------------------------------------------------
(* Every step. *)

\* Firmware and the handler leave the machine alone.
LEMMA FirmwareKeeps ==
    ASSUME NEW n \in Lengths, ReadPre(n), ReadInStep, TypeOK', Firmware
    PROVE  TxRight(n)' /\ ReadInStep'
<1>1. TxRight(n)'
  BY HeldAtData, HeldAtDescriptor, HeldAtNextMessage DEF Firmware
<1>2. UNCHANGED <<fsm, header, prLast, prUnderrun, prWait, descValid, pending, conv>>
  BY DEF Firmware, FwData, FwDescriptor, FwNextMessage, handlerVars, fsmVars, selVars, readVars
<1>3. ReadInStep'
  BY <1>2 DEF ReadInStep, Acks, Shifts, Chooses, ByteThere
<1> QED
  BY <1>1, <1>3

LEMMA HandlerInStep ==
    ASSUME NEW n \in Lengths, ReadPre(n), ReadInStep, TypeOK', Handler
    PROVE  TxRight(n)' /\ ReadInStep'
<1>1. TxRight(n)'
  BY HandlerKeeps DEF Handler
<1>2. UNCHANGED <<fsm, header, prLast, prUnderrun, prWait>>
  BY DEF Handler, fsmVars, selVars, readVars
<1>3. CASE flush
  <2>1. ~descValid /\ ~pending
    BY <1>3 DEF ReadPre, TxRight, HandRight
  <2>2. ~descValid'
    BY <1>3, <2>1
       DEF Handler, HandlerStep, TxStart, MayStart, LoadWord, FlushByte, FlushEnd, FlushDry,
           handlerVars
  <2> QED
    BY <1>1, <1>2, <2>1, <2>2 DEF ReadInStep, Acks, Shifts, Chooses
<1>4. CASE ~flush
  <2>1. /\ descValid' = descValid /\ (pending => pending') /\ (ByteThere => ByteThere')
    BY <1>4
       DEF Handler, HandlerStep, TxStart, LoadWord, MayLoad, FlushByte, FlushEnd, FlushLast,
           FlushDry, handlerVars, ByteThere
  <2>2. ReadInStep'
    BY <1>2, <2>1 DEF ReadInStep, Acks, Shifts, Chooses
  <2> QED
    BY <1>1, <2>2
<1> QED
  BY <1>3, <1>4

\* A START, a STOP or an address byte finds and leaves no read under way, or
\* nothing changes that matters.
LEMMA ControllerKeeps ==
    ASSUME NEW n \in Lengths, ReadPre(n), ReadInStep, TypeOK', Controller
    PROVE  TxRight(n)' /\ ReadInStep'
<1>1. UNCHANGED txVars
  BY DEF Controller, EndFrame
<1>2. TxRight(n)'
  BY <1>1, HeldStill
<1>3. UNCHANGED <<descValid, pending, conv>>
  BY <1>1 DEF txVars, handlerVars
<1>4. UNCHANGED <<prLast, prUnderrun, prWait>>
  BY DEF Controller, EndFrame, Stop, Start, RepeatedStart, BusAvailable, FByteReceived,
         SByteReceived, Receive, readVars
<1>5. UNCHANGED <<fsm, header>> \/ (Aside /\ Aside')
  <2>1. CASE Stop
    BY <2>1 DEF Stop, To, ControllerHasSda, Aside
  <2>2. CASE RepeatedStart
    BY <2>2 DEF RepeatedStart, RestartTarget, To, ControllerHasSda, Aside
  <2>3. CASE Start(FALSE)
    BY <2>3 DEF Start, To, Aside
  <2>4. CASE BusAvailable
    BY <2>4 DEF BusAvailable, selVars
  <2>5. CASE \E h \in Headers : FByteReceived(h) \/ SByteReceived(h)
    BY <2>5 DEF FByteReceived, SByteReceived, Receive, Aside
  <2> QED
    BY <2>1, <2>2, <2>3, <2>4, <2>5 DEF Controller, EndFrame
<1>6. CASE UNCHANGED <<fsm, header>>
  BY <1>2, <1>3, <1>4, <1>6 DEF ReadInStep, Acks, Shifts, Chooses, ByteThere
<1>7. CASE Aside /\ Aside'
  BY <1>2, <1>3, <1>4, <1>7, AsideQuiet, QuietAfter DEF Quiet
<1> QED
  BY <1>5, <1>6, <1>7

\* An address is judged: a read that is acknowledged has its message in hand.
LEMMA CheckKeeps ==
    ASSUME NEW n \in Lengths, ReadPre(n), ReadInStep, TypeOK', CheckAddress
    PROVE  (\E q \in Lengths : TxRight(q)') /\ ReadInStep'
<1>1. PICK from \in {"CheckFByte", "CheckSByte"}, ack \in {"TxAckFByte", "TxAckSByte"} :
         Check(from, ack, Avail)
  BY DEF CheckAddress, CheckFByte, CheckSByte
<1>2. /\ fsm \in {"CheckFByte", "CheckSByte"} /\ fsm' = Verdict(ack, Avail) /\ header' = header
      /\ UNCHANGED <<prLast, prUnderrun, prWait>>
  BY <1>1 DEF Check, readVars
<1>3. ~descValid /\ ~flush /\ ~prUnderrun /\ prWait = 0 /\ ~pending
  BY <1>2 DEF ReadInStep, Acks, Shifts, Chooses, CheckAddress, ReadPre, Disciplined, TxRight,
              HandRight
<1>4. CASE header \in Reads
  <2>1. ReadStarts
    BY <1>4 DEF CheckAddress
  <2>2. \E q \in Lengths : TxRight(q)'
    BY <1>3, <2>1, ReadStartsKeeps
  <2>3. CASE descq # <<>>
    <3>1. Avail
      BY <1>3, <2>3, NextIsEnough
    <3>2. fsm' \in {"TxAckFByte", "TxAckSByte"}
      <4>1. header \in {"mainR", "virtR"} /\ header \in Reads /\ header \in Ours
        BY <1>4 DEF Reads, Ours, Virtual
      <4>2. Verdict(ack, Avail) = ack
        BY <1>2, <3>1, <4>1 DEF Verdict
      <4> QED
        BY <1>2, <4>2
    <3>3. descValid' = TRUE
      BY <1>3, <2>1, <2>3 DEF ReadStarts
    <3>4. ReadInStep'
      BY <1>2, <1>3, <1>4, <3>2, <3>3 DEF ReadInStep, Acks, Shifts, Chooses
    <3> QED
      BY <2>2, <3>4
  <2>4. CASE descq = <<>>
    <3>1. ~Avail /\ ~descValid'
      BY <1>3, <2>1, <2>4 DEF Avail, ReadStarts
    <3>2. fsm' \in {"InHDRMode", "WaitRestart"}
      <4>1. header \in {"mainR", "virtR"} /\ header \in Reads
        BY <1>4 DEF Reads
      <4>2. Verdict(ack, Avail) = "WaitRestart"
        BY <1>2, <3>1, <4>1 DEF Verdict
      <4> QED
        BY <1>2, <4>2
    <3>3. ReadInStep'
      BY <1>2, <1>3, <3>1, <3>2, QuietAfter DEF Quiet, Aside
    <3> QED
      BY <2>2, <3>3
  <2> QED
    BY <2>3, <2>4
<1>5. CASE header \notin Reads
  <2>1. UNCHANGED txVars
    BY <1>5 DEF CheckAddress
  <2>2. TxRight(n)' /\ ~descValid'
    BY <1>3, <2>1, HeldStill DEF txVars, handlerVars
  <2>3. fsm' \in {"InHDRMode", "WaitRestart", "TxAckFByte", "TxAckSByte"}
    BY <1>2 DEF Verdict
  <2>4. ReadInStep'
    BY <1>2, <1>3, <1>5, <2>2, <2>3 DEF ReadInStep, Acks, Shifts, Chooses
  <2> QED
    BY <2>2, <2>4
<1> QED
  BY <1>4, <1>5

\* The bits of an acknowledged read.
LEMMA BusBitKeeps ==
    ASSUME NEW n \in Lengths, ReadPre(n), ReadInStep, TypeOK', BusBit
    PROVE  TxRight(n)' /\ ReadInStep'
<1>1. Settled
  BY DEF BusBit
<1>2. descValid => pending /\ ByteThere
  BY <1>1, SettledOffers
<1>3. ~prUnderrun /\ prWait = 0
  BY DEF ReadInStep
<1>4. CASE AckSent /\ UNCHANGED txVars
  <2>1. TxRight(n)' /\ UNCHANGED <<descValid, pending, conv>>
    BY <1>4, HeldStill DEF txVars, handlerVars
  <2>2. /\ fsm \in {"TxAckFByte", "TxAckSByte"}
        /\ UNCHANGED <<prLast, prUnderrun, prWait>>
        /\ fsm' = CASE header = "rsvdW" -> "RxSByte"
                    [] header \in Reads -> "TxPReadData"
                    [] OTHER            -> "RxPWriteData"
    BY <1>4 DEF AckSent, Move, To, readVars
  <2>3. CASE header \in Reads
    <3>1. descValid /\ pending /\ ByteThere
      BY <1>2, <2>2, <2>3 DEF ReadInStep, Acks
    <3>2. fsm' = "TxPReadData"
      <4>1. header # "rsvdW"
        BY <2>3 DEF Reads
      <4> QED
        BY <2>2, <2>3, <4>1
    <3> QED
      BY <1>3, <2>1, <2>2, <3>1, <3>2 DEF ReadInStep, Acks, Shifts, Chooses, ByteThere
  <2>4. CASE header \notin Reads
    <3>1. ~descValid
      BY <2>2, <2>4 DEF ReadInStep, Acks, Shifts, Chooses
    <3>2. fsm' \in {"RxSByte", "RxPWriteData"}
      BY <2>2, <2>4
    <3> QED
      BY <1>3, <2>1, <2>2, <3>1, <3>2, QuietAfter DEF Quiet, Aside
  <2> QED
    BY <2>3, <2>4
<1>5. CASE ReadByteSent(ByteLast) /\ ByteTaken
  <2>1. /\ fsm = "TxPReadData" /\ fsm' = "TxPReadTbitSel" /\ prLast' = ByteLast
        /\ UNCHANGED <<prUnderrun, prWait>>
    BY <1>5 DEF ReadByteSent, To
  <2>2. descValid /\ pending /\ ByteThere
    BY <1>2, <2>1 DEF ReadInStep, Shifts
  <2>3. TxRight(n)'
    BY <1>5, <2>2, TakenKeeps DEF ByteValid
  <2>4. CASE ByteLast
    <3>1. ~descValid' /\ prLast'
      BY <1>5, <2>1, <2>4 DEF ByteTaken
    <3> QED
      BY <1>3, <2>1, <2>3, <3>1 DEF ReadInStep, Acks, Shifts, Chooses
  <2>5. CASE ~ByteLast
    <3>1. descValid' /\ pending' /\ ~prLast'
      BY <1>5, <2>1, <2>2, <2>5 DEF ByteTaken
    <3> QED
      BY <1>3, <2>1, <2>3, <3>1 DEF ReadInStep, Acks, Shifts, Chooses
  <2> QED
    BY <2>4, <2>5
<1>6. CASE TbitWaits(ByteValid) /\ UNCHANGED txVars
  <2>1. fsm = "TxPReadTbitSel" /\ ~prLast /\ ~ByteValid
    BY <1>6 DEF TbitWaits
  <2>2. descValid
    BY <2>1 DEF ReadInStep, Chooses
  <2> QED
    BY <1>2, <2>1, <2>2 DEF ByteValid
<1>7. CASE ReadContinued /\ UNCHANGED txVars
  <2>1. TxRight(n)' /\ UNCHANGED <<descValid, pending, conv>>
    BY <1>7, HeldStill DEF txVars, handlerVars
  <2>2. /\ fsm = "TxPReadTbitCont" /\ fsm' = "TxPReadData"
        /\ UNCHANGED <<prLast, prUnderrun, prWait>>
    BY <1>7 DEF ReadContinued, Move, To, readVars
  <2> QED
    BY <2>1, <2>2 DEF ReadInStep, Acks, Shifts, Chooses, ByteThere
<1>8. CASE ReadAborted /\ Aborted
  <2>1. /\ fsm = "TxPReadTbitCont" /\ fsm' = "RxFByte"
        /\ UNCHANGED <<prLast, prUnderrun, prWait>>
    BY <1>8 DEF ReadAborted, Move, To, readVars
  <2>2. pending /\ ~descValid'
    BY <1>8, <2>1 DEF ReadInStep, Shifts, Aborted
  <2>3. TxRight(n)'
    BY <1>8, <2>2, AbortKeeps
  <2> QED
    BY <1>3, <2>1, <2>2, <2>3, QuietAfter DEF Quiet, Aside
<1>9. CASE ReadEnded /\ IF prUnderrun THEN Aborted ELSE UNCHANGED txVars
  <2>1. /\ fsm = "TxPReadTbitEnd" /\ fsm' = "WaitRestart" /\ prUnderrun' = FALSE
        /\ prWait' = prWait
    BY <1>9 DEF ReadEnded, To
  <2>2. UNCHANGED txVars
    BY <1>3, <1>9
  <2>3. ~descValid' /\ TxRight(n)'
    BY <2>1, <2>2, HeldStill DEF ReadInStep, Acks, Shifts, Chooses, txVars, handlerVars
  <2> QED
    BY <1>3, <2>1, <2>3, QuietAfter DEF Quiet, Aside
<1> QED
  BY <1>4, <1>5, <1>6, <1>7, <1>8, <1>9 DEF BusBit

\* The T-bit is decided: the read ends with its last byte and not before.
LEMMA TbitKeeps ==
    ASSUME NEW n \in Lengths, ReadPre(n), ReadInStep, TypeOK', TbitDecided
    PROVE  TxRight(n)' /\ ReadInStep'
<1>1. UNCHANGED txVars
  BY DEF TbitDecided
<1>2. TxRight(n)' /\ UNCHANGED <<descValid, pending, conv>>
  BY <1>1, HeldStill DEF txVars, handlerVars
<1>3. /\ fsm = "TxPReadTbitSel" /\ prLast' = prLast /\ prWait' = 0
      /\ prLast \/ ByteValid
      /\ fsm' = IF ~prLast /\ ByteValid THEN "TxPReadTbitCont" ELSE "TxPReadTbitEnd"
      /\ prUnderrun' = (prUnderrun \/ (~prLast /\ ~ByteValid))
  BY DEF TbitDecided, TbitSelected, To, ReadInStep
<1>4. ~prUnderrun'
  BY <1>3 DEF ReadInStep
<1>5. CASE prLast
  <2>1. ~descValid'
    BY <1>2, <1>3, <1>5 DEF ReadInStep, Acks, Shifts, Chooses
  <2>2. fsm' = "TxPReadTbitEnd"
    BY <1>3, <1>5
  <2> QED
    BY <1>2, <1>3, <1>4, <2>1, <2>2, QuietAfter DEF Quiet, Aside
<1>6. CASE ~prLast
  <2>1. descValid /\ pending /\ ByteThere
    BY <1>3, <1>6 DEF ReadInStep, Chooses, ByteValid
  <2>2. fsm' = "TxPReadTbitCont"
    BY <1>3, <1>6
  <2> QED
    BY <1>2, <1>3, <1>4, <2>1, <2>2 DEF ReadInStep, Acks, Shifts, Chooses, ByteThere
<1> QED
  BY <1>5, <1>6

\* Every step keeps the invariant.
LEMMA ReadsRightStep ==
    TypeOK /\ ReadsRight /\ [Next]_vars => ReadsRight'
<1> SUFFICES ASSUME TypeOK, ReadsRight, [Next]_vars, Disciplined'
             PROVE  \E q \in Lengths : ReadInv(q)'
  BY DEF ReadsRight
<1>1. keeps' = keeps
  BY DEF Next, Firmware, FwData, FwDescriptor, FwNextMessage, Handler, HandlerStep, TxStart,
         LoadWord, FlushByte, FlushEnd, FlushDry, Controller, EndFrame, Target, CheckAddress,
         ReadStarts, BusBit, ByteTaken, Aborted, TbitDecided, txVars, vars
<1>2. PICK n \in Lengths : ReadInv(n)
  BY <1>1 DEF ReadsRight, Disciplined
<1>3. ReadPre(n) /\ ReadInStep
  BY <1>1, <1>2 DEF ReadPre, ReadInv, TxRight, Disciplined
<1>4. TypeOK'
  BY TypeStep
<1>5. (\E q \in Lengths : TxRight(q)') /\ ReadInStep'
  <2>1. CASE Firmware \/ Handler \/ Controller
    BY <1>3, <1>4, <2>1, FirmwareKeeps, HandlerInStep, ControllerKeeps
  <2>2. CASE CheckAddress
    BY <1>3, <1>4, <2>2, CheckKeeps
  <2>3. CASE BusBit \/ TbitDecided
    BY <1>3, <1>4, <2>3, BusBitKeeps, TbitKeeps
  <2>4. CASE UNCHANGED vars
    <3>1. TxRight(n)'
      BY <1>3, <1>4, <2>4, HeldStill DEF vars
    <3>2. ReadInStep'
      BY <1>3, <2>4
         DEF ReadInStep, Acks, Shifts, Chooses, ByteThere, vars, fsmVars, selVars, readVars,
             txVars, handlerVars
    <3> QED
      BY <3>1, <3>2
  <2> QED
    BY <2>1, <2>2, <2>3, <2>4 DEF Next, Target
<1> QED
  BY <1>5 DEF ReadInv, TxRight

LEMMA ReadsRightInit == Init => ReadsRight
<1> SUFFICES ASSUME Init PROVE ReadsRight
  OBVIOUS
<1>1. PICK n \in Lengths : fw = NewMessage(1, n)
  BY DEF Init, TxInit
<1>2. /\ fw.msg = 1 /\ fw.words = 0 /\ fw.desc = FALSE
      /\ txq = <<>> /\ descq = <<>> /\ conv = Empty
      /\ ~descValid /\ ~pending /\ ~flush
      /\ fsm = "Idle" /\ ~prUnderrun /\ prWait = 0
  BY <1>1 DEF Init, TxInit, FsmInit, NewMessage
<1>3. Described = 0 /\ NextMsg = 1 /\ First = 1 /\ Gone(n) = 0 /\ Stream = <<>>
  BY <1>2 DEF Described, NextMsg, First, InHand, Gone, Stream, ByteThere, Empty
<1>4. DescriptorsInOrder /\ SaidWhole /\ HandRight(n) /\ ConverterInStep(n)
  BY <1>2, <1>3
     DEF DescriptorsInOrder, SaidWhole, HandRight, ConverterInStep, ByteThere, Empty
<1>5. Due(n) = {}
  <2>1. \A m \in First..fw.msg : WordsOf(m, n) = 0
    BY <1>2, <1>3 DEF WordsOf
  <2>2. \A m \in First..fw.msg : FirstDue(m, n) = 0
    BY <1>2, <1>3 DEF FirstDue
  <2> QED
    BY <2>1, <2>2 DEF Due
<1>6. WordsHeld(n)
  BY <1>3, <1>5 DEF WordsHeld, Lists
<1>7. ReadInStep
  BY <1>2 DEF ReadInStep, Acks, Shifts, Chooses
<1> QED
  BY <1>4, <1>6, <1>7 DEF ReadsRight, ReadInv

\* The invariant holds in every state.
THEOREM ReadsRightInvariant == Spec => []ReadsRight
  BY ReadsRightInit, ReadsRightStep, TypeCorrect, PTL DEF Spec

-----------------------------------------------------------------------------
(* What follows. *)

\* A byte the machine shifts out is there, is of the message whose descriptor
\* is in hand, and is the one the byte counter says it is.
THEOREM BytesRight == Spec => []SendsItsMessage
<1>1. TypeOK /\ ReadsRight => SendsItsMessage
  <2> SUFFICES ASSUME TypeOK, Disciplined, ReadsRight, Shifts
               PROVE  ByteValid /\ conv.msg = desc.msg /\ Offered = desc.len - count
    BY DEF SendsItsMessage, Shifts
  <2>1. PICK n \in Lengths : ReadInv(n)
    BY DEF ReadsRight
  <2>2. ReadPre(n)
    BY <2>1 DEF ReadPre, ReadInv, TxRight
  <2>3. /\ descValid /\ pending /\ ByteThere /\ desc = [msg |-> NextMsg - 1, len |-> n]
        /\ count \in 1..n /\ InHand
    BY <2>1 DEF ReadInv, ReadInStep, HandRight, InHand
  <2>4. n \in Nat /\ First = NextMsg - 1 /\ Gone(n) = n - count /\ Gone(n) \in Nat
    BY <2>2, <2>3, HeldBefore DEF First, Gone
  <2>5. ConvWord = [msg |-> First, idx |-> Gone(n) \div 4]
    BY <2>2, <2>3, HeadDue, HeldBefore
  <2>6. conv.msg = desc.msg /\ conv.idx = Gone(n) \div 4
    BY <2>3, <2>4, <2>5 DEF ConvWord
  <2>7. conv.left = 4 - (Gone(n) % 4)
    BY <2>1, <2>3 DEF ReadInv, ConverterInStep
  <2>8. Offered = Gone(n)
    BY <2>4, <2>6, <2>7 DEF Offered
  <2> QED
    BY <2>3, <2>4, <2>6, <2>8 DEF ByteValid
<1> QED
  BY <1>1, TypeCorrect, ReadsRightInvariant, PTL

\* A message that is queued whole is not cut short.
THEOREM NeverUnderrun == Spec => []NoUnderrun
<1>1. ReadsRight => NoUnderrun
  BY DEF ReadsRight, ReadInv, ReadInStep, NoUnderrun
<1> QED
  BY <1>1, ReadsRightInvariant, PTL

\* A read that is acknowledged has its message in hand and data to send.
THEOREM AckedReads == Spec => []AckedReadStarts
<1>1. TypeOK /\ ReadsRight => AckedReadStarts
  <2> SUFFICES ASSUME TypeOK, Disciplined, ReadsRight, Acks
               PROVE  descValid /\ (ByteThere \/ txq # <<>>)
    BY DEF AckedReadStarts, Acks
  <2>1. PICK n \in Lengths : ReadInv(n)
    BY DEF ReadsRight
  <2>2. ReadPre(n)
    BY <2>1 DEF ReadPre, ReadInv, TxRight
  <2>3. descValid /\ InHand
    BY <2>1 DEF ReadInv, ReadInStep, InHand
  <2>4. Stream # <<>>
    BY <2>2, <2>3, HeadDue
  <2> QED
    BY <2>3, <2>4 DEF Stream
<1> QED
  BY <1>1, TypeCorrect, ReadsRightInvariant, PTL

\* Between reads the stream stands at the first byte of the message whose
\* descriptor comes next.
THEOREM BetweenReads == Spec => []StreamAligned
<1>1. TypeOK /\ ReadsRight => StreamAligned
  <2> SUFFICES ASSUME TypeOK, Disciplined, ReadsRight, ~pending, ~flush
               PROVE  AtMessageStart
    BY DEF StreamAligned, AtMessageStart
  <2>1. PICK n \in Lengths : ReadInv(n)
    BY DEF ReadsRight
  <2>2. ReadPre(n)
    BY <2>1 DEF ReadPre, ReadInv, TxRight
  <2>3. Gone(n) = 0
    BY DEF Gone
  <2>4. conv.left \in {0, 4}
    <3>1. conv.left \in 0..4
      BY <2>2, HeldBefore
    <3>2. ByteThere => conv.left = 4
      BY <2>1, <2>3 DEF ReadInv, ConverterInStep
    <3> QED
      BY <3>1, <3>2 DEF ByteThere
  <2> DEFINE next == IF ByteThere THEN <<conv.msg, conv.idx>>
                                  ELSE <<Head(txq).msg, Head(txq).idx>>
             h == Head(Stream)
  <2>5. ASSUME ByteThere \/ txq # <<>>
        PROVE  /\ next[2] = 0
               /\ descValid => next[1] = desc.msg
               /\ ~descValid /\ descq # <<>> => next[1] = Head(descq).msg
    <3>1. Stream # <<>> /\ next = <<h.msg, h.idx>>
      BY <2>2, <2>5, HeldBefore DEF Stream, ConvWord
    <3>2. /\ h \in Due(n) /\ h \in Words
          /\ \A w \in Due(n) : w = h \/ Before(h, w)
      BY <2>2, <3>1, HeldBefore, ListsTail
    <3> HIDE DEF h
    <3>3. /\ h.msg \in Nat /\ h.idx \in Nat
          /\ h.msg \in First..fw.msg /\ fw.msg \in Nat /\ h.idx < WordsOf(h.msg, n)
          /\ First \in Nat
      BY <2>2, <3>2, HeldBefore DEF DueWritten, Words, Shaped
    <3>4. h.idx = 0
      <4>1. SUFFICES ASSUME h.idx # 0 PROVE FALSE
        OBVIOUS
      <4> DEFINE w == [msg |-> h.msg, idx |-> 0]
      <4>2. w \in Words /\ w.msg = h.msg /\ w.idx = 0
        BY <3>3 DEF Words
      <4> HIDE DEF w
      <4>3. w \in Due(n)
        <5>1. w.idx < WordsOf(w.msg, n) /\ Gone(n) \div 4 <= w.idx
          <6>1. WordsOf(h.msg, n) \in Nat
            BY <2>2, <3>3, HeldBefore DEF Shaped
          <6> QED
            BY <2>3, <3>3, <4>2, <6>1
        <5> QED
          BY <2>2, <3>3, <4>2, <5>1, HeldBefore DEF DueWritten
      <4> QED
        BY <3>2, <3>3, <4>1, <4>2, <4>3 DEF Before
    <3>5. CASE descValid
      <4>1. InHand /\ desc.msg = NextMsg - 1 /\ ~flush
        BY <2>1, <3>5 DEF ReadInv, HandRight, InHand
      <4>2. h.msg = First
        BY <2>2, <3>3, <4>1, HeadDue DEF h
      <4>3. desc.msg = First
        BY <4>1 DEF First
      <4> QED
        BY <3>1, <3>4, <3>5, <4>2, <4>3
    <3>6. CASE ~descValid /\ descq = <<>>
      BY <3>1, <3>4, <3>6
    <3>7. CASE ~descValid /\ descq # <<>>
      <4>1. First = NextMsg
        BY <3>7 DEF First, InHand
      <4>2. /\ Len(descq) \in Nat \ {0} /\ Head(descq) = descq[1] /\ descq[1] \in Queued
            /\ DOMAIN descq = 1..Len(descq)
        <5>1. descq \in Seq(Queued)
          BY TypeParts DEF TypeOK, DescsTypeOK
        <5> QED
          BY <3>7, <5>1
      <4>3. Head(descq).msg = NextMsg
        <5>1. 1 \in DOMAIN descq /\ NextMsg + 1 - 1 = NextMsg
          BY <3>3, <4>1, <4>2
        <5>2. descq[1].msg = NextMsg + 1 - 1
          BY <2>1, <5>1 DEF ReadInv, DescriptorsInOrder
        <5> QED
          BY <4>2, <5>1, <5>2
      <4>4. h.msg = First
        <5>1. SUFFICES ASSUME h.msg # First PROVE FALSE
          OBVIOUS
        <5> DEFINE w == [msg |-> First, idx |-> 0]
        <5>2. w \in Words /\ w.msg = First /\ w.idx = 0
          BY <3>3 DEF Words
        <5> HIDE DEF w
        <5>3. \A m \in Nat : m = First => WordsOf(m, n) \in Nat \ {0}
          <6>1. ASSUME NEW m \in Nat, m = First PROVE WordsOf(m, n) \in Nat \ {0}
            <7>1. /\ Described \in Nat /\ NextMsg + Len(descq) = Described + 1
              BY <2>2, HeldBefore DEF Shaped
            <7>2. ~(m > Described) /\ ~(m < NextMsg) /\ m - NextMsg + 1 = 1
              BY <4>1, <4>2, <6>1, <7>1
            <7>3. WordsOf(m, n) = DataWords(descq[1].len)
              BY <7>2 DEF WordsOf
            <7>4. descq[1].len \in Lengths
              BY <4>2 DEF Queued
            <7> QED
              BY <7>3, <7>4, NumbersTyped
          <6> QED
            BY <6>1
        <5>4. w \in Due(n)
          <6>1. w.idx < WordsOf(w.msg, n) /\ Gone(n) \div 4 <= w.idx
            BY <2>3, <3>3, <5>2, <5>3
          <6>2. w.msg \in First..fw.msg
            BY <3>3, <5>2
          <6> QED
            BY <2>2, <5>2, <6>1, <6>2, HeldBefore DEF DueWritten
        <5> QED
          BY <3>2, <3>3, <5>1, <5>2, <5>4 DEF Before
      <4> QED
        BY <3>1, <3>4, <3>7, <4>1, <4>3, <4>4
    <3> QED
      BY <3>5, <3>6, <3>7
  <2> QED
    BY <2>4, <2>5 DEF AtMessageStart
<1> QED
  BY <1>1, TypeCorrect, ReadsRightInvariant, PTL

=============================================================================
