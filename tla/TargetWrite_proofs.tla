-------------------------- MODULE TargetWrite_proofs --------------------------
(***************************************************************************)
(* Proofs about TargetWrite.  A lemma sorts the steps by what they do to   *)
(* the write path; the invariants of TargetWriteInv are then shown over    *)
(* the kinds of steps, and the safety properties follow.                   *)
(***************************************************************************)
EXTENDS TargetWriteInv, TargetLemmas

-----------------------------------------------------------------------------
(* The kinds of steps. *)

\* The FSM moves, or nothing does; the write path and firmware stand still.
\* No flag that drops bytes is raised, and a byte is begun within the bound.
ElsewhereStep ==
    /\ UNCHANGED <<corners, rxVars, fwVars>>
    /\ rxValid' = rxValid
    /\ parityErr' => parityErr
    /\ overflow' => overflow
    /\ fsm' = "RxPWriteTbit" => fsm = "RxPWriteTbit" \/ sent < MaxBytes

ByteInStep ==
    /\ ByteAccepted /\ ByteIn
    /\ UNCHANGED <<corners, fwVars>>

PushStep == PushWord /\ UNCHANGED <<corners, fsmVars, fwVars>>

\* The end of a write, the corner case apart.
WriteEndsStep ==
    /\ ~rxValid /\ InWrite
    /\ EndOrRestart
    /\ TransferEnds
    /\ UNCHANGED <<corners, fwVars>>

TbitStep ==
    /\ ~rxValid
    /\ \E good \in BOOLEAN : TbitReceived(good)
    /\ UNCHANGED <<corners, fwVars>>

CccFailsStep ==
    /\ CccFails /\ ErrorSeen
    /\ UNCHANGED <<corners, rxq, bcnt, tag, descq, count, msg, sent, fwVars>>

\* The FSM's own moves between states raise no flag.
LEMMA ToQuiet ==
    ASSUME NEW s, To(s)
    PROVE  /\ fsm' = s /\ rxValid' = rxValid
           /\ parityErr' => parityErr
           /\ overflow' => overflow
  BY DEF To

\* A STOP or repeated START leaves the flag of a byte under way.
LEMMA EndQuiet == ASSUME EndOrRestart PROVE rxValid' = rxValid
  BY DEF EndOrRestart, Stop, RepeatedStart, To

\* Every step of TargetWrite is of one of these kinds.
LEMMA StepKinds ==
    ASSUME [Next]_vars
    PROVE  \/ TakeWord \/ TakeDescriptor \/ FinishWrite
           \/ ByteInStep \/ PushStep
           \/ WriteEndsStep \/ EndsFrameAsRoomAppears
           \/ TbitStep \/ CccFailsStep
           \/ ElsewhereStep
<1>1. CASE Firmware
  BY <1>1 DEF Firmware
<1>2. CASE Path
  BY <1>2 DEF Path, ByteInStep, PushStep
<1>3. CASE EndsFrame
  <2>1. CASE InWrite
    BY <1>3, <2>1 DEF EndsFrame, Settled, WriteEndsStep
  <2>2. CASE ~InWrite
    <3>1. PICK s : To(s) /\ s # "RxPWriteTbit"
      <4>1. CASE Stop
        BY <4>1 DEF Stop
      <4>2. CASE RepeatedStart
        BY <4>2, <2>2 DEF RepeatedStart, RestartTarget, InWrite
      <4> QED
        BY <1>3, <4>1, <4>2 DEF EndsFrame, EndOrRestart
    <3> QED
      BY <1>3, <2>2, <3>1, ToQuiet DEF EndsFrame, ElsewhereStep
  <2> QED
    BY <2>1, <2>2
<1>4. CASE EndsFrameAsRoomAppears
  BY <1>4
<1>5. CASE Controller
  <2>1. CASE \E good \in BOOLEAN : TbitReceived(good)
    BY <1>5, <2>1 DEF Controller, Settled, TbitStep
  <2>2. CASE CccFails /\ ErrorSeen /\ UNCHANGED <<rxq, bcnt, tag, descq, count, msg, sent>>
    BY <1>5, <2>2 DEF Controller, CccFailsStep
  <2>3. CASE UNCHANGED rxVars /\ Start(FALSE)
    <3>1. PICK s : To(s) /\ (s = fsm \/ s \in {"RxFByte", "RxFByteArb"})
      BY <2>3 DEF Start
    <3> QED
      BY <1>5, <2>3, <3>1, ToQuiet DEF Controller, ElsewhereStep
  <2>4. CASE UNCHANGED rxVars /\ BusAvailable
    BY <1>5, <2>4 DEF Controller, ElsewhereStep, BusAvailable, writeVars
  <2>5. CASE UNCHANGED rxVars /\ \E h \in Headers : Addresses(h)
    BY <1>5, <2>5
       DEF Controller, ElsewhereStep, Addresses, FByteReceived, SByteReceived, Receive,
           writeVars
  <2>6. CASE UNCHANGED rxVars /\ (CheckFByte(FALSE) \/ CheckSByte(FALSE))
    BY <1>5, <2>6
       DEF Controller, ElsewhereStep, CheckFByte, CheckSByte, Check, Verdict, writeVars
  <2>7. CASE UNCHANGED rxVars /\ (AckSent \/ CccReceived \/ CccDone \/ CccNext \/ LeaveCcc)
    <3>1. PICK s : To(s) /\ s # "RxPWriteTbit"
      BY <2>7 DEF AckSent, CccReceived, CccDone, CccNext, LeaveCcc, Move
    <3> QED
      BY <1>5, <2>7, <3>1, ToQuiet DEF Controller, ElsewhereStep
  <2>8. CASE UNCHANGED rxVars /\ sent < MaxBytes /\ WriteByteReceived
    BY <1>5, <2>8, ToQuiet DEF Controller, ElsewhereStep, WriteByteReceived, Move
  <2> QED
    BY <1>5, <2>1, <2>2, <2>3, <2>4, <2>5, <2>6, <2>7, <2>8 DEF Controller
<1>6. CASE UNCHANGED vars
  BY <1>6 DEF vars, ElsewhereStep, fsmVars, writeVars
<1> QED
  BY <1>1, <1>2, <1>3, <1>4, <1>5, <1>6 DEF Next

-----------------------------------------------------------------------------
(* Typing. *)

FwTypeOK ==
    /\ reading \in RxDescriptors
    /\ taken \in Nat /\ expected \in Nat /\ wrong \in BOOLEAN

\* Every step keeps the types of the FSM.
LEMMA FsmTypesStep == ASSUME FsmTypeOK, [Next]_vars PROVE FsmTypeOK'
<1>1. CASE Firmware
  BY <1>1, FsmKept DEF Firmware, TakeWord, TakeDescriptor, FinishWrite
<1>2. CASE Path
  BY <1>2, FsmKept, WriteTyped DEF Path
<1>3. CASE EndsFrame \/ EndsFrameAsRoomAppears
  BY <1>3, StopTyped, RepeatedStartTyped DEF EndsFrame, EndsFrameAsRoomAppears, EndOrRestart
<1>4. CASE Controller
  <2>1. CASE Start(FALSE) \/ BusAvailable
    BY <2>1, StartTyped, BusAvailableTyped
  <2>2. CASE \E h \in Headers : Addresses(h)
    BY <2>2, AddressTyped DEF Addresses
  <2>3. CASE CheckFByte(FALSE) \/ CheckSByte(FALSE)
    BY <2>3, CheckTyped
  <2>4. CASE AckSent \/ CccReceived \/ CccDone \/ CccNext \/ LeaveCcc
    BY <2>4, AckTyped, CccTyped
  <2>5. CASE WriteByteReceived \/ \E good \in BOOLEAN : TbitReceived(good)
    <3>1. Ready \in BOOLEAN
      BY DEF Ready
    <3> QED
      BY <2>5, <3>1, WriteTyped DEF TbitReceived
  <2> QED
    BY <1>4, <2>1, <2>2, <2>3, <2>4, <2>5 DEF Controller, CccFails
<1>5. CASE UNCHANGED vars
  BY <1>5, FsmKept DEF vars
<1> QED
  BY <1>1, <1>2, <1>3, <1>4, <1>5 DEF Next

\* The two ways a write ends keep the types of the write path.
LEMMA EndTransferTyped ==
    ASSUME RxTypeOK, EndTransfer
    PROVE  /\ descq' \in Seq(RxDescriptors)
           /\ Len(descq') <= DescDepth
           /\ count' \in ByteCounts /\ error' \in BOOLEAN
           /\ msg' \in Nat \ {0} /\ sent' \in Nat
<1>1. Descriptor \in RxDescriptors
  <2>1. msg \in Nat /\ count \in ByteCounts /\ error \in BOOLEAN /\ sent \in Nat
    BY DEF RxTypeOK
  <2> QED
    BY <2>1 DEF Descriptor, RxDescriptors
<1>2. /\ descq' \in Seq(RxDescriptors)
      /\ Len(descq') <= DescDepth
  BY <1>1, RxDepthsAssumption DEF RxTypeOK, EndTransfer
<1>3. count' \in ByteCounts
  BY DEF EndTransfer, ByteCounts
<1>4. msg' \in Nat \ {0} /\ sent' \in Nat
  BY DEF RxTypeOK, EndTransfer
<1>5. error' \in BOOLEAN
  BY DEF EndTransfer
<1> QED
  BY <1>2, <1>3, <1>4, <1>5

\* A byte that enters the converter keeps them.
LEMMA ByteInTyped == ASSUME RxTypeOK, ByteIn PROVE RxTypeOK'
<1>1. count' \in ByteCounts
  BY SMT DEF ByteIn, RxTypeOK, ByteCounts
<1>2. bcnt' \in 0..4
  BY SMT DEF ByteIn, RxTypeOK, Ready
<1>3. tag' \in [msg : Nat, idx : Nat]
  <2>1. count \div 4 \in Nat
    BY SMT DEF RxTypeOK, ByteCounts
  <2>2. tag' = tag \/ tag' = [msg |-> msg, idx |-> count \div 4]
    BY SMT DEF ByteIn
  <2> QED
    BY <2>1, <2>2 DEF RxTypeOK
<1>4. UNCHANGED <<rxq, descq, error, msg, sent>>
  BY SMT DEF ByteIn
<1> QED
  BY <1>1, <1>2, <1>3, <1>4 DEF RxTypeOK

\* Every step keeps the types of the write path.
LEMMA RxTypesStep == ASSUME RxTypeOK, [Next]_vars PROVE RxTypeOK'
<1> USE RxDepthsAssumption
<1>1. CASE TakeWord
  BY <1>1 DEF TakeWord, ReadWord, RxTypeOK
<1>2. CASE TakeDescriptor
  BY <1>2 DEF TakeDescriptor, ReadDescriptor, RxTypeOK
<1>3. CASE ByteInStep
  BY <1>3, ByteInTyped DEF ByteInStep
<1>4. CASE PushStep
  BY <1>4 DEF PushStep, PushWord, Room, NoWord, RxTypeOK
<1>5. CASE WriteEndsStep
  BY <1>5, EndTransferTyped DEF WriteEndsStep, TransferEnds, RxTypeOK
<1>6. CASE EndsFrameAsRoomAppears
  <2>1. rxq' \in Seq([msg : Nat, idx : Nat]) /\ Len(rxq') <= RxDepth
    BY <1>6 DEF EndsFrameAsRoomAppears, TransferEndsAsRoomAppears, RxTypeOK
  <2>2. bcnt' \in 0..4 /\ tag' \in [msg : Nat, idx : Nat]
    BY <1>6 DEF EndsFrameAsRoomAppears, TransferEndsAsRoomAppears, NoWord
  <2> QED
    BY <1>6, <2>1, <2>2, EndTransferTyped
       DEF EndsFrameAsRoomAppears, TransferEndsAsRoomAppears, RxTypeOK
<1>7. CASE TbitStep
  <2>1. error' \in BOOLEAN
    BY <1>7 DEF TbitStep, TbitReceived, ErrorSeen, RxTypeOK
  <2>2. sent' \in Nat
    BY <1>7 DEF TbitStep, TbitReceived, RxTypeOK
  <2> QED
    BY <1>7, <2>1, <2>2 DEF TbitStep, TbitReceived, RxTypeOK
<1>8. CASE CccFailsStep
  <2>1. error' \in BOOLEAN
    BY <1>8 DEF CccFailsStep, ErrorSeen
  <2> QED
    BY <1>8, <2>1 DEF CccFailsStep, RxTypeOK
<1>9. CASE FinishWrite \/ ElsewhereStep
  BY <1>9 DEF FinishWrite, ElsewhereStep, rxVars, RxTypeOK
<1> QED
  BY <1>1, <1>2, <1>3, <1>4, <1>5, <1>6, <1>7, <1>8, <1>9, StepKinds

\* What firmware holds while it holds no descriptor.
LEMMA NoDescriptorTyped == NoDescriptor \in RxDescriptors
<1>1. 0 \in ByteCounts
  BY SMT DEF ByteCounts
<1> QED
  BY <1>1, Zenon DEF NoDescriptor, RxDescriptors

\* Every step keeps the types of firmware's variables.
LEMMA FwTypesStep == ASSUME FwTypeOK, RxTypeOK, [Next]_vars PROVE FwTypeOK'
<1>1. CASE TakeWord \/ EndsFrameAsRoomAppears
  <2>1. UNCHANGED <<reading, expected>> /\ taken' = taken + 1
    BY <1>1 DEF TakeWord, EndsFrameAsRoomAppears
  <2>2. wrong' = (wrong \/ Head(rxq) # [msg |-> expected, idx |-> taken])
    BY <1>1 DEF TakeWord, EndsFrameAsRoomAppears
  <2>3. wrong' \in BOOLEAN
    BY <2>2, Zenon DEF FwTypeOK
  <2> QED
    BY <2>1, <2>3 DEF FwTypeOK
<1>2. CASE TakeDescriptor
  <2>1. Head(descq) \in RxDescriptors
    BY <1>2 DEF TakeDescriptor, ReadDescriptor, RxTypeOK
  <2> QED
    BY <1>2, <2>1 DEF TakeDescriptor, FwTypeOK
<1>3. CASE FinishWrite
  <2>1. NoDescriptor \in RxDescriptors
    BY NoDescriptorTyped
  <2>2. wrong' = (wrong \/ (taken > DataWords(reading.len) \/ reading.msg # expected))
    BY <1>3 DEF FinishWrite
  <2>3. wrong' \in BOOLEAN
    BY <2>2, Zenon DEF FwTypeOK
  <2>4. taken' \in Nat /\ expected' \in Nat
    BY <1>3 DEF FinishWrite, FwTypeOK
  <2> QED
    BY <1>3, <2>1, <2>3, <2>4 DEF FinishWrite, FwTypeOK
<1>4. CASE UNCHANGED fwVars
  BY <1>4 DEF fwVars, FwTypeOK
<1> QED
  BY <1>1, <1>2, <1>3, <1>4, StepKinds
     DEF ByteInStep, PushStep, WriteEndsStep, TbitStep, CccFailsStep, ElsewhereStep

\* Which corner cases a behaviour may go into is fixed.
LEMMA CornersKept == ASSUME [Next]_vars PROVE corners' = corners
  BY DEF Next, Firmware, TakeWord, TakeDescriptor, FinishWrite, Path, EndsFrame,
         EndsFrameAsRoomAppears, Controller, vars

\* Every step keeps the types.
LEMMA TypeStep == TypeOK /\ [Next]_vars => TypeOK'
  BY FsmTypesStep, RxTypesStep, FwTypesStep, CornersKept DEF TypeOK, FwTypeOK

\* The types hold in every state.
THEOREM TypeCorrect == Spec => []TypeOK
<1>1. Init => TypeOK
  <2> SUFFICES ASSUME Init PROVE TypeOK
    OBVIOUS
  <2>1. RxTypeOK
    <3>1. error \in BOOLEAN
      BY DEF Init, RxInit
    <3>2. count \in ByteCounts
      BY SMT DEF Init, RxInit, ByteCounts
    <3>3. tag \in [msg : Nat, idx : Nat]
      BY DEF Init, RxInit, NoWord
    <3>4. rxq \in Seq([msg : Nat, idx : Nat]) /\ descq \in Seq(RxDescriptors)
      BY DEF Init, RxInit
    <3> QED
      BY <3>1, <3>2, <3>3, <3>4, RxDepthsAssumption DEF Init, RxInit, RxTypeOK
  <2>2. FwTypeOK
    BY NoDescriptorTyped DEF Init, FwTypeOK
  <2> QED
    BY <2>1, <2>2, FsmInitTyped DEF Init, TypeOK, FwTypeOK
<1> QED
  BY <1>1, TypeStep, PTL DEF Spec

-----------------------------------------------------------------------------
(* What the descriptors say: no false alarm. *)

\* A descriptor firmware holds or can read was there before, or is the one the
\* end of a write has just put there, no byte being under way.
LEMMA ReportedStep ==
    ASSUME RxTypeOK, [Next]_vars
    PROVE  \A d \in Reported' :
              d \in Reported \/ d = NoDescriptor \/ (EndTransfer /\ ~rxValid /\ d = Descriptor)
<1>a. \A i \in DOMAIN descq : descq[i] \in Reported
  BY DEF Reported
<1>b. reading \in Reported
  BY DEF Reported
<1> TAKE d \in Reported'
<1>c. d = reading' \/ \E i \in DOMAIN descq' : d = descq'[i]
  BY DEF Reported
<1>1. CASE TakeDescriptor
  <2>1. descq # <<>> /\ descq' = Tail(descq) /\ reading' = Head(descq)
    BY <1>1 DEF TakeDescriptor, ReadDescriptor
  <2>2. \A i \in DOMAIN descq' : descq'[i] = descq[i + 1] /\ i + 1 \in DOMAIN descq
    BY <2>1 DEF RxTypeOK
  <2>3. Head(descq) = descq[1] /\ 1 \in DOMAIN descq
    BY <2>1 DEF RxTypeOK
  <2> QED
    BY <1>a, <1>c, <2>1, <2>2, <2>3
<1>2. CASE EndTransfer /\ ~rxValid /\ UNCHANGED reading
  <2>1. \A i \in DOMAIN descq' :
          (i \in DOMAIN descq /\ descq'[i] = descq[i]) \/ descq'[i] = Descriptor
    BY <1>2 DEF EndTransfer, RxTypeOK
  <2> QED
    BY <1>a, <1>b, <1>c, <1>2, <2>1
<1>3. CASE UNCHANGED descq /\ (UNCHANGED reading \/ reading' = NoDescriptor)
  BY <1>a, <1>b, <1>c, <1>3
<1>4. \/ TakeDescriptor
      \/ EndTransfer /\ ~rxValid /\ UNCHANGED reading
      \/ UNCHANGED descq /\ (UNCHANGED reading \/ reading' = NoDescriptor)
  BY StepKinds
     DEF TakeWord, ReadWord, FinishWrite, rxVars, fwVars, ByteInStep, ByteIn, PushStep, PushWord,
         WriteEndsStep, TransferEnds, EndsFrameAsRoomAppears, TransferEndsAsRoomAppears,
         TbitStep, TbitReceived, CccFailsStep, ElsewhereStep
<1> QED
  BY <1>1, <1>2, <1>3, <1>4

\* The counter never counts more than was sent, and while an error is flagged
\* it counts less.  The CCC machine flags errors of its own, so that the second
\* part leaves those behaviours out.
LEMMA CountsStep ==
    ASSUME TypeOK, NoMoreThanSent, "cccError" \notin corners => ErrorIsLoss, [Next]_vars
    PROVE  NoMoreThanSent' /\ ("cccError" \notin corners => ErrorIsLoss')
<1>1. count \in Nat /\ sent \in Nat /\ rxValid \in BOOLEAN
  BY DEF TypeOK, RxTypeOK, FsmTypeOK, StateTypeOK, ByteCounts
<1>2. CASE ByteInStep
  <2>1. count' <= count + 1 /\ count' \in Nat
    BY <1>1, <1>2, SMT DEF ByteInStep, ByteIn
  <2>2. rxValid /\ ~rxValid' /\ UNCHANGED <<sent, error>>
    BY <1>2, SMT DEF ByteInStep, ByteAccepted, ByteIn
  <2>3. PassedOn = count + 1 /\ PassedOn' = count' /\ sent' = sent /\ error' = error
    BY <2>2 DEF PassedOn
  <2>4. PassedOn <= sent => count' <= sent'
    BY <1>1, <2>1, <2>3
  <2>5. PassedOn < sent => count' < sent'
    BY <1>1, <2>1, <2>3
  <2> QED
    BY <2>3, <2>4, <2>5 DEF NoMoreThanSent, ErrorIsLoss
<1>3. CASE EndTransfer /\ UNCHANGED rxValid /\ ~rxValid
  BY <1>3, SMT DEF EndTransfer, NoMoreThanSent, ErrorIsLoss, PassedOn
<1>4. CASE TbitStep
  <2>1. PICK good \in BOOLEAN : TbitReceived(good)
    BY <1>4 DEF TbitStep
  <2>2. ~rxValid /\ sent' = sent + 1 /\ count' = count
    BY <1>4, <2>1 DEF TbitStep, TbitReceived
  <2>3. error' /\ ~error => ~rxValid'
    BY <2>1, <2>2
       DEF TbitReceived, WriteTbitReceived, ErrorSeen, TypeOK, FsmTypeOK, StateTypeOK
  <2> QED
    BY <1>1, <2>2, <2>3, SMT DEF NoMoreThanSent, ErrorIsLoss, PassedOn
<1>5. CASE CccFailsStep
  <2>1. "cccError" \in corners /\ UNCHANGED <<count, sent>> /\ rxValid' = rxValid
    BY <1>5 DEF CccFailsStep, CccFails, CccDone, Move, To
  <2> QED
    BY <2>1 DEF NoMoreThanSent, PassedOn
<1>6. CASE UNCHANGED <<count, sent, error, rxValid>>
  BY <1>6 DEF NoMoreThanSent, ErrorIsLoss, PassedOn
<1>7. \/ ByteInStep \/ TbitStep \/ CccFailsStep
      \/ EndTransfer /\ UNCHANGED rxValid /\ ~rxValid
      \/ UNCHANGED <<count, sent, error, rxValid>>
  BY StepKinds, EndQuiet
     DEF TakeWord, ReadWord, TakeDescriptor, ReadDescriptor, FinishWrite, PushStep, PushWord,
         WriteEndsStep, TransferEnds, EndsFrameAsRoomAppears, TransferEndsAsRoomAppears,
         ElsewhereStep, rxVars, fsmVars, writeVars
<1> QED
  BY <1>2, <1>3, <1>4, <1>5, <1>6, <1>7

\* So a descriptor with the error bit is one of a write that lost bytes.
LEMMA NoFalseAlarmStep ==
    ASSUME TypeOK, NoFalseAlarmInv, [Next]_vars
    PROVE  NoFalseAlarmInv'
<1>1. NoMoreThanSent' /\ ("cccError" \notin corners => ErrorIsLoss')
  BY CountsStep DEF NoFalseAlarmInv
<1>2. NoFalseAlarm'
  <2> SUFFICES ASSUME "cccError" \notin corners,
                      NEW d \in Reported', d.err
               PROVE  d.len < d.sent
    BY CornersKept DEF NoFalseAlarm
  <2>1. CASE d \in Reported
    BY <2>1 DEF NoFalseAlarmInv, NoFalseAlarm
  <2>2. CASE d = NoDescriptor
    BY <2>2 DEF NoDescriptor
  <2>3. CASE ~rxValid /\ d = Descriptor
    BY <2>3 DEF NoFalseAlarmInv, ErrorIsLoss, PassedOn, Descriptor
  <2> QED
    BY <2>1, <2>2, <2>3, ReportedStep DEF TypeOK
<1> QED
  BY <1>1, <1>2, CornersKept DEF NoFalseAlarmInv

\* Before the first write nothing is sent or reported.
LEMMA InitReports ==
    ASSUME Init
    PROVE  /\ Reported = {NoDescriptor}
           /\ ~rxValid /\ ~error /\ ~parityErr /\ ~overflow
           /\ count = 0 /\ sent = 0
  BY DEF Init, FsmInit, RxInit, Reported

\* These hold in every state.
LEMMA NoFalseAlarmInvariant == Spec => []NoFalseAlarmInv
<1>1. Init => NoFalseAlarmInv
  <2> SUFFICES ASSUME Init PROVE NoFalseAlarmInv
    OBVIOUS
  <2>1. NoFalseAlarm
    BY InitReports DEF NoFalseAlarm, NoDescriptor
  <2>2. NoMoreThanSent /\ ErrorIsLoss
    BY InitReports DEF NoMoreThanSent, ErrorIsLoss, PassedOn
  <2> QED
    BY <2>1, <2>2 DEF NoFalseAlarmInv
<1>2. TypeOK /\ NoFalseAlarmInv /\ [Next]_vars => NoFalseAlarmInv'
  BY NoFalseAlarmStep
<1> QED
  BY <1>1, <1>2, TypeCorrect, PTL DEF Spec

\* An error the target reports is one: the descriptor of a write whose bytes
\* all arrived never has the error bit, however long the writes are.
THEOREM NoFalseAlarms == Spec => []NoFalseAlarm
<1>1. NoFalseAlarmInv => NoFalseAlarm
  BY DEF NoFalseAlarmInv
<1> QED
  BY <1>1, NoFalseAlarmInvariant, PTL

\* The controller keeps within its bound, for the counter never to wrap.
LEMMA WithinBoundStep == ASSUME TypeOK, WithinBound, [Next]_vars PROVE WithinBound'
<1> USE WriteBoundsAssumption
<1>1. CASE EndTransfer /\ EndOrRestart /\ InWrite
  <2>1. sent' = 0
    BY <1>1 DEF EndTransfer
  <2>2. fsm' # "RxPWriteTbit"
    BY <1>1 DEF EndOrRestart, Stop, RepeatedStart, RestartTarget, To, InWrite
  <2> QED
    BY <2>1, <2>2 DEF WithinBound
<1>2. CASE TbitStep
  <2>1. sent < MaxBytes /\ sent' = sent + 1 /\ fsm' # "RxPWriteTbit"
    BY <1>2 DEF TbitStep, TbitReceived, WriteTbitReceived, WithinBound
  <2> QED
    BY <2>1 DEF WithinBound, TypeOK, RxTypeOK
<1>3. CASE CccFailsStep
  BY <1>3 DEF CccFailsStep, CccFails, CccDone, Move, To, WithinBound
<1>4. CASE ElsewhereStep
  BY <1>4 DEF ElsewhereStep, rxVars, WithinBound
<1>5. CASE UNCHANGED <<sent, fsm>>
  BY <1>5 DEF WithinBound
<1>6. CASE TakeWord \/ TakeDescriptor \/ FinishWrite
  BY <1>5, <1>6
     DEF TakeWord, ReadWord, TakeDescriptor, ReadDescriptor, FinishWrite, rxVars, fsmVars
<1>7. CASE ByteInStep \/ PushStep
  BY <1>5, <1>7 DEF ByteInStep, ByteIn, ByteAccepted, PushStep, PushWord, fsmVars
<1>8. CASE WriteEndsStep \/ EndsFrameAsRoomAppears
  BY <1>1, <1>8
     DEF WriteEndsStep, TransferEnds, EndsFrameAsRoomAppears, TransferEndsAsRoomAppears
<1> QED
  BY <1>2, <1>3, <1>4, <1>6, <1>7, <1>8, StepKinds

-----------------------------------------------------------------------------
(* What the descriptors say: every loss. *)

\* The end of a write forgets what made the FSM drop bytes.
LEMMA EndForgets ==
    ASSUME InWrite, EndOrRestart, "restartAfterError" \notin corners
    PROVE  parityErr' = FALSE /\ overflow' = FALSE
<1>1. CASE Stop
  BY <1>1 DEF Stop, To, InWrite
<1>2. CASE RepeatedStart /\ ~parityErr
  BY <1>2 DEF RepeatedStart, RestartTarget, To, InWrite
<1> QED
  BY <1>1, <1>2 DEF EndOrRestart

\* A byte is passed on, or the error flag is set by the time it is dropped.
LEMMA TbitLoss ==
    ASSUME TypeOK, LossIsError, TbitStep
    PROVE  LossIsError'
<1>1. PICK good \in BOOLEAN : TbitReceived(good)
  BY DEF TbitStep
<1>2. ~rxValid /\ sent' = sent + 1 /\ count' = count /\ (error => error')
  BY <1>1 DEF TbitStep, TbitReceived, ErrorSeen
<1>3. WriteTbitReceived(good, Ready) /\ (~good \/ (overflow' /\ ~overflow) => error')
  BY <1>1 DEF TbitReceived, ErrorSeen
<1>4. parityErr' \/ overflow' => error'
  BY <1>2, <1>3 DEF WriteTbitReceived, LossIsError
<1>5. ~error' => rxValid' /\ ~error
  BY <1>2, <1>3, <1>4 DEF WriteTbitReceived, LossIsError
<1>6. ~error' => PassedOn' = sent'
  <2>1. PassedOn = count
    BY <1>2 DEF PassedOn
  <2>2. rxValid' => PassedOn' = count + 1
    BY <1>2 DEF PassedOn
  <2> QED
    BY <1>2, <1>5, <2>1, <2>2 DEF LossIsError
<1> QED
  BY <1>4, <1>6 DEF LossIsError

\* In all behaviours without the corner case, and for writes the sixteen bits
\* of the counter can count.
LEMMA LossStep ==
    ASSUME TypeOK, NoMoreThanSent, WithinBound, MaxBytes < 65536,
           "restartAfterError" \notin corners, LossIsError, [Next]_vars
    PROVE  LossIsError'
<1> USE WriteBoundsAssumption
<1>1. count \in Nat /\ sent \in Nat
  BY DEF TypeOK, RxTypeOK, ByteCounts
<1>2. CASE ByteInStep
  <2>1. rxValid /\ ~rxValid' /\ UNCHANGED <<sent, error, parityErr, overflow>>
    BY <1>2, SMT DEF ByteInStep, ByteAccepted, ByteIn
  <2>2. PassedOn = count + 1 /\ PassedOn' = count'
    BY <2>1 DEF PassedOn
  <2>3. count + 1 < 65536
    BY <1>1, <2>2 DEF NoMoreThanSent, WithinBound
  <2>4. count' = count + 1
    BY <1>1, <1>2, <2>3, SMT DEF ByteInStep, ByteIn
  <2> QED
    BY <2>1, <2>2, <2>4 DEF LossIsError
<1>3. CASE EndTransfer /\ EndOrRestart /\ InWrite /\ ~rxValid
  <2>1. ~rxValid' /\ count' = 0 /\ sent' = 0
    BY <1>3, EndQuiet DEF EndTransfer
  <2>2. PassedOn' = sent'
    BY <2>1 DEF PassedOn
  <2> QED
    BY <1>3, <2>2, EndForgets DEF LossIsError
<1>4. CASE CccFailsStep
  BY <1>4 DEF CccFailsStep, ErrorSeen, LossIsError
<1>5. CASE ElsewhereStep
  BY <1>5 DEF ElsewhereStep, rxVars, LossIsError, PassedOn
<1>6. CASE UNCHANGED <<count, sent, error, parityErr, overflow, rxValid>>
  BY <1>6 DEF LossIsError, PassedOn
<1>7. CASE TakeWord \/ TakeDescriptor \/ FinishWrite \/ PushStep
  BY <1>6, <1>7
     DEF TakeWord, ReadWord, TakeDescriptor, ReadDescriptor, FinishWrite, PushStep, PushWord,
         rxVars, fsmVars, writeVars
<1>8. CASE WriteEndsStep \/ EndsFrameAsRoomAppears
  BY <1>3, <1>8
     DEF WriteEndsStep, TransferEnds, EndsFrameAsRoomAppears, TransferEndsAsRoomAppears
<1> QED
  BY <1>2, <1>4, <1>5, <1>7, <1>8, TbitLoss, StepKinds

\* And what the error flag says goes into the descriptor.
LEMMA LossReportedStep ==
    ASSUME TypeOK, NoMoreThanSent, WithinBound, MaxBytes < 65536, LossReportedInv, [Next]_vars
    PROVE  LossReportedInv'
<1> SUFFICES ASSUME "restartAfterError" \notin corners
             PROVE  LossIsError' /\ LossSaid'
  BY CornersKept DEF LossReportedInv
<1>1. LossIsError'
  BY LossStep DEF LossReportedInv
<1>2. ASSUME NEW d \in Reported', ~d.err
      PROVE  d.len = d.sent
  <2>1. CASE d \in Reported
    BY <1>2, <2>1 DEF LossReportedInv, LossSaid
  <2>2. CASE d = NoDescriptor
    BY <2>2 DEF NoDescriptor
  <2>3. CASE ~rxValid /\ d = Descriptor
    BY <1>2, <2>3 DEF LossReportedInv, LossIsError, PassedOn, Descriptor
  <2> QED
    BY <2>1, <2>2, <2>3, ReportedStep DEF TypeOK
<1> QED
  BY <1>1, <1>2 DEF LossSaid

LEMMA BoundsAtInit == ASSUME Init PROVE NoMoreThanSent /\ WithinBound
<1>1. NoMoreThanSent
  BY InitReports DEF NoMoreThanSent, PassedOn
<1>2. sent = 0 /\ fsm = "Idle"
  BY DEF Init, FsmInit, RxInit
<1>3. MaxBytes \in Nat
  BY WriteBoundsAssumption
<1>4. WithinBound
  BY <1>2, <1>3 DEF WithinBound
<1> QED
  BY <1>1, <1>4

\* A write that lost a byte, to bad parity or to a full queue, has the error
\* bit in its descriptor.  MaxBytes is a hypothesis: the counter has sixteen
\* bits, and the length of a longer write is reported modulo 65536.
THEOREM LossesReported == ASSUME MaxBytes < 65536 PROVE Spec => []LossReported
<1> DEFINE Inv == NoMoreThanSent /\ WithinBound /\ LossReportedInv
<1>1. Init => Inv
  <2> SUFFICES ASSUME Init PROVE Inv
    OBVIOUS
  <2>1. NoMoreThanSent /\ WithinBound
    BY BoundsAtInit
  <2>2. LossIsError /\ LossSaid
    BY InitReports DEF LossIsError, LossSaid, PassedOn, NoDescriptor
  <2> QED
    BY <2>1, <2>2 DEF LossReportedInv
<1>2. TypeOK /\ NoFalseAlarmInv /\ Inv /\ [Next]_vars => Inv'
  BY NoFalseAlarmStep, WithinBoundStep, LossReportedStep DEF NoFalseAlarmInv
<1>3. Inv => LossReported
  BY DEF LossReportedInv, LossReported
<1> QED
  BY <1>1, <1>2, <1>3, TypeCorrect, NoFalseAlarmInvariant, PTL DEF Spec

-----------------------------------------------------------------------------
(* The words due. *)

\* The words due, written out.
LEMMA DueWords ==
    ASSUME TypeOK, DescriptorsInOrder
    PROVE  /\ \A m \in expected..msg : WordsOf(m) \in Nat
           /\ Due \subseteq Words
           /\ \A w \in Words : w \in Due <=> /\ w.msg \in expected..msg
                                             /\ w.idx < WordsOf(w.msg)
                                             /\ w.msg = expected => taken <= w.idx
<1>1. expected \in Nat /\ msg \in Nat /\ taken \in Nat /\ count \in Nat
  BY DEF TypeOK, RxTypeOK, ByteCounts
<1>2. ASSUME NEW m \in expected..msg PROVE WordsOf(m) \in Nat
  <2>1. CASE m = msg
    BY <1>1, <2>1 DEF WordsOf, DataWords
  <2>2. CASE m # msg
    <3>1. m \in expected..(msg - 1)
      BY <1>1, <2>2
    <3>2. DescriptorOf(m) \in RxDescriptors
      BY <1>1, <3>1 DEF DescriptorsInOrder, Ended, DescriptorOf, TypeOK, RxTypeOK
    <3>3. DescriptorOf(m).len \in Nat
      BY <3>2 DEF RxDescriptors, ByteCounts
    <3> QED
      BY <2>2, <3>3 DEF WordsOf, DataWords
  <2> QED
    BY <2>1, <2>2
<1>3. \A m \in expected..msg : FirstDue(m) \in Nat
  BY <1>1 DEF FirstDue
<1>4. Due \subseteq Words
  <2> SUFFICES ASSUME NEW w \in Due PROVE w \in Words
    OBVIOUS
  <2>0. PICK m \in expected..msg :
           \E i \in FirstDue(m)..(WordsOf(m) - 1) : w = [msg |-> m, idx |-> i]
    BY DEF Due
  <2>1. PICK i \in FirstDue(m)..(WordsOf(m) - 1) : w = [msg |-> m, idx |-> i]
    BY <2>0
  <2>2. m \in Nat /\ i \in Nat
    BY <1>1, <1>2, <1>3, <2>1
  <2> QED
    BY <2>1, <2>2 DEF Words
<1>5. ASSUME NEW w \in Words
      PROVE  w \in Due <=> /\ w.msg \in expected..msg
                           /\ w.idx < WordsOf(w.msg)
                           /\ w.msg = expected => taken <= w.idx
  <2>1. w = [msg |-> w.msg, idx |-> w.idx] /\ w.msg \in Nat /\ w.idx \in Nat
    BY DEF Words
  <2>2. w \in Due <=> /\ w.msg \in expected..msg
                      /\ w.idx \in FirstDue(w.msg)..(WordsOf(w.msg) - 1)
    BY <2>1 DEF Due
  <2> QED
    BY <1>1, <1>2, <2>1, <2>2 DEF FirstDue
<1> QED
  BY <1>2, <1>4, <1>5

\* In a form that can be used of the state after a step.
DueWritten ==
    /\ \A m \in expected..msg : WordsOf(m) \in Nat
    /\ Due \subseteq Words
    /\ \A w \in Words : w \in Due <=> /\ w.msg \in expected..msg
                                      /\ w.idx < WordsOf(w.msg)
                                      /\ w.msg = expected => taken <= w.idx

LEMMA DueWrittenOut == TypeOK /\ DescriptorsInOrder => DueWritten
  BY DueWords DEF DueWritten

-----------------------------------------------------------------------------
(* Room for the descriptor of the write in progress. *)

AckStates == {"TxAckFByte", "TxAckSByte"}
AddressStates == {"CheckFByte", "CheckSByte"} \cup AckStates

\* A step out of the states of an address or a write needs no room, nor does
\* one that only reads descriptors.
LEMMA RoomKeptStep ==
    ASSUME TypeOK, Paired, RoomKept, [Next]_vars
    PROVE  RoomKept'
<1>1. CASE fsm' \notin AddressStates \cup {"RxPWriteData", "RxPWriteTbit"}
  BY <1>1 DEF RoomKept, AddressStates, AckStates, InWrite
<1>2. CASE UNCHANGED <<fsm, header>> /\ Len(descq') <= Len(descq)
  <2>1. Len(descq) \in Nat /\ Len(descq') \in Nat /\ DescDepth \in Nat
    BY TypeStep, RxDepthsAssumption DEF TypeOK, RxTypeOK
  <2> QED
    BY <1>2, <2>1 DEF RoomKept, InWrite
<1>3. CASE TakeWord \/ TakeDescriptor \/ FinishWrite
  <2>1. UNCHANGED <<fsm, header>>
    BY <1>3 DEF TakeWord, TakeDescriptor, FinishWrite, fsmVars, selVars
  <2>2. descq' = descq \/ (descq # <<>> /\ descq' = Tail(descq))
    BY <1>3 DEF TakeWord, ReadWord, TakeDescriptor, ReadDescriptor, FinishWrite, rxVars
  <2>3. Len(descq') <= Len(descq)
    BY <2>2 DEF TypeOK, RxTypeOK
  <2> QED
    BY <1>2, <2>1, <2>3
<1>4. CASE Path
  <2>1. UNCHANGED <<fsm, header, descq>>
    BY <1>4 DEF Path, ByteAccepted, ByteIn, PushWord, fsmVars, selVars
  <2> QED
    BY <1>2, <2>1 DEF TypeOK, RxTypeOK
<1>5. CASE EndsFrame \/ EndsFrameAsRoomAppears
  <2>1. fsm' \in ControllerHasSda \ {"RxPWriteData", "RxPWriteTbit"}
    BY <1>5
       DEF EndsFrame, EndsFrameAsRoomAppears, EndOrRestart, Stop, RepeatedStart, RestartTarget,
           To, ControllerHasSda
  <2> QED
    BY <1>1, <2>1 DEF ControllerHasSda, AddressStates, AckStates
<1>6. CASE UNCHANGED descq /\ \E h \in Headers : Addresses(h)
  <2>1. PICK h \in Headers : Addresses(h)
    BY <1>6
  <2>2. header' = h /\ fsm' \in {"CheckFByte", "CheckSByte"}
    BY <2>1 DEF Addresses, FByteReceived, SByteReceived, Receive
  <2>3. h = "mainW" => Len(descq) < DescDepth
    BY <2>1 DEF Addresses, RoomForDescriptor, Paired
  <2> QED
    BY <1>6, <2>2, <2>3 DEF RoomKept, InWrite
<1>7. CASE UNCHANGED descq /\ (CheckFByte(FALSE) \/ CheckSByte(FALSE))
  <2>1. header' = header /\ header \in Headers \ (Reads \cup Virtual)
    BY <1>7, WritesOnlyAssumption
       DEF CheckFByte, CheckSByte, Check, RoomKept
  <2>2. /\ fsm \in {"CheckFByte", "CheckSByte"}
        /\ fsm' \in AckStates \cup {"InHDRMode", "WaitRestart"}
        /\ fsm' \in AckStates => header \in Ours \cup {"rsvdW"}
    BY <1>7 DEF CheckFByte, CheckSByte, Check, Verdict, AckStates
  <2>3. fsm' \in AckStates => header \in {"mainW", "rsvdW"}
    BY <2>1, <2>2 DEF Ours, Reads, Virtual
  <2> QED
    BY <1>7, <2>1, <2>2, <2>3 DEF RoomKept, InWrite, AckStates
<1>8. CASE UNCHANGED descq /\ AckSent
  <2>1. fsm \in AckStates /\ header \in {"mainW", "rsvdW"}
    BY <1>8 DEF AckSent, Move, AckStates, RoomKept
  <2>2. fsm' \in {"RxSByte", "RxPWriteData"} /\ (fsm' = "RxPWriteData" => header = "mainW")
    BY <1>8, <2>1 DEF AckSent, Move, To, Reads
  <2> QED
    BY <1>8, <2>1, <2>2 DEF RoomKept, InWrite, AckStates
<1>9. CASE UNCHANGED descq /\ (WriteByteReceived \/ \E good \in BOOLEAN : TbitReceived(good))
  <2>1. InWrite /\ InWrite'
    BY <1>9 DEF WriteByteReceived, Move, To, TbitReceived, WriteTbitReceived, InWrite
  <2> QED
    BY <1>9, <2>1 DEF RoomKept, InWrite
<1>10. CASE UNCHANGED descq /\ (Start(FALSE) \/ BusAvailable)
  <2>1. UNCHANGED <<fsm, header>> \/ fsm' \in {"RxFByte", "RxFByteArb", "Idle"}
    BY <1>10 DEF Start, BusAvailable, To, selVars
  <2> QED
    BY <1>1, <1>2, <1>10, <2>1 DEF AddressStates, AckStates, TypeOK, RxTypeOK
<1>11. CASE CccReceived \/ CccDone \/ CccNext \/ LeaveCcc
  BY <1>1, <1>11
     DEF CccReceived, CccDone, CccNext, LeaveCcc, Move, To, AddressStates, AckStates
<1>12. CASE Controller
  BY <1>6, <1>7, <1>8, <1>9, <1>10, <1>11, <1>12
     DEF Controller, CccFails, TbitReceived, rxVars
<1>13. CASE UNCHANGED vars
  BY <1>2, <1>13 DEF vars, fsmVars, selVars, rxVars, TypeOK, RxTypeOK
<1> QED
  BY <1>3, <1>4, <1>5, <1>12, <1>13 DEF Next, Firmware

-----------------------------------------------------------------------------
(* The descriptors. *)

\* What the proofs below assume of the state before a step.
WordsPre ==
    /\ TypeOK /\ NoMoreThanSent /\ WithinBound
    /\ MaxBytes < 65536
    /\ Paired /\ WordsInv

\* In the behaviours considered a write ends only in this way.
LEMMA EndsWithRoom ==
    ASSUME WordsPre, WriteEndsStep \/ EndsFrameAsRoomAppears
    PROVE  /\ WriteEndsStep
           /\ descq' = Append(descq, Descriptor)
           /\ count' = 0 /\ msg' = msg + 1
           /\ UNCHANGED <<reading, taken, expected, wrong, rxq, tag>>
           /\ bcnt' = IF bcnt = 0 THEN 0 ELSE 4
<1>1. WriteEndsStep
  BY DEF WordsPre, Paired, EndsFrameAsRoomAppears
<1>2. Len(descq) < DescDepth
  BY <1>1 DEF WordsPre, WordsInv, RoomKept, WriteEndsStep
<1> QED
  BY <1>1, <1>2 DEF WriteEndsStep, TransferEnds, EndTransfer, fwVars

\* The descriptors of the writes firmware has not finished stay what they are,
\* and in order, and so do the words they promise.
DescriptorsKept ==
    /\ DescriptorsInOrder'
    /\ \A m \in expected'..(msg - 1) : DescriptorOf(m)' = DescriptorOf(m)

\* A step that moves no descriptor.
LEMMA DescriptorsStill ==
    ASSUME WordsPre, UNCHANGED <<reading, descq, expected, msg>>
    PROVE  DescriptorsKept
  BY DEF WordsPre, WordsInv, DescriptorsKept, DescriptorsInOrder, DescriptorOf, Ended

\* Firmware reads a descriptor.
LEMMA DescriptorsTaken ==
    ASSUME WordsPre, TakeDescriptor
    PROVE  DescriptorsKept
<1>1. /\ descq \in Seq(RxDescriptors) /\ descq # <<>>
      /\ descq' = Tail(descq) /\ reading = NoDescriptor /\ reading' = Head(descq)
      /\ UNCHANGED <<expected, msg>>
      /\ expected \in Nat /\ msg \in Nat
  BY DEF WordsPre, TypeOK, RxTypeOK, TakeDescriptor, ReadDescriptor
<1>2. /\ Len(descq) \in Nat \ {0} /\ Len(descq') = Len(descq) - 1
      /\ Head(descq) = descq[1]
      /\ \A i \in 1..(Len(descq) - 1) : descq'[i] = descq[i + 1]
  BY <1>1
<1>3. /\ expected >= 1 /\ msg = expected + Len(descq)
      /\ \A m \in expected..(msg - 1) : descq[m - expected + 1].msg = m
  BY <1>1 DEF WordsPre, WordsInv, DescriptorsInOrder, Ended, DescriptorOf
<1>4. reading' # NoDescriptor
  <2>1. descq[expected - expected + 1].msg = expected
    BY <1>1, <1>2, <1>3
  <2>2. expected - expected + 1 = 1
    BY <1>1
  <2> QED
    BY <1>1, <1>2, <1>3, <2>1, <2>2 DEF NoDescriptor
<1>5. ASSUME NEW m \in expected..(msg - 1)
      PROVE  DescriptorOf(m)' = DescriptorOf(m)
  <2>1. CASE m = expected
    BY <1>1, <1>2, <1>4, <2>1 DEF DescriptorOf
  <2>2. CASE m # expected
    <3>1. m - expected \in 1..(Len(descq) - 1)
      BY <1>1, <1>2, <1>3, <2>2
    <3> QED
      BY <1>1, <1>2, <1>4, <2>2, <3>1 DEF DescriptorOf
  <2> QED
    BY <2>1, <2>2
<1>6. Ended' = Len(descq)
  BY <1>1, <1>2, <1>4 DEF Ended
<1> QED
  BY <1>1, <1>3, <1>5, <1>6 DEF DescriptorsKept, DescriptorsInOrder, DescriptorOf

\* Firmware is done with a write.
LEMMA DescriptorsFinished ==
    ASSUME WordsPre, FinishWrite
    PROVE  DescriptorsKept
<1>1. /\ reading # NoDescriptor /\ reading' = NoDescriptor /\ expected' = expected + 1
      /\ UNCHANGED <<descq, msg>>
      /\ expected \in Nat /\ msg \in Nat /\ Len(descq) \in Nat
  BY DEF WordsPre, TypeOK, RxTypeOK, FinishWrite, rxVars
<1>2. /\ expected >= 1 /\ msg = expected + Len(descq) + 1
      /\ \A m \in expected..(msg - 1) : DescriptorOf(m).msg = m
  BY <1>1 DEF WordsPre, WordsInv, DescriptorsInOrder, Ended
<1>3. ASSUME NEW m \in expected'..(msg - 1)
      PROVE  DescriptorOf(m)' = DescriptorOf(m) /\ m \in expected..(msg - 1)
  <2>1. m # expected /\ m - expected' + 1 = m - expected /\ m \in expected..(msg - 1)
    BY <1>1
  <2> QED
    BY <1>1, <2>1 DEF DescriptorOf
<1>4. Ended' = Len(descq)
  BY <1>1 DEF Ended
<1> QED
  BY <1>1, <1>2, <1>3, <1>4 DEF DescriptorsKept, DescriptorsInOrder

\* A write ends: its descriptor is the last one.
LEMMA DescriptorsAdded ==
    ASSUME WordsPre, WriteEndsStep \/ EndsFrameAsRoomAppears
    PROVE  DescriptorsKept /\ \A m \in Nat : m = msg => DescriptorOf(m)' = Descriptor
<1>1. /\ descq' = Append(descq, Descriptor) /\ msg' = msg + 1
      /\ UNCHANGED <<reading, expected>>
  BY EndsWithRoom
<1>2. /\ descq \in Seq(RxDescriptors) /\ Descriptor \in RxDescriptors
      /\ expected \in Nat /\ msg \in Nat
  <2>1. msg \in Nat /\ count \in ByteCounts /\ error \in BOOLEAN /\ sent \in Nat
    BY DEF WordsPre, TypeOK, RxTypeOK
  <2>2. Descriptor \in RxDescriptors
    BY <2>1 DEF Descriptor, RxDescriptors
  <2> QED
    BY <2>2 DEF WordsPre, TypeOK, RxTypeOK
<1>3. /\ Len(descq) \in Nat /\ Len(descq') = Len(descq) + 1
      /\ \A i \in 1..Len(descq) : descq'[i] = descq[i]
      /\ descq'[Len(descq) + 1] = Descriptor
  BY <1>1, <1>2
<1>4. /\ expected >= 1 /\ msg = expected + Ended
      /\ \A m \in expected..(msg - 1) : DescriptorOf(m).msg = m
  BY DEF WordsPre, WordsInv, DescriptorsInOrder
<1>5. Ended \in Nat /\ Ended' = Ended + 1
  BY <1>1, <1>3 DEF Ended
<1>6. ASSUME NEW m \in expected..(msg - 1)
      PROVE  DescriptorOf(m)' = DescriptorOf(m)
  <2>1. CASE reading = NoDescriptor
    <3>1. m - expected + 1 \in 1..Len(descq)
      BY <1>2, <1>3, <1>4, <2>1 DEF Ended
    <3> QED
      BY <1>1, <1>3, <2>1, <3>1 DEF DescriptorOf
  <2>2. CASE reading # NoDescriptor /\ m # expected
    <3>1. m - expected \in 1..Len(descq)
      BY <1>2, <1>3, <1>4, <2>2 DEF Ended
    <3> QED
      BY <1>1, <1>3, <2>2, <3>1 DEF DescriptorOf
  <2>3. CASE reading # NoDescriptor /\ m = expected
    BY <1>1, <2>3 DEF DescriptorOf
  <2> QED
    BY <2>1, <2>2, <2>3
<1>7. ASSUME NEW m \in Nat, m = msg
      PROVE  DescriptorOf(m)' = Descriptor
  <2>1. CASE reading = NoDescriptor
    <3>1. m - expected + 1 = Len(descq) + 1
      BY <1>2, <1>3, <1>4, <1>7, <2>1 DEF Ended
    <3> QED
      BY <1>1, <1>3, <2>1, <3>1 DEF DescriptorOf
  <2>2. CASE reading # NoDescriptor
    <3>1. m - expected = Len(descq) + 1 /\ m # expected
      BY <1>2, <1>3, <1>4, <1>7, <2>2 DEF Ended
    <3> QED
      BY <1>1, <1>3, <2>2, <3>1 DEF DescriptorOf
  <2> QED
    BY <2>1, <2>2
<1>8. ASSUME NEW m \in expected'..(msg' - 1)
      PROVE  DescriptorOf(m)'.msg = m
  <2>1. CASE m \in expected..(msg - 1)
    BY <1>4, <1>6, <2>1
  <2>2. CASE m = msg
    BY <1>2, <1>7, <2>2 DEF Descriptor
  <2> QED
    BY <1>1, <1>2, <2>1, <2>2
<1>9. expected' >= 1 /\ msg' = expected' + Ended'
  BY <1>1, <1>2, <1>4, <1>5
<1>10. DescriptorsInOrder'
  BY <1>8, <1>9 DEF DescriptorsInOrder
<1> QED
  BY <1>1, <1>6, <1>7, <1>10 DEF DescriptorsKept

-----------------------------------------------------------------------------
(* Before and after a step. *)

\* Firmware is nowhere beyond the words of the write it reads.
TakenWithin == \A m \in Nat : m = expected => taken <= WordsOf(m)

LEMMA TakenWithinOut == WordsPre => TakenWithin
  BY DEF WordsPre, WordsInv, TakenWithin

\* Both written out, before and after a step.
LEMMA DueBefore ==
    ASSUME WordsPre
    PROVE  /\ DueWritten /\ TakenWithin
           /\ expected \in Nat \ {0} /\ msg \in Nat /\ expected <= msg
           /\ taken \in Nat /\ count \in Nat
  BY DueWrittenOut, TakenWithinOut
     DEF WordsPre, WordsInv, TypeOK, RxTypeOK, DescriptorsInOrder, Ended, ByteCounts

LEMMA DueAfter == TypeOK' /\ DescriptorsInOrder' => DueWritten'
  BY DueWrittenOut, PTL

\* A step that neither fills a word nor takes one leaves the words due as they
\* are; the end of a write does not change how many words it has.
LEMMA DueSame ==
    ASSUME WordsPre, TypeOK', DescriptorsInOrder',
           UNCHANGED <<expected, taken>>,
           msg' = msg \/ msg' = msg + 1,
           \A m \in expected..msg : WordsOf(m)' = WordsOf(m),
           \A m \in Nat : m = msg' /\ m # msg => WordsOf(m)' = 0
    PROVE  Due' = Due /\ TakenWithin'
<1>1. DueWritten'
  BY DueAfter
<1>2. Due \subseteq Words /\ Due' \subseteq Words
  BY <1>1, DueBefore DEF DueWritten
<1>3. ASSUME NEW w \in Words
      PROVE  w \in Due' <=> w \in Due
  <2>1. w.msg \in Nat /\ w.idx \in Nat
    BY DEF Words
  <2>2. w \in Due <=> /\ w.msg \in expected..msg
                      /\ w.idx < WordsOf(w.msg)
                      /\ w.msg = expected => taken <= w.idx
    BY DueBefore DEF DueWritten
  <2>3. w \in Due' <=> /\ w.msg \in expected..msg'
                       /\ w.idx < WordsOf(w.msg)'
                       /\ w.msg = expected => taken <= w.idx
    BY <1>1 DEF DueWritten
  <2>4. CASE w.msg \in expected..msg
    <3>1. WordsOf(w.msg)' = WordsOf(w.msg) /\ w.msg \in expected..msg'
      BY <2>4, DueBefore
    <3> QED
      BY <2>2, <2>3, <2>4, <3>1
  <2>5. CASE w.msg \notin expected..msg
    <3>1. w.msg \in expected..msg' => WordsOf(w.msg)' = 0
      BY <2>1, <2>5, DueBefore
    <3> QED
      BY <2>1, <2>2, <2>3, <2>5, <3>1
  <2> QED
    BY <2>4, <2>5
<1>4. TakenWithin'
  <2> SUFFICES ASSUME NEW m \in Nat, m = expected'
               PROVE  taken' <= WordsOf(m)'
    BY DEF TakenWithin
  <2>1. m \in expected..msg /\ m = expected
    BY DueBefore
  <2> QED
    BY <2>1, DueBefore DEF TakenWithin
<1> QED
  BY <1>2, <1>3, <1>4

\* How many words a write has follows from its descriptor or the counter.
LEMMA WordsKept ==
    ASSUME WordsPre, TypeOK', DescriptorsKept, UNCHANGED <<count, msg>>
    PROVE  \A m \in expected'..msg : WordsOf(m)' = WordsOf(m)
<1> SUFFICES ASSUME NEW m \in expected'..msg PROVE WordsOf(m)' = WordsOf(m)
  OBVIOUS
<1>1. CASE m = msg
  BY <1>1 DEF WordsOf
<1>2. CASE m # msg
  <2>1. m \in expected'..(msg - 1)
    <3>1. msg \in Nat /\ expected' \in Int
      BY DueBefore DEF TypeOK
    <3> QED
      BY <1>2, <3>1
  <2> QED
    BY <1>2, <2>1 DEF WordsOf, DescriptorsKept
<1> QED
  BY <1>1, <1>2

-----------------------------------------------------------------------------
(* The words held, step by step. *)

\* The part of WordsInv that is not about descriptors and room.
HeldRight ==
    /\ TakenWithin
    /\ WordsHeld
    /\ ConverterInStep
    /\ WordsInOrder

LEMMA HeldBefore ==
    ASSUME WordsPre
    PROVE  /\ Lists(Stream, Due)
           /\ Stream \in Seq(Words) /\ rxq \in Seq(Words) /\ tag \in Words
           /\ Due \in SUBSET Words
           /\ bcnt \in 0..4
<1>1. rxq \in Seq(Words) /\ tag \in Words /\ bcnt \in 0..4
  BY DEF WordsPre, TypeOK, RxTypeOK, Words
<1>2. Stream \in Seq(Words)
  BY <1>1 DEF Stream
<1>3. Due \in SUBSET Words
  BY DueBefore DEF DueWritten
<1> QED
  BY <1>1, <1>2, <1>3 DEF WordsPre, WordsInv, WordsHeld

\* Steps that touch neither the queue, nor the converter, nor the descriptors.
LEMMA HeldStill ==
    ASSUME WordsPre, TypeOK',
           UNCHANGED <<rxq, bcnt, tag, count, msg, descq, reading, taken, expected, wrong>>
    PROVE  DescriptorsInOrder' /\ HeldRight'
<1>1. DescriptorsKept
  BY DescriptorsStill
<1>2. Due' = Due /\ TakenWithin'
  BY <1>1, DueSame, WordsKept DEF DescriptorsKept
<1> QED
  BY <1>1, <1>2
     DEF DescriptorsKept, HeldRight, WordsPre, WordsInv, WordsHeld, Stream, ConverterInStep,
         WordsInOrder

\* Firmware reads a descriptor.
LEMMA HeldAtDescriptor ==
    ASSUME WordsPre, TypeOK', TakeDescriptor
    PROVE  DescriptorsInOrder' /\ HeldRight'
<1>1. UNCHANGED <<rxq, bcnt, tag, count, msg, taken, expected, wrong>>
  BY DEF TakeDescriptor, ReadDescriptor
<1>2. DescriptorsKept
  BY DescriptorsTaken
<1>3. Due' = Due /\ TakenWithin'
  BY <1>1, <1>2, DueSame, WordsKept DEF DescriptorsKept
<1> QED
  BY <1>1, <1>2, <1>3
     DEF DescriptorsKept, HeldRight, WordsPre, WordsInv, WordsHeld, Stream, ConverterInStep,
         WordsInOrder

\* The converter hands its word to the queue.
LEMMA HeldAtPush ==
    ASSUME WordsPre, TypeOK', PushStep
    PROVE  DescriptorsInOrder' /\ HeldRight'
<1>1. /\ bcnt = 4 /\ bcnt' = 0 /\ rxq' = Append(rxq, tag)
      /\ UNCHANGED <<count, msg, descq, reading, taken, expected, wrong>>
  BY DEF PushStep, PushWord, fwVars
<1>2. DescriptorsKept
  BY <1>1, DescriptorsStill
<1>3. Due' = Due /\ TakenWithin'
  BY <1>1, <1>2, DueSame, WordsKept DEF DescriptorsKept
<1>4. Stream' = Stream
  BY <1>1 DEF Stream
<1>5. ConverterInStep'
  BY <1>1 DEF WordsPre, WordsInv, ConverterInStep
<1> QED
  BY <1>1, <1>2, <1>3, <1>4, <1>5
     DEF DescriptorsKept, HeldRight, WordsPre, WordsInv, WordsHeld, WordsInOrder

\* A write ends, and the converter is flushed.
LEMMA HeldAtEnd ==
    ASSUME WordsPre, TypeOK', WriteEndsStep \/ EndsFrameAsRoomAppears
    PROVE  DescriptorsInOrder' /\ HeldRight'
<1>1. /\ count' = 0 /\ msg' = msg + 1
      /\ UNCHANGED <<reading, taken, expected, wrong, rxq, tag>>
      /\ bcnt' = IF bcnt = 0 THEN 0 ELSE 4
  BY EndsWithRoom
<1>2. DescriptorsKept /\ \A m \in Nat : m = msg => DescriptorOf(m)' = Descriptor
  BY DescriptorsAdded
<1>3. ASSUME NEW m \in expected..msg PROVE WordsOf(m)' = WordsOf(m)
  <2>1. m # msg'
    BY <1>1, DueBefore
  <2>2. CASE m = msg
    <3>1. DescriptorOf(m)'.len = count
      BY <1>2, <2>2, DueBefore DEF Descriptor
    <3> QED
      BY <2>1, <2>2, <3>1 DEF WordsOf
  <2>3. CASE m # msg
    <3>1. m \in expected'..(msg - 1)
      BY <1>1, <2>3, DueBefore
    <3> QED
      BY <1>2, <2>1, <2>3, <3>1 DEF WordsOf, DescriptorsKept
  <2> QED
    BY <2>2, <2>3
<1>4. ASSUME NEW m \in Nat, m = msg' PROVE WordsOf(m)' = 0
  BY <1>1, <1>4 DEF WordsOf, DataWords
<1>5. Due' = Due /\ TakenWithin'
  BY <1>1, <1>2, <1>3, <1>4, DueSame DEF DescriptorsKept
<1>6. Stream' = Stream
  BY <1>1 DEF Stream
<1>7. ConverterInStep'
  BY <1>1 DEF ConverterInStep
<1> QED
  BY <1>1, <1>2, <1>5, <1>6, <1>7
     DEF DescriptorsKept, HeldRight, WordsPre, WordsInv, WordsHeld, WordsInOrder

\* Firmware reads a word: it is the one it expects.
LEMMA HeadExpected ==
    ASSUME WordsPre, TakeWord
    PROVE  /\ Stream # <<>> /\ Head(Stream) = Head(rxq)
           /\ Head(rxq) = [msg |-> expected, idx |-> taken]
           /\ \A m \in Nat : m = expected => taken < WordsOf(m)
<1>1. rxq # <<>> /\ WantsWord
  BY DEF TakeWord, ReadWord
<1>2. Stream # <<>> /\ Head(Stream) = Head(rxq)
  BY <1>1, HeldBefore DEF Stream
<1> DEFINE h == Head(rxq)
<1>3. /\ h \in Due /\ h \in Words
      /\ \A w \in Due : w = h \/ Before(h, w)
  <2>1. h \in Due /\ \A w \in Due : w = h \/ Before(h, w)
    BY <1>2, HeldBefore, ListsTail
  <2> QED
    BY <2>1, DueBefore DEF DueWritten
<1> HIDE DEF h
<1>4. /\ h.msg \in expected..msg /\ h.idx < WordsOf(h.msg)
      /\ h.msg = expected => taken <= h.idx
      /\ h.msg \in Nat /\ h.idx \in Nat
  BY <1>3, DueBefore DEF DueWritten, Words
<1>5. ASSUME NEW m \in Nat, m = expected PROVE taken < WordsOf(m)
  <2>1. CASE reading = NoDescriptor
    <3>1. msg = expected
      BY <1>1, <2>1, DueBefore
         DEF WantsWord, WordsPre, WordsInv, DescriptorsInOrder, Ended
    <3>2. h.msg = m
      BY <1>4, <1>5, <3>1, DueBefore
    <3>3. WordsOf(m) \in Nat
      BY <1>5, DueBefore DEF DueWritten
    <3> QED
      BY <1>4, <1>5, <3>2, <3>3, DueBefore
  <2>2. CASE reading # NoDescriptor
    <3>1. m # msg
      <4>1. Len(descq) \in Nat /\ msg = expected + Len(descq) + 1
        BY <2>2, DueBefore
           DEF WordsPre, WordsInv, DescriptorsInOrder, Ended, TypeOK, RxTypeOK
      <4> QED
        BY <1>5, <4>1, DueBefore
    <3>2. WordsOf(m) = DataWords(reading.len)
      BY <1>5, <2>2, <3>1 DEF WordsOf, DescriptorOf
    <3> QED
      BY <1>1, <2>2, <3>2 DEF WantsWord
  <2> QED
    BY <2>1, <2>2
<1>6. h = [msg |-> expected, idx |-> taken]
  <2> DEFINE w == [msg |-> expected, idx |-> taken]
  <2>1. w \in Words /\ w.msg = expected /\ w.idx = taken
    BY DueBefore DEF Words
  <2> HIDE DEF w
  <2>2. w \in Due
    <3>1. w.idx < WordsOf(w.msg)
      BY <1>5, <2>1, DueBefore
    <3> QED
      BY <2>1, <3>1, DueBefore DEF DueWritten
  <2>3. ~Before(h, w)
    BY <1>4, <2>1, DueBefore DEF Before
  <2> QED
    BY <1>3, <2>2, <2>3 DEF w
<1> QED
  BY <1>2, <1>5, <1>6 DEF h

LEMMA HeldAtTake ==
    ASSUME WordsPre, TypeOK', TakeWord
    PROVE  DescriptorsInOrder' /\ HeldRight'
<1>1. /\ rxq # <<>> /\ rxq' = Tail(rxq) /\ taken' = taken + 1
      /\ UNCHANGED <<bcnt, tag, count, msg, descq, reading, expected>>
      /\ wrong' = (wrong \/ Head(rxq) # [msg |-> expected, idx |-> taken])
  BY DEF TakeWord, ReadWord
<1>2. DescriptorsKept
  BY <1>1, DescriptorsStill
<1>3. \A m \in expected'..msg : WordsOf(m)' = WordsOf(m)
  BY <1>1, <1>2, WordsKept
<1>4. Stream' = Tail(Stream)
  <2>1. Tail(Append(rxq, tag)) = Append(Tail(rxq), tag)
    BY <1>1, HeldBefore, HeadTailAppend
  <2> QED
    BY <1>1, <2>1 DEF Stream
<1> DEFINE h == [msg |-> expected, idx |-> taken]
<1>5. h \in Words /\ h.msg = expected /\ h.idx = taken
  BY DueBefore DEF Words
<1>6. Head(Stream) = h /\ Head(rxq) = h
  BY HeadExpected
<1> HIDE DEF h
<1>7. DueWritten'
  BY <1>2, DueAfter DEF DescriptorsKept
<1>8. ASSUME NEW w \in Words PROVE w \in Due' <=> w \in Due /\ w # h
  <2>1. w.msg \in Nat /\ w.idx \in Nat
    BY DEF Words
  <2>2. w \in Due <=> /\ w.msg \in expected..msg
                      /\ w.idx < WordsOf(w.msg)
                      /\ w.msg = expected => taken <= w.idx
    BY DueBefore DEF DueWritten
  <2>3. w \in Due' <=> /\ w.msg \in expected..msg
                       /\ w.idx < WordsOf(w.msg)'
                       /\ w.msg = expected => taken + 1 <= w.idx
    BY <1>1, <1>7 DEF DueWritten
  <2>4. w = h <=> w.msg = expected /\ w.idx = taken
    BY <1>5 DEF Words, h
  <2>5. w.msg \in expected..msg => WordsOf(w.msg)' = WordsOf(w.msg)
    BY <1>1, <1>3
  <2>6. taken + 1 <= w.idx <=> taken <= w.idx /\ w.idx # taken
    BY <2>1, DueBefore
  <2> QED
    BY <2>2, <2>3, <2>4, <2>5, <2>6
<1>9. Due' = Due \ {h}
  BY <1>7, <1>8, DueBefore DEF DueWritten
<1>10. WordsHeld'
  <2>1. Lists(Tail(Stream), Due \ {h})
    BY <1>6, HeadExpected, HeldBefore, ListsTail
  <2> QED
    BY <1>4, <1>9, <2>1 DEF WordsHeld
<1>11. TakenWithin'
  <2> SUFFICES ASSUME NEW m \in Nat, m = expected'
               PROVE  taken' <= WordsOf(m)'
    BY DEF TakenWithin
  <2>1. m \in expected'..msg /\ m = expected
    BY <1>1, DueBefore
  <2>2. taken < WordsOf(m) /\ WordsOf(m) \in Nat /\ WordsOf(m)' = WordsOf(m)
    BY <1>1, <1>3, <2>1, HeadExpected, DueBefore DEF DueWritten
  <2> QED
    BY <1>1, <2>2, DueBefore
<1>12. WordsInOrder'
  <2>1. ~wrong /\ ~(Head(rxq) # [msg |-> expected, idx |-> taken])
    BY <1>6 DEF WordsPre, WordsInv, WordsInOrder, h
  <2> QED
    BY <1>1, <2>1, Zenon DEF WordsInOrder
<1>13. ConverterInStep'
  BY <1>1 DEF WordsPre, WordsInv, ConverterInStep
<1> QED
  BY <1>2, <1>10, <1>11, <1>12, <1>13 DEF DescriptorsKept, HeldRight

\* Firmware is done with a write: it has read all its words and no other.
LEMMA HeldAtFinish ==
    ASSUME WordsPre, TypeOK', FinishWrite
    PROVE  DescriptorsInOrder' /\ HeldRight'
<1>1. /\ reading # NoDescriptor /\ taken >= DataWords(reading.len)
      /\ taken' = 0 /\ expected' = expected + 1
      /\ UNCHANGED <<rxq, bcnt, tag, count, msg, descq>>
      /\ wrong' = (wrong \/ (taken > DataWords(reading.len) \/ reading.msg # expected))
  BY DEF FinishWrite, rxVars
<1>2. DescriptorsKept
  BY DescriptorsFinished
<1>3. \A m \in expected'..msg : WordsOf(m)' = WordsOf(m)
  BY <1>1, <1>2, WordsKept
<1>4. expected < msg
  <2>1. Len(descq) \in Nat /\ msg = expected + Len(descq) + 1
    BY <1>1, DueBefore DEF WordsPre, WordsInv, DescriptorsInOrder, Ended, TypeOK, RxTypeOK
  <2> QED
    BY <2>1, DueBefore
<1>5. ASSUME NEW m \in Nat, m = expected
      PROVE  WordsOf(m) = DataWords(reading.len) /\ taken = WordsOf(m) /\ reading.msg = m
  <2>1. WordsOf(m) = DataWords(reading.len)
    BY <1>1, <1>4, <1>5, DueBefore DEF WordsOf, DescriptorOf
  <2>2. taken <= WordsOf(m) /\ WordsOf(m) \in Nat
    BY <1>5, DueBefore DEF TakenWithin, DueWritten
  <2>3. DescriptorOf(m).msg = m
    BY <1>4, <1>5, DueBefore DEF WordsPre, WordsInv, DescriptorsInOrder
  <2> QED
    BY <1>1, <1>5, <2>1, <2>2, <2>3, DueBefore DEF DescriptorOf
<1>6. DueWritten'
  BY <1>2, DueAfter DEF DescriptorsKept
<1>7. ASSUME NEW w \in Words PROVE w \in Due' <=> w \in Due
  <2>1. w.msg \in Nat /\ w.idx \in Nat
    BY DEF Words
  <2>2. w \in Due <=> /\ w.msg \in expected..msg
                      /\ w.idx < WordsOf(w.msg)
                      /\ w.msg = expected => taken <= w.idx
    BY DueBefore DEF DueWritten
  <2>3. w \in Due' <=> /\ w.msg \in (expected + 1)..msg
                       /\ w.idx < WordsOf(w.msg)'
                       /\ w.msg = expected + 1 => 0 <= w.idx
    BY <1>1, <1>6 DEF DueWritten
  <2>4. CASE w.msg = expected
    <3>1. taken = WordsOf(w.msg)
      BY <1>5, <2>4, DueBefore
    <3>2. w \notin Due
      BY <2>1, <2>2, <2>4, <3>1, DueBefore
    <3>3. w \notin Due'
      BY <2>3, <2>4, DueBefore
    <3> QED
      BY <3>2, <3>3
  <2>5. CASE w.msg # expected
    <3>1. w.msg \in expected..msg <=> w.msg \in (expected + 1)..msg
      BY <2>1, <2>5, DueBefore
    <3>2. w.msg \in (expected + 1)..msg => WordsOf(w.msg)' = WordsOf(w.msg)
      BY <1>1, <1>3
    <3> QED
      BY <2>1, <2>2, <2>3, <2>5, <3>1, <3>2
  <2> QED
    BY <2>4, <2>5
<1>8. Due' = Due
  BY <1>6, <1>7, DueBefore DEF DueWritten
<1>9. WordsHeld' /\ ConverterInStep'
  BY <1>1, <1>8 DEF WordsPre, WordsInv, WordsHeld, Stream, ConverterInStep
<1>10. TakenWithin'
  <2> SUFFICES ASSUME NEW m \in Nat, m = expected'
               PROVE  taken' <= WordsOf(m)'
    BY DEF TakenWithin
  <2>1. m \in expected'..msg'
    BY <1>1, <1>4, DueBefore
  <2>2. WordsOf(m)' \in Nat
    BY <1>6, <2>1 DEF DueWritten
  <2> QED
    BY <1>1, <2>2
<1>11. WordsInOrder'
  <2>1. ~(taken > DataWords(reading.len)) /\ reading.msg = expected
    BY <1>5, DueBefore
  <2>2. ~wrong
    BY DEF WordsPre, WordsInv, WordsInOrder
  <2> QED
    BY <1>1, <2>1, <2>2, Zenon DEF WordsInOrder
<1> QED
  BY <1>2, <1>9, <1>10, <1>11 DEF DescriptorsKept, HeldRight

\* A byte enters the converter: it is the first of a word, or of the word there.
LEMMA HeldAtByte ==
    ASSUME WordsPre, TypeOK', ByteInStep
    PROVE  DescriptorsInOrder' /\ HeldRight'
<1>1. /\ rxValid /\ bcnt # 4 /\ bcnt' = bcnt + 1
      /\ count' = (count + 1) % 65536
      /\ tag' = IF bcnt = 0 THEN [msg |-> msg, idx |-> count \div 4] ELSE tag
      /\ UNCHANGED <<rxq, descq, msg, reading, taken, expected, wrong>>
  BY SMT DEF ByteInStep, ByteAccepted, ByteIn, Ready, fwVars
<1>2. count \in Nat /\ count' = count + 1
  <2>1. count + 1 < 65536
    BY <1>1, DueBefore, WriteBoundsAssumption
       DEF WordsPre, NoMoreThanSent, PassedOn, WithinBound, TypeOK, RxTypeOK
  <2> QED
    BY <1>1, <2>1, DueBefore, SMT
<1>3. /\ bcnt = count % 4 /\ bcnt \in 0..3
      /\ bcnt \in 1..3 => tag = [msg |-> msg, idx |-> count \div 4]
  BY <1>1, HeldBefore DEF WordsPre, WordsInv, ConverterInStep
<1>4. ConverterInStep'
  <2>1. bcnt = 3 => count' % 4 = 0
    BY <1>2, <1>3
  <2>2. bcnt < 3 => bcnt' = count' % 4 /\ count' \div 4 = count \div 4
    BY <1>1, <1>2, <1>3
  <2>3. bcnt < 3 => tag' = [msg |-> msg', idx |-> count' \div 4]
    BY <1>1, <1>3, <2>2
  <2>4. bcnt' = 4 <=> bcnt = 3
    BY <1>1, <1>3
  <2> QED
    BY <1>1, <1>3, <2>1, <2>2, <2>3, <2>4 DEF ConverterInStep
<1>5. DescriptorsKept
  BY <1>1, DescriptorsStill
<1>6. ASSUME NEW m \in expected..msg, m # msg PROVE WordsOf(m)' = WordsOf(m)
  <2>1. m \in expected'..(msg - 1)
    BY <1>1, <1>6, DueBefore
  <2> QED
    BY <1>1, <1>5, <1>6, <2>1 DEF WordsOf, DescriptorsKept
<1>7. ASSUME NEW m \in Nat, m = msg
      PROVE  /\ WordsOf(m) = (count + 3) \div 4 /\ WordsOf(m)' = (count' + 3) \div 4
             /\ WordsOf(m) \in Nat /\ WordsOf(m)' \in Nat
  BY <1>1, <1>2, <1>7, SMT DEF WordsOf, DataWords
<1>8. CASE bcnt # 0
  <2>1. (count' + 3) \div 4 = (count + 3) \div 4
    BY <1>2, <1>3, <1>8
  <2>2. \A m \in expected..msg : WordsOf(m)' = WordsOf(m)
    BY <1>6, <1>7, <2>1, DueBefore
  <2>3. Due' = Due /\ TakenWithin'
    BY <1>1, <1>5, <2>2, DueSame DEF DescriptorsKept
  <2>4. Stream' = Stream
    BY <1>1, <1>3, <1>8 DEF Stream
  <2> QED
    BY <1>1, <1>4, <1>5, <2>3, <2>4
       DEF DescriptorsKept, HeldRight, WordsPre, WordsInv, WordsHeld, WordsInOrder
<1>9. CASE bcnt = 0
  <2>1. count \div 4 \in Nat
    BY <1>2
  <2>2. \A m \in Nat : m = msg => WordsOf(m) = count \div 4 /\ WordsOf(m)' = count \div 4 + 1
    <3>1. (count + 3) \div 4 = count \div 4 /\ (count' + 3) \div 4 = count \div 4 + 1
      BY <1>2, <1>3, <1>9
    <3> QED
      BY <1>7, <3>1
  <2> DEFINE new == [msg |-> msg, idx |-> count \div 4]
  <2>3. new \in Words /\ new.msg = msg /\ new.idx = count \div 4
    BY <2>1, DueBefore DEF Words
  <2>4. Stream' = Append(Stream, new)
    BY <1>1, <1>3, <1>9 DEF Stream
  <2>5. \A w \in Words : w = new <=> w.msg = msg /\ w.idx = count \div 4
    BY DEF Words
  <2> HIDE DEF new
  <2>6. DueWritten'
    BY <1>5, DueAfter DEF DescriptorsKept
  <2>7. ASSUME NEW w \in Words PROVE (w \in Due' <=> w \in Due \/ w = new)
                                     /\ (w \in Due => Before(w, new))
    <3>1. w.msg \in Nat /\ w.idx \in Nat
      BY DEF Words
    <3>2. w \in Due <=> /\ w.msg \in expected..msg
                        /\ w.idx < WordsOf(w.msg)
                        /\ w.msg = expected => taken <= w.idx
      BY DueBefore DEF DueWritten
    <3>3. w \in Due' <=> /\ w.msg \in expected..msg
                         /\ w.idx < WordsOf(w.msg)'
                         /\ w.msg = expected => taken <= w.idx
      BY <1>1, <2>6 DEF DueWritten
    <3>4. CASE w.msg = msg
      <4>1. WordsOf(w.msg) = count \div 4 /\ WordsOf(w.msg)' = count \div 4 + 1
        BY <2>2, <3>1, <3>4
      <4>2. w.idx < count \div 4 + 1 <=> w.idx < count \div 4 \/ w.idx = count \div 4
        BY <2>1, <3>1
      <4>3. msg = expected => taken <= count \div 4
        BY <2>2, DueBefore DEF TakenWithin
      <4>4. w \in Due' <=> w \in Due \/ w = new
        BY <2>5, <3>2, <3>3, <3>4, <4>1, <4>2, <4>3, DueBefore
      <4>5. w \in Due => Before(w, new)
        BY <2>3, <3>2, <3>4, <4>1 DEF Before
      <4> QED
        BY <4>4, <4>5
    <3>5. CASE w.msg # msg
      <4>1. w.msg \in expected..msg => WordsOf(w.msg)' = WordsOf(w.msg)
        BY <1>6, <3>5
      <4>2. w.msg \in expected..msg => w.msg < msg
        BY <3>1, <3>5, DueBefore
      <4>3. w # new
        BY <2>3, <3>5
      <4> QED
        BY <2>3, <3>2, <3>3, <4>1, <4>2, <4>3 DEF Before
    <3> QED
      BY <3>4, <3>5
  <2>8. Due' = Due \cup {new}
    BY <2>3, <2>6, <2>7, DueBefore DEF DueWritten
  <2>9. WordsHeld'
    <3>1. \A v \in Due : Before(v, new)
      BY <2>7, HeldBefore
    <3>2. Lists(Append(Stream, new), Due \cup {new})
      BY <2>3, <3>1, HeldBefore, ListsAppend
    <3> QED
      BY <2>4, <2>8, <3>2 DEF WordsHeld
  <2>10. TakenWithin'
    <3> SUFFICES ASSUME NEW m \in Nat, m = expected'
                 PROVE  taken' <= WordsOf(m)'
      BY DEF TakenWithin
    <3>1. m \in expected..msg /\ m = expected /\ taken <= WordsOf(m) /\ WordsOf(m) \in Nat
      BY <1>1, DueBefore DEF TakenWithin, DueWritten
    <3>2. CASE m = msg
      BY <1>1, <2>1, <2>2, <3>1, <3>2, DueBefore
    <3>3. CASE m # msg
      BY <1>1, <1>6, <3>1, <3>3
    <3> QED
      BY <3>2, <3>3
  <2> QED
    BY <1>1, <1>4, <1>5, <2>9, <2>10
       DEF DescriptorsKept, HeldRight, WordsPre, WordsInv, WordsInOrder
<1> QED
  BY <1>8, <1>9

\* So every step keeps words and descriptors in their order.
LEMMA WordsMatchStep ==
    ASSUME TypeOK, NoMoreThanSent, WithinBound, MaxBytes < 65536, WordsMatchInv, [Next]_vars
    PROVE  WordsMatchInv'
<1>0. Paired' <=> Paired
  BY CornersKept DEF Paired
<1> SUFFICES ASSUME Paired PROVE WordsInv'
  BY <1>0 DEF WordsMatchInv
<1>1. WordsPre
  BY DEF WordsPre, WordsMatchInv
<1>2. TypeOK'
  BY TypeStep
<1>3. RoomKept'
  BY <1>1, RoomKeptStep DEF WordsPre, WordsInv
<1>4. DescriptorsInOrder' /\ HeldRight'
  <2>1. CASE TbitStep \/ CccFailsStep \/ ElsewhereStep
    <3>1. UNCHANGED <<rxq, bcnt, tag, count, msg, descq, reading, taken, expected, wrong>>
      BY <2>1 DEF TbitStep, TbitReceived, CccFailsStep, ElsewhereStep, rxVars, fwVars
    <3> QED
      BY <1>1, <1>2, <3>1, HeldStill
  <2>2. CASE TakeWord \/ TakeDescriptor \/ FinishWrite
    BY <1>1, <1>2, <2>2, HeldAtTake, HeldAtDescriptor, HeldAtFinish
  <2>3. CASE ByteInStep \/ PushStep
    BY <1>1, <1>2, <2>3, HeldAtByte, HeldAtPush
  <2>4. CASE WriteEndsStep \/ EndsFrameAsRoomAppears
    BY <1>1, <1>2, <2>4, HeldAtEnd
  <2> QED
    BY <2>1, <2>2, <2>3, <2>4, StepKinds
<1>5. (taken <= WordsOf(expected))'
  <2>1. expected' \in Nat
    BY <1>2 DEF TypeOK
  <2>2. \A m \in Nat : m = expected' => taken' <= WordsOf(m)'
    BY <1>4 DEF HeldRight, TakenWithin
  <2> QED
    BY <2>1, <2>2 DEF WordsOf, DescriptorOf
<1> QED
  BY <1>3, <1>4, <1>5 DEF WordsInv, HeldRight

\* Firmware that reads, for each descriptor, as many words as its length asks
\* for gets the words of that write, in order, whatever was dropped on the way.
THEOREM WordsPaired == ASSUME MaxBytes < 65536 PROVE Spec => []WordsMatchDescriptors
<1> DEFINE Inv == NoMoreThanSent /\ WithinBound /\ WordsMatchInv
<1>1. Init => Inv
  <2> SUFFICES ASSUME Init PROVE Inv
    OBVIOUS
  <2>1. NoMoreThanSent /\ WithinBound
    BY BoundsAtInit
  <2>2. /\ rxq = <<>> /\ descq = <<>> /\ bcnt = 0 /\ count = 0 /\ msg = 1
        /\ reading = NoDescriptor /\ taken = 0 /\ expected = 1 /\ wrong = FALSE
        /\ fsm = "Idle"
    BY DEF Init, FsmInit, RxInit
  <2>3. DescriptorsInOrder
    BY <2>2 DEF DescriptorsInOrder, Ended
  <2>4. WordsOf(1) = 0 /\ FirstDue(1) = 0 /\ Stream = <<>>
    BY <2>2, SMT DEF WordsOf, DataWords, FirstDue, Stream
  <2>5. Due = {}
    BY <2>2, <2>4 DEF Due
  <2>6. WordsHeld
    BY <2>4, <2>5 DEF WordsHeld, Lists
  <2>7. ConverterInStep /\ RoomKept /\ WordsInOrder
    BY <2>2 DEF ConverterInStep, RoomKept, InWrite, WordsInOrder
  <2> QED
    BY <2>1, <2>2, <2>3, <2>4, <2>6, <2>7 DEF WordsMatchInv, WordsInv
<1>2. TypeOK /\ NoFalseAlarmInv /\ Inv /\ [Next]_vars => Inv'
  BY NoFalseAlarmStep, WithinBoundStep, WordsMatchStep DEF NoFalseAlarmInv
<1>3. Inv => WordsMatchDescriptors
  BY DEF WordsMatchInv, WordsInv, Paired, WordsMatchDescriptors
<1> QED
  BY <1>1, <1>2, <1>3, TypeCorrect, NoFalseAlarmInvariant, PTL DEF Spec

=============================================================================
