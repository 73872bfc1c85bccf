---------------------------- MODULE CccBus_proofs ----------------------------
(***************************************************************************)
(* Proofs about the command codes, for every set of calls.                 *)
(***************************************************************************)
EXTENDS CccInv, TLAPS

-----------------------------------------------------------------------------
(* What the target does at an event of the bus, and the error it reports.  *)
(* Each lemma says that the parts of the invariant about the target alone  *)
(* are kept, and what becomes of an error that has not been read.          *)

Target == MachinesInStep /\ DaaInCommand /\ AnswerSpan

\* Whether GETSTATUS has told the error, or is in its last T-bit.
Telling == code = "GETSTATUS" /\ (complete \/ state = "TxDataTbitEnd")

\* A step after which no error is being told that was not before.
TellsNothingNew == (err' /\ Telling' => err /\ Telling) /\ (err => err')

LEMMA StartTells ==
    ASSUME Target, Settled, NEW repeated, Start(repeated)
    PROVE  Target' /\ TellsNothingNew
  BY DEF Target, MachinesInStep, DaaInCommand, AnswerSpan, Telling, TellsNothingNew, Start,
         Settled, InEntdaa, deviceVars

LEMMA StopTells == ASSUME Target, StopSeen PROVE Target' /\ TellsNothingNew
  BY DEF Target, MachinesInStep, DaaInCommand, AnswerSpan, Telling, TellsNothingNew, StopSeen,
         Settled, InEntdaa, deviceVars, frameVars

LEMMA PatternTells == ASSUME Target, ResetPattern PROVE Target' /\ TellsNothingNew
  BY StopTells
     DEF Target, MachinesInStep, DaaInCommand, AnswerSpan, Telling, TellsNothingNew, ResetPattern,
         Settled, InEntdaa, deviceVars, frameVars, busVars

LEMMA HdrExitTells == ASSUME Target, HdrExit PROVE Target' /\ TellsNothingNew
  BY DEF Target, MachinesInStep, DaaInCommand, AnswerSpan, Telling, TellsNothingNew, HdrExit,
         Settled, InEntdaa, deviceVars, frameVars

LEMMA ByteTells == ASSUME Target, Settled, NEW v, ByteSeen(v) PROVE Target' /\ TellsNothingNew
  BY DEF Target, MachinesInStep, DaaInCommand, AnswerSpan, Telling, TellsNothingNew, ByteSeen,
         Settled, InEntdaa, Shift, deviceVars, frameVars

LEMMA CmdTbitTells ==
    ASSUME Target, CmdTbitGood \/ CmdTbitBad
    PROVE  Target' /\ ~Telling' /\ (err => err')
  BY DEF Target, MachinesInStep, DaaInCommand, AnswerSpan, Telling, CmdTbitGood, CmdTbitBad,
         Settled, InEntdaa, AfterCmd, Direct, HaveDefiningByte, deviceVars, frameVars

LEMMA TbitTells ==
    ASSUME Target, Settled, NEW good, Tbit(good)
    PROVE  Target' /\ ~Telling' /\ (err => err')
<1>1. CASE CmdTbitGood \/ CmdTbitBad
  BY <1>1, CmdTbitTells
<1>2. CASE TbitBad
  BY <1>2 DEF Target, MachinesInStep, DaaInCommand, AnswerSpan, Telling, TbitBad,
              Settled, InEntdaa, Shift, deviceVars, frameVars
<1>3. CASE DefTbitGood
  BY <1>3 DEF Target, MachinesInStep, DaaInCommand, AnswerSpan, Telling, DefTbitGood,
              Settled, InEntdaa, Shift, deviceVars, frameVars
<1>4. CASE DataTbitGood
  BY <1>4 DEF Target, MachinesInStep, DaaInCommand, AnswerSpan, Telling, DataTbitGood,
              Settled, InEntdaa, Shift
<1> QED
  BY <1>1, <1>2, <1>3, <1>4 DEF Tbit

LEMMA AddressTells ==
    ASSUME Target, Settled, NEW a, NEW rd, AddressSeen(a, rd), UNCHANGED deviceVars
    PROVE  Target' /\ TellsNothingNew
  BY DEF Target, MachinesInStep, DaaInCommand, AnswerSpan, Telling, TellsNothingNew, AddressSeen,
         Settled, InEntdaa, Shift, deviceVars, frameVars

LEMMA AckTells == ASSUME Target, Settled, AckSlot PROVE Target' /\ TellsNothingNew
<1>1. CASE HeaderAcked
  BY <1>1 DEF Target, MachinesInStep, DaaInCommand, AnswerSpan, Telling, TellsNothingNew,
              HeaderAcked, Settled, InEntdaa, deviceVars, frameVars
<1>2. CASE TargetAddressAnswered
  <2>1. AfterAddress \in {"DoneCCC", "NextCCC", "WaitForBusCond", "TxData", "RxData"}
    BY DEF AfterAddress, Te0Error
  <2>2. main' = main \/ (main' = "InHDRMode" /\ state' = "DoneCCC")
    BY <1>2 DEF TargetAddressAnswered, AfterAddress, Te0Error
  <2> QED
    BY <1>2, <2>1, <2>2
       DEF Target, MachinesInStep, DaaInCommand, AnswerSpan, Telling, TellsNothingNew,
           TargetAddressAnswered, Settled, InEntdaa, deviceVars
<1>3. CASE DaaAnswered
  BY <1>3 DEF Target, MachinesInStep, DaaInCommand, AnswerSpan, Telling, TellsNothingNew,
              DaaAnswered, AfterDaa, Settled, InEntdaa, deviceVars, frameVars
<1>4. ASSUME NEW good \in BOOLEAN, Tbit(good) PROVE Target' /\ TellsNothingNew
  BY <1>4, TbitTells DEF TellsNothingNew
<1> QED
  BY <1>1, <1>2, <1>3, <1>4 DEF AckSlot

LEMMA IdTells == ASSUME Target, IdBits(TRUE) \/ IdBits(FALSE) PROVE Target' /\ TellsNothingNew
  BY DEF Target, MachinesInStep, DaaInCommand, AnswerSpan, Telling, TellsNothingNew, IdBits,
         Settled, InEntdaa, deviceVars, frameVars

LEMMA AssignTells ==
    ASSUME Target, NEW a, NEW good, AssignAddress(a, good) PROVE Target' /\ TellsNothingNew
  BY DEF Target, MachinesInStep, DaaInCommand, AnswerSpan, Telling, TellsNothingNew,
         AssignAddress, Settled, InEntdaa, frameVars

LEMMA ReadTbitTells ==
    ASSUME Target, Settled, SendTbitEnd \/ SendTbitCont \/ Aborted
    PROVE  Target' /\ TellsNothingNew
  BY DEF Target, MachinesInStep, DaaInCommand, AnswerSpan, Telling, TellsNothingNew, SendTbitEnd,
         SendTbitCont, Aborted, Shift, Settled, InEntdaa, deviceVars, frameVars

\* The last byte of the answer to GETSTATUS is the error.
LEMMA SendByteTells ==
    ASSUME Target, Settled, SendByte
    PROVE  Target' /\ err' = err /\ (err' /\ Telling' => TxByte = <<"status", "err">>)
<1>1. Target' /\ err' = err
  BY DEF Target, MachinesInStep, DaaInCommand, AnswerSpan, SendByte, Shift, Settled, InEntdaa,
         deviceVars
<1>2. ASSUME err', Telling' PROVE TxByte = <<"status", "err">>
  <2>1. code = "GETSTATUS" /\ err /\ ~complete
    BY <1>2, <1>1 DEF Telling, SendByte, Shift, deviceVars, Target, AnswerSpan
  <2>2. Response(Addressed) = <<<<"vendor", "any">>, <<"status", "err">>>>
    BY <2>1 DEF Response
  <2>3. num = 1
    BY <1>2, <2>1, <2>2 DEF SendByte, Shift, Telling
  <2> QED
    BY <2>2, <2>3 DEF TxByte
<1> QED
  BY <1>1, <1>2

LEMMA FinishTells ==
    ASSUME Target, Finish
    PROVE  Target' /\ (err' /\ Telling' => err /\ Telling) /\ (err /\ ~err' => Telling)
  BY DEF Target, MachinesInStep, DaaInCommand, AnswerSpan, Telling, Finish, Settled, InEntdaa

-----------------------------------------------------------------------------
(* What the controller has read of the error. *)

\* A step of the target that tells nothing new leaves the controller with what
\* it has read.
LEMMA NothingNewKeeps ==
    ASSUME ErrorInvariant, Target', TellsNothingNew, toldErr' = toldErr
    PROVE  ErrorInvariant'
  BY DEF ErrorInvariant, Target, TellsNothingNew, ErrorHeard, Telling

LEMMA QuietKeeps == ASSUME ErrorInvariant, Quiet, toldErr' = toldErr PROVE ErrorInvariant'
  BY DEF ErrorInvariant, MachinesInStep, DaaInCommand, AnswerSpan, ErrorHeard, Settled, InEntdaa,
         Quiet, cccVars, busVars, frameVars, deviceVars

LEMMA QuietTells == ASSUME Quiet PROVE err' = err
  BY DEF Quiet, cccVars, deviceVars

\* Each step keeps the invariant, and forgets no error but one that the
\* controller has read.
LEMMA ErrorStep ==
    ASSUME ErrorInvariant, Next
    PROVE  ErrorInvariant' /\ (err /\ ~err' => toldErr)
<1> Target
  BY DEF ErrorInvariant, Target
<1> DEFINE Kept == ErrorInvariant' /\ (err /\ ~err' => toldErr)
<1> USE NothingNewKeeps, QuietKeeps, QuietTells
<1>1. ASSUME NEW op \in Cmds, Call(op) PROVE Kept
  BY <1>1 DEF Call, Quiet, ghosts
<1>2. CASE SendStart
  BY <1>2, StartTells DEF SendStart, At, TellsNothingNew
<1>3. CASE SendStop
  BY <1>3, StopTells DEF SendStop, Stop, ghosts, TellsNothingNew
<1>4. CASE SendPattern
  BY <1>4, PatternTells DEF SendPattern, TellsNothingNew
<1>5. CASE SendHdrExit
  BY <1>5, HdrExitTells DEF SendHdrExit, ghosts, TellsNothingNew
<1>6. CASE SendAddress
  BY <1>6, AddressTells DEF SendAddress, At, ghosts, TellsNothingNew
<1>7. CASE ReceiveAck
  BY <1>7, AckTells DEF ReceiveAck, At, TellsNothingNew
<1>8. CASE SendDataByte
  BY <1>8, ByteTells DEF SendDataByte, At, ghosts, TellsNothingNew
<1>9. CASE SendTbit
  <2>1. CASE ListensToTbit
    <3>1. Target' /\ ~Telling' /\ (err => err')
      BY <1>9, <2>1, TbitTells DEF SendTbit, At
    <3> QED
      BY <3>1 DEF ErrorInvariant, Target, ErrorHeard, Telling
  <2>2. CASE ~ListensToTbit
    <3>1. Quiet
      BY <1>9, <2>2 DEF SendTbit
    <3>2. toldErr' = (toldErr /\ ~(err' /\ ~err))
      BY <1>9 DEF SendTbit
    <3>3. ErrorInvariant'
      BY <3>1, <3>2, QuietTells
         DEF ErrorInvariant, MachinesInStep, DaaInCommand, AnswerSpan, ErrorHeard, Settled,
             InEntdaa, Quiet, cccVars, busVars, frameVars, deviceVars
    <3> QED
      BY <3>1, <3>3
  <2> QED
    BY <2>1, <2>2
<1>10. CASE ReceiveByte
  <2>1. CASE state = "TxData"
    <3>1. Target' /\ err' = err /\ (err' /\ Telling' => TxByte = <<"status", "err">>)
      BY <1>10, <2>1, SendByteTells DEF ReceiveByte, At
    <3>2. toldErr' = (toldErr \/ TxByte = <<"status", "err">>)
      BY <1>10, <2>1 DEF ReceiveByte
    <3> QED
      BY <3>1, <3>2 DEF ErrorInvariant, Target, ErrorHeard, Telling
  <2>2. CASE state # "TxData"
    BY <1>10, <2>2 DEF ReceiveByte
  <2> QED
    BY <2>1, <2>2
<1>11. CASE ReceiveTbit
  BY <1>11, ReadTbitTells DEF ReceiveTbit, At, ghosts, TellsNothingNew
<1>12. CASE ReceiveId
  <2>1. CASE daa = "SendIDBit" /\ (IdBits(TRUE) \/ IdBits(FALSE))
    <3>1. Target' /\ TellsNothingNew
      BY <1>12, <2>1, IdTells DEF ReceiveId
    <3> QED
      BY <1>12, <3>1 DEF ReceiveId, ghosts, TellsNothingNew
  <2>2. CASE Quiet
    BY <1>12, <2>2 DEF ReceiveId, ghosts
  <2> QED
    BY <1>12, <2>1, <2>2 DEF ReceiveId
<1>13. CASE SendDaaByte
  <2>1. CASE daa = "ReceiveAddr"
    <3>1. Target' /\ TellsNothingNew
      BY <1>13, <2>1, AssignTells DEF SendDaaByte
    <3> QED
      BY <1>13, <3>1 DEF SendDaaByte, ghosts, TellsNothingNew
  <2>2. CASE daa # "ReceiveAddr"
    BY <1>13, <2>2 DEF SendDaaByte, ghosts
  <2> QED
    BY <2>1, <2>2
<1>14. CASE TargetFinishes
  <2>1. Target' /\ (err' /\ Telling' => err /\ Telling) /\ (err /\ ~err' => Telling)
    BY <1>14, FinishTells DEF TargetFinishes
  <2>2. toldErr' = (toldErr /\ err')
    BY <1>14 DEF TargetFinishes
  <2> QED
    BY <2>1, <2>2 DEF ErrorInvariant, Target, ErrorHeard, Telling
<1> QED
  BY <1>1, <1>2, <1>3, <1>4, <1>5, <1>6, <1>7, <1>8, <1>9, <1>10, <1>11, <1>12, <1>13, <1>14
     DEF Next

\* The two machines run in step and an error that GETSTATUS has told is one
\* the controller has read, whatever it calls.
THEOREM ErrorInvariantHolds == Spec => []ErrorInvariant
<1>1. Init => ErrorInvariant
  BY DEF Init, CccInit, ErrorInvariant, MachinesInStep, DaaInCommand, AnswerSpan, ErrorHeard,
         Settled
<1>2. ErrorInvariant /\ [Next]_vars => ErrorInvariant'
  BY ErrorStep, QuietKeeps DEF vars, ghosts, Quiet
<1> QED
  BY <1>1, <1>2, PTL DEF Spec

\* A protocol error is forgotten only after GETSTATUS has told it and the
\* controller has read it to the end (ccc.sv, err_o).
THEOREM ErrorsTold == Spec => ErrorTold
<1>1. ErrorInvariant /\ [Next]_vars => [err /\ ~err' => toldErr]_vars
  BY ErrorStep
<1> QED
  BY <1>1, ErrorInvariantHolds, PTL DEF Spec, ErrorTold

=============================================================================
