----------------------- MODULE TargetIbi_proofs ---------------------------
(***************************************************************************)
(* Proofs about TargetIbi.  Inductive is shown part by part, each part in  *)
(* a lemma of its own with one case per action; the safety properties of   *)
(* retries and arbitration follow from it.  Every step is then shown to be *)
(* a step of the descriptor handler or to leave it alone, which carries    *)
(* the theorems of DescriptorIbi_proofs over to the composition, and a     *)
(* step of the abstract service IbiService or none.                        *)
(***************************************************************************)
EXTENDS TargetIbiInv, TargetLemmas

-----------------------------------------------------------------------------
(* Typing. *)

\* A step of the handler alone changes neither the machine nor the ghosts.
LEMMA EverythingKept ==
    ASSUME FsmPart, UNCHANGED <<fsmVars, ghostVars>>
    PROVE  FsmPart'
  BY DEF FsmPart, FsmTypeOK, StateTypeOK, RequestTypeOK, ReadTypeOK,
         fsmVars, selVars, csrVars, ibiReqVars, readVars, writeVars, ghostVars

\* Every step of TargetIbi keeps the types of the FSM and of the ghosts.
LEMMA TypesStep == ASSUME FsmPart, [Next]_vars PROVE FsmPart'
<1>1. CASE Firmware
  <2>1. CASE Desc!FwWrite /\ UNCHANGED fsmVars /\ NoGhost
    BY <2>1, EverythingKept DEF NoGhost
  <2>2. CASE NotSending /\ Desc!QueueReset /\ UNCHANGED fsmVars /\ NoGhost
    BY <2>2, EverythingKept DEF NoGhost
  <2>3. CASE SetIbiOn /\ UNCHANGED descVars /\ NoGhost
    <3>1. StateTypeOK'
      BY <2>3, StateKept DEF FsmPart, FsmTypeOK, selVars, writeVars, SetIbiOn
    <3>2. RequestTypeOK' /\ ReadTypeOK'
      BY <2>3
         DEF FsmPart, FsmTypeOK, RequestTypeOK, ReadTypeOK, ibiReqVars, readVars, SetIbiOn
    <3> QED
      BY <2>3, <3>1, <3>2
         DEF FsmPart, FsmTypeOK, selVars, csrVars, ghostVars, MaxFails, SetIbiOn, NoGhost
  <2>4. CASE /\ ~OneCycleArb
             /\ RetryCounterReset
             /\ fails' = 0 /\ gaveUp' = FALSE
             /\ UNCHANGED <<descVars, lost>>
    <3>1. StateTypeOK'
      BY <2>4, StateKept DEF FsmPart, FsmTypeOK, selVars, writeVars, RetryCounterReset
    <3>2. RequestTypeOK' /\ ReadTypeOK'
      BY <2>4
         DEF FsmPart, FsmTypeOK, RequestTypeOK, ReadTypeOK, ibiReqVars, readVars,
             RetryCounterReset
    <3>3. gaveUp' \in BOOLEAN /\ lost' \in BOOLEAN
      BY <2>4 DEF FsmPart
    <3> QED
      BY <2>4, <3>1, <3>2, <3>3
         DEF FsmPart, FsmTypeOK, selVars, csrVars, MaxFails, RetryCounterReset
  <2> QED
    BY <1>1, <2>1, <2>2, <2>3, <2>4 DEF Firmware
<1>2. CASE Handler
  BY <1>2, EverythingKept DEF Handler, NoGhost
<1>3. CASE Controller
  <2>1. CASE EndFrame
    <3>1. StateTypeOK'
      BY <2>1, ToTyped DEF FsmPart, FsmTypeOK, StateTypeOK, FsmStates, EndFrame, Stop
    <3>2. RequestTypeOK' /\ ReadTypeOK'
      BY <2>1
         DEF FsmPart, FsmTypeOK, RequestTypeOK, ReadTypeOK, ibiReqVars, readVars, EndFrame,
             Stop, NoReport
    <3> QED
      BY <2>1, <3>1, <3>2
         DEF FsmPart, FsmTypeOK, selVars, csrVars, ghostVars, MaxFails, EndFrame, Stop,
             NoGhost
  <2>2. CASE LeaveBus
    <3>1. StateTypeOK'
      BY <2>2, StateKept DEF FsmPart, FsmTypeOK, selVars, writeVars, LeaveBus, BusAvailable
    <3>2. RequestTypeOK' /\ ReadTypeOK'
      BY <2>2
         DEF FsmPart, FsmTypeOK, RequestTypeOK, ReadTypeOK, ibiReqVars, readVars, LeaveBus,
             BusAvailable
    <3> QED
      BY <2>2, <3>1, <3>2
         DEF FsmPart, FsmTypeOK, selVars, csrVars, ghostVars, MaxFails, LeaveBus, BusAvailable
  <2>3. CASE HeaderArbLost /\ CountFailure(TRUE) /\ UNCHANGED descVars
    <3>1. StateTypeOK'
      BY <2>3, ToTyped DEF FsmPart, FsmTypeOK, StateTypeOK, FsmStates, HeaderArbLost, Move
    <3>2. RequestTypeOK' /\ ReadTypeOK'
      BY <2>3, ReportTyped
         DEF FsmPart, FsmTypeOK, RequestTypeOK, ReadTypeOK, ibiReqVars, readVars,
             HeaderArbLost, Move
    <3> QED
      BY <2>3, <3>1, <3>2
         DEF FsmPart, FsmTypeOK, selVars, csrVars, ghostVars, MaxFails, HeaderArbLost,
             Move, CountFailure
  <2>4. CASE \E h \in Headers : HeaderArbLostLate(h) /\ CountFailure(TRUE) /\ UNCHANGED descVars
    <3>1. StateTypeOK'
      BY <2>4, HeadersAssumption
         DEF FsmPart, FsmTypeOK, StateTypeOK, FsmStates, writeVars, HeaderArbLostLate
    <3>2. RequestTypeOK' /\ ReadTypeOK'
      BY <2>4, ReportTyped
         DEF FsmPart, FsmTypeOK, RequestTypeOK, ReadTypeOK, ibiReqVars, readVars,
             HeaderArbLostLate
    <3> QED
      BY <2>4, <3>1, <3>2
         DEF FsmPart, FsmTypeOK, selVars, csrVars, ghostVars, MaxFails, HeaderArbLostLate,
             CountFailure
  <2>5. CASE /\ Start(Desc!ByteValid)
             /\ IF ReportsExhausted(Desc!ByteValid) THEN GiveUp ELSE NoGhost
             /\ UNCHANGED descVars
    <3>1. StateTypeOK'
      BY <2>5, ToTyped DEF FsmPart, FsmTypeOK, StateTypeOK, FsmStates, Start
    <3>2. RequestTypeOK' /\ ReadTypeOK'
      BY <2>5, ReportTyped
         DEF FsmPart, FsmTypeOK, RequestTypeOK, ReadTypeOK, ibiReqVars, readVars, Start,
             NoReport
    <3> QED
      BY <2>5, <3>1, <3>2
         DEF FsmPart, FsmTypeOK, selVars, csrVars, ghostVars, MaxFails, Start, GiveUp, NoGhost
  <2>6. CASE RepeatedStart /\ NoGhost /\ UNCHANGED descVars
    <3>1. StateTypeOK'
      BY <2>6, ToTyped
         DEF FsmPart, FsmTypeOK, StateTypeOK, FsmStates, RepeatedStart, RestartTarget
    <3>2. RequestTypeOK' /\ ReadTypeOK'
      BY <2>6
         DEF FsmPart, FsmTypeOK, RequestTypeOK, ReadTypeOK, ibiReqVars, readVars,
             RepeatedStart, RestartTarget, NoReport
    <3> QED
      BY <2>6, <3>1, <3>2
         DEF FsmPart, FsmTypeOK, selVars, csrVars, ghostVars, MaxFails, RepeatedStart,
             RestartTarget, NoGhost
  <2>7. CASE \E h \in Headers : FByteReceived(h) /\ NoGhost /\ UNCHANGED descVars
    <3>1. StateTypeOK'
      BY <2>7, HeadersAssumption
         DEF FsmPart, FsmTypeOK, StateTypeOK, FsmStates, writeVars, FByteReceived, Receive
    <3>2. RequestTypeOK' /\ ReadTypeOK'
      BY <2>7
         DEF FsmPart, FsmTypeOK, RequestTypeOK, ReadTypeOK, ibiReqVars, readVars,
             FByteReceived, Receive, NoReport
    <3> QED
      BY <2>7, <3>1, <3>2
         DEF FsmPart, FsmTypeOK, selVars, csrVars, ghostVars, MaxFails, FByteReceived,
             Receive, NoGhost
  <2>8. CASE DriveAddrLost /\ CountFailure(TRUE) /\ UNCHANGED descVars
    <3>1. StateTypeOK'
      BY <2>8, ToTyped DEF FsmPart, FsmTypeOK, StateTypeOK, FsmStates, DriveAddrLost, Move
    <3>2. RequestTypeOK' /\ ReadTypeOK'
      BY <2>8, ReportTyped
         DEF FsmPart, FsmTypeOK, RequestTypeOK, ReadTypeOK, ibiReqVars, readVars,
             DriveAddrLost, Move
    <3> QED
      BY <2>8, <3>1, <3>2
         DEF FsmPart, FsmTypeOK, selVars, csrVars, ghostVars, MaxFails, DriveAddrLost,
             Move, CountFailure
  <2>9. CASE IbiNacked /\ CountFailure(FALSE) /\ UNCHANGED descVars
    <3>1. StateTypeOK'
      BY <2>9, ToTyped DEF FsmPart, FsmTypeOK, StateTypeOK, FsmStates, IbiNacked, Move
    <3>2. RequestTypeOK' /\ ReadTypeOK'
      BY <2>9, ReportTyped
         DEF FsmPart, FsmTypeOK, RequestTypeOK, ReadTypeOK, ibiReqVars, readVars,
             IbiNacked, Move
    <3> QED
      BY <2>9, <3>1, <3>2
         DEF FsmPart, FsmTypeOK, selVars, csrVars, ghostVars, MaxFails, IbiNacked, Move,
             CountFailure
  <2>10. CASE IbiAcked /\ NoGhost /\ UNCHANGED descVars
    <3>1. StateTypeOK'
      BY <2>10, ToTyped DEF FsmPart, FsmTypeOK, StateTypeOK, FsmStates, IbiAcked, Move
    <3>2. RequestTypeOK' /\ ReadTypeOK'
      BY <2>10
         DEF FsmPart, FsmTypeOK, RequestTypeOK, ReadTypeOK, ibiReqVars, readVars, IbiAcked,
             Move, NoReport
    <3> QED
      BY <2>10, <3>1, <3>2
         DEF FsmPart, FsmTypeOK, selVars, csrVars, ghostVars, MaxFails, IbiAcked, Move,
             NoGhost
  <2>11. CASE CccReceived /\ NoGhost /\ UNCHANGED descVars
    <3>1. StateTypeOK'
      BY <2>11, ToTyped DEF FsmPart, FsmTypeOK, StateTypeOK, FsmStates, CccReceived, Move
    <3>2. RequestTypeOK' /\ ReadTypeOK'
      BY <2>11
         DEF FsmPart, FsmTypeOK, RequestTypeOK, ReadTypeOK, ibiReqVars, readVars,
             CccReceived, Move, NoReport
    <3> QED
      BY <2>11, <3>1, <3>2
         DEF FsmPart, FsmTypeOK, selVars, csrVars, ghostVars, MaxFails, CccReceived, Move,
             NoGhost
  <2>12. CASE CccDone /\ NoGhost /\ UNCHANGED descVars
    <3>1. StateTypeOK'
      BY <2>12, ToTyped DEF FsmPart, FsmTypeOK, StateTypeOK, FsmStates, CccDone, Move
    <3>2. RequestTypeOK' /\ ReadTypeOK'
      BY <2>12
         DEF FsmPart, FsmTypeOK, RequestTypeOK, ReadTypeOK, ibiReqVars, readVars, CccDone,
             Move, NoReport
    <3> QED
      BY <2>12, <3>1, <3>2
         DEF FsmPart, FsmTypeOK, selVars, csrVars, ghostVars, MaxFails, CccDone, Move, NoGhost
  <2>13. CASE CccEntersHdr /\ NoGhost /\ UNCHANGED descVars
    <3>1. StateTypeOK'
      BY <2>13, ToTyped DEF FsmPart, FsmTypeOK, StateTypeOK, FsmStates, CccEntersHdr, Move
    <3>2. RequestTypeOK' /\ ReadTypeOK'
      BY <2>13
         DEF FsmPart, FsmTypeOK, RequestTypeOK, ReadTypeOK, ibiReqVars, readVars,
             CccEntersHdr, Move, NoReport
    <3> QED
      BY <2>13, <3>1, <3>2
         DEF FsmPart, FsmTypeOK, selVars, csrVars, ghostVars, MaxFails, CccEntersHdr, Move,
             NoGhost
  <2>14. CASE HdrExit /\ NoGhost /\ UNCHANGED descVars
    <3>1. StateTypeOK'
      BY <2>14, ToTyped DEF FsmPart, FsmTypeOK, StateTypeOK, FsmStates, HdrExit, Move
    <3>2. RequestTypeOK' /\ ReadTypeOK'
      BY <2>14
         DEF FsmPart, FsmTypeOK, RequestTypeOK, ReadTypeOK, ibiReqVars, readVars, HdrExit,
             Move, NoReport
    <3> QED
      BY <2>14, <3>1, <3>2
         DEF FsmPart, FsmTypeOK, selVars, csrVars, ghostVars, MaxFails, HdrExit, Move, NoGhost
  <2> QED
    BY <1>3, <2>1, <2>2, <2>3, <2>4, <2>5, <2>6, <2>7, <2>8, <2>9, <2>10, <2>11, <2>12, <2>13, <2>14
       DEF Controller, LoseArbitration
<1>4. CASE Target
  <2>1. CASE InitiateIbi(Desc!ByteValid) /\ NoGhost /\ UNCHANGED descVars
    <3>1. StateTypeOK'
      BY <2>1, ToTyped DEF FsmPart, FsmTypeOK, StateTypeOK, FsmStates, InitiateIbi
    <3>2. RequestTypeOK' /\ ReadTypeOK'
      BY <2>1
         DEF FsmPart, FsmTypeOK, RequestTypeOK, ReadTypeOK, ibiReqVars, readVars,
             InitiateIbi, NoReport
    <3> QED
      BY <2>1, <3>1, <3>2
         DEF FsmPart, FsmTypeOK, selVars, csrVars, ghostVars, MaxFails, InitiateIbi, NoGhost
  <2>2. CASE ReportExhausted(Desc!ByteValid) /\ GiveUp /\ UNCHANGED descVars
    <3>1. StateTypeOK'
      BY <2>2, StateKept DEF FsmPart, FsmTypeOK, selVars, writeVars, ReportExhausted
    <3>2. RequestTypeOK' /\ ReadTypeOK'
      BY <2>2, ReportTyped
         DEF FsmPart, FsmTypeOK, RequestTypeOK, ReadTypeOK, ibiReqVars, readVars,
             ReportExhausted
    <3> QED
      BY <2>2, <3>1, <3>2
         DEF FsmPart, FsmTypeOK, selVars, csrVars, ghostVars, MaxFails, ReportExhausted,
             GiveUp
  <2>3. CASE ArbNotTried /\ GiveUp /\ UNCHANGED descVars
    <3>1. StateTypeOK'
      BY <2>3, ToTyped DEF FsmPart, FsmTypeOK, StateTypeOK, FsmStates, ArbNotTried, Move
    <3>2. RequestTypeOK' /\ ReadTypeOK'
      BY <2>3, ReportTyped
         DEF FsmPart, FsmTypeOK, RequestTypeOK, ReadTypeOK, ibiReqVars, readVars,
             ArbNotTried, Move
    <3> QED
      BY <2>3, <3>1, <3>2
         DEF FsmPart, FsmTypeOK, selVars, csrVars, ghostVars, MaxFails, ArbNotTried, Move,
             GiveUp
  <2>4. CASE EndInhibit /\ UNCHANGED descVars
    <3>1. StateTypeOK'
      BY <2>4, StateKept
         DEF FsmPart, FsmTypeOK, selVars, writeVars, EndInhibit, ReleaseInhibit
    <3>2. RequestTypeOK' /\ ReadTypeOK'
      BY <2>4
         DEF FsmPart, FsmTypeOK, RequestTypeOK, ReadTypeOK, ibiReqVars, readVars,
             EndInhibit, ReleaseInhibit
    <3> QED
      BY <2>4, <3>1, <3>2
         DEF FsmPart, FsmTypeOK, selVars, csrVars, ghostVars, MaxFails, EndInhibit,
             ReleaseInhibit
  <2>5. CASE WinArbitration /\ UNCHANGED descVars
    <3>1. StateTypeOK'
      BY <2>5, ToTyped
         DEF FsmPart, FsmTypeOK, StateTypeOK, FsmStates, WinArbitration, IbiAddrSent, Move
    <3>2. RequestTypeOK' /\ ReadTypeOK'
      BY <2>5
         DEF FsmPart, FsmTypeOK, RequestTypeOK, ReadTypeOK, ibiReqVars, readVars,
             WinArbitration, IbiAddrSent, Move, NoReport
    <3> QED
      BY <2>5, <3>1, <3>2
         DEF FsmPart, FsmTypeOK, selVars, csrVars, ghostVars, MaxFails, WinArbitration,
             IbiAddrSent, Move
  <2>6. CASE IbiContinued /\ NoGhost /\ UNCHANGED descVars
    <3>1. StateTypeOK'
      BY <2>6, ToTyped DEF FsmPart, FsmTypeOK, StateTypeOK, FsmStates, IbiContinued, Move
    <3>2. RequestTypeOK' /\ ReadTypeOK'
      BY <2>6
         DEF FsmPart, FsmTypeOK, RequestTypeOK, ReadTypeOK, ibiReqVars, readVars,
             IbiContinued, Move, NoReport
    <3> QED
      BY <2>6, <3>1, <3>2
         DEF FsmPart, FsmTypeOK, selVars, csrVars, ghostVars, MaxFails, IbiContinued, Move,
             NoGhost
  <2>7. CASE IbiEnded /\ gaveUp' = FALSE /\ fails' = 0 /\ UNCHANGED <<descVars, lost>>
    <3>1. StateTypeOK'
      BY <2>7, ToTyped DEF FsmPart, FsmTypeOK, StateTypeOK, FsmStates, IbiEnded, Move
    <3>2. RequestTypeOK' /\ ReadTypeOK'
      BY <2>7, ReportTyped
         DEF FsmPart, FsmTypeOK, RequestTypeOK, ReadTypeOK, ibiReqVars, readVars, IbiEnded,
             Move
    <3>3. gaveUp' \in BOOLEAN /\ lost' \in BOOLEAN
      BY <2>7 DEF FsmPart
    <3> QED
      BY <2>7, <3>1, <3>2, <3>3
         DEF FsmPart, FsmTypeOK, selVars, csrVars, MaxFails, IbiEnded, Move
  <2>8. CASE CheckFByte(FALSE) /\ NoGhost /\ UNCHANGED descVars
    <3>1. StateTypeOK'
      BY <2>8
         DEF FsmPart, FsmTypeOK, StateTypeOK, FsmStates, writeVars, CheckFByte, Check, Verdict
    <3>2. RequestTypeOK' /\ ReadTypeOK'
      BY <2>8
         DEF FsmPart, FsmTypeOK, RequestTypeOK, ReadTypeOK, ibiReqVars, readVars,
             CheckFByte, Check, NoReport
    <3>3. virtSel' = virtSel \/ virtSel' = TRUE \/ virtSel' = FALSE
      BY <2>8 DEF CheckFByte, Check
    <3>4. virtSel' \in BOOLEAN
      BY <3>3, Zenon DEF FsmPart, FsmTypeOK
    <3> QED
      BY <2>8, <3>1, <3>2, <3>4
         DEF FsmPart, FsmTypeOK, csrVars, ghostVars, CheckFByte, Check, NoGhost
  <2>9. CASE AckSent /\ NoGhost /\ UNCHANGED descVars
    <3>1. StateTypeOK'
      BY <2>9, ToTyped DEF FsmPart, FsmTypeOK, StateTypeOK, FsmStates, AckSent, Move
    <3>2. RequestTypeOK' /\ ReadTypeOK'
      BY <2>9
         DEF FsmPart, FsmTypeOK, RequestTypeOK, ReadTypeOK, ibiReqVars, readVars, AckSent,
             Move, NoReport
    <3> QED
      BY <2>9, <3>1, <3>2
         DEF FsmPart, FsmTypeOK, selVars, csrVars, ghostVars, MaxFails, AckSent, Move, NoGhost
  <2>10. CASE LeaveCcc /\ NoGhost /\ UNCHANGED descVars
    <3>1. StateTypeOK'
      BY <2>10, ToTyped DEF FsmPart, FsmTypeOK, StateTypeOK, FsmStates, LeaveCcc, Move
    <3>2. RequestTypeOK' /\ ReadTypeOK'
      BY <2>10
         DEF FsmPart, FsmTypeOK, RequestTypeOK, ReadTypeOK, ibiReqVars, readVars, LeaveCcc,
             Move, NoReport
    <3> QED
      BY <2>10, <3>1, <3>2
         DEF FsmPart, FsmTypeOK, selVars, csrVars, ghostVars, MaxFails, LeaveCcc, Move,
             NoGhost
  <2>11. CASE IbiByteSent(Desc!ByteLast) /\ Desc!ByteTaken /\ NoGhost
    <3>1. StateTypeOK'
      BY <2>11, ToTyped DEF FsmPart, FsmTypeOK, StateTypeOK, FsmStates, IbiByteSent, Move
    <3>2. RequestTypeOK' /\ ReadTypeOK'
      BY <2>11
         DEF FsmPart, FsmTypeOK, RequestTypeOK, ReadTypeOK, ibiReqVars, readVars,
             IbiByteSent, Move, NoReport
    <3> QED
      BY <2>11, <3>1, <3>2
         DEF FsmPart, FsmTypeOK, selVars, csrVars, ghostVars, MaxFails, IbiByteSent, Move,
             NoGhost
  <2>12. CASE IbiAborted /\ Desc!DataFlushed /\ NextIbi
    <3>1. StateTypeOK'
      BY <2>12, ToTyped DEF FsmPart, FsmTypeOK, StateTypeOK, FsmStates, IbiAborted, Move
    <3>2. RequestTypeOK' /\ ReadTypeOK'
      BY <2>12, ReportTyped
         DEF FsmPart, FsmTypeOK, RequestTypeOK, ReadTypeOK, ibiReqVars, readVars,
             IbiAborted, Move
    <3> QED
      BY <2>12, <3>1, <3>2
         DEF FsmPart, FsmTypeOK, selVars, csrVars, ghostVars, MaxFails, IbiAborted, Move,
             NextIbi
  <2> QED
    BY <1>4, <2>1, <2>2, <2>3, <2>4, <2>5, <2>6, <2>7, <2>8, <2>9, <2>10, <2>11, <2>12
       DEF Target
<1>5. CASE UNCHANGED vars
  BY <1>5, EverythingKept DEF vars
<1> QED
  BY <1>1, <1>2, <1>3, <1>4, <1>5 DEF Next

-----------------------------------------------------------------------------
(* The three invariants of the composition. *)

\* The retry counter keeps up with the failures of the IBI on offer, and an
\* address phase that is under way is one it allowed.
LEMMA RetriesStep ==
    ASSUME FsmPart, RetriesCounted, TryAllowed, [Next]_vars
    PROVE  RetriesCounted' /\ TryAllowed'
<1>1. CASE Firmware
  <2>1. CASE Desc!FwWrite /\ UNCHANGED fsmVars /\ NoGhost
    BY <2>1
       DEF RetriesCounted, TryAllowed, CanRetry, fsmVars, csrVars, ibiReqVars, ghostVars,
           NoGhost
  <2>2. CASE NotSending /\ Desc!QueueReset /\ UNCHANGED fsmVars /\ NoGhost
    BY <2>2
       DEF RetriesCounted, TryAllowed, CanRetry, fsmVars, csrVars, ibiReqVars, ghostVars,
           NoGhost
  <2>3. CASE SetIbiOn /\ UNCHANGED descVars /\ NoGhost
    BY <2>3
       DEF FsmPart, FsmTypeOK, RequestTypeOK, RetriesCounted, TryAllowed, CanRetry,
           csrVars, ibiReqVars, ghostVars, SetIbiOn, NoGhost
  <2>4. CASE /\ ~OneCycleArb
             /\ RetryCounterReset
             /\ fails' = 0 /\ gaveUp' = FALSE
             /\ UNCHANGED <<descVars, lost>>
    BY <2>4
       DEF FsmPart, FsmTypeOK, RequestTypeOK, RetriesCounted, TryAllowed, CanRetry,
           csrVars, ibiReqVars, ghostVars, RetryCounterReset
  <2> QED
    BY <1>1, <2>1, <2>2, <2>3, <2>4 DEF Firmware
<1>2. CASE Handler
  BY <1>2
     DEF RetriesCounted, TryAllowed, CanRetry, fsmVars, csrVars, ibiReqVars, ghostVars,
         Handler, NoGhost
<1>3. CASE Controller
  <2>1. CASE EndFrame
    BY <2>1
       DEF FsmPart, FsmTypeOK, RequestTypeOK, RetriesCounted, TryAllowed, CanRetry,
           csrVars, ibiReqVars, ghostVars, EndFrame, Stop, NoReport, NoGhost, To, Report
  <2>2. CASE LeaveBus
    BY <2>2
       DEF FsmPart, FsmTypeOK, RequestTypeOK, RetriesCounted, TryAllowed, CanRetry,
           csrVars, ibiReqVars, ghostVars, LeaveBus, BusAvailable
  <2>3. CASE HeaderArbLost /\ CountFailure(TRUE) /\ UNCHANGED descVars
    BY <2>3
       DEF FsmPart, FsmTypeOK, RequestTypeOK, RetriesCounted, TryAllowed, CanRetry,
           csrVars, ibiReqVars, ghostVars, HeaderArbLost, Move, CountFailure, To, Report
  <2>4. CASE \E h \in Headers : HeaderArbLostLate(h) /\ CountFailure(TRUE) /\ UNCHANGED descVars
    BY <2>4
       DEF FsmPart, FsmTypeOK, RequestTypeOK, RetriesCounted, TryAllowed, CanRetry,
           csrVars, ibiReqVars, ghostVars, HeaderArbLostLate, CountFailure, Report
  <2>5. CASE /\ Start(Desc!ByteValid)
             /\ IF ReportsExhausted(Desc!ByteValid) THEN GiveUp ELSE NoGhost
             /\ UNCHANGED descVars
    BY <2>5
       DEF FsmPart, FsmTypeOK, RequestTypeOK, RetriesCounted, TryAllowed, CanRetry,
           csrVars, ibiReqVars, ghostVars, Start, NoReport, GiveUp, NoGhost, To, Report
  <2>6. CASE RepeatedStart /\ NoGhost /\ UNCHANGED descVars
    BY <2>6
       DEF FsmPart, FsmTypeOK, RequestTypeOK, RetriesCounted, TryAllowed, CanRetry,
           csrVars, ibiReqVars, ghostVars, RepeatedStart, RestartTarget, NoReport, NoGhost,
           To, Report
  <2>7. CASE \E h \in Headers : FByteReceived(h) /\ NoGhost /\ UNCHANGED descVars
    BY <2>7
       DEF FsmPart, FsmTypeOK, RequestTypeOK, RetriesCounted, TryAllowed, CanRetry,
           csrVars, ibiReqVars, ghostVars, FByteReceived, Receive, NoReport, NoGhost, Report
  <2>8. CASE DriveAddrLost /\ CountFailure(TRUE) /\ UNCHANGED descVars
    BY <2>8
       DEF FsmPart, FsmTypeOK, RequestTypeOK, RetriesCounted, TryAllowed, CanRetry,
           csrVars, ibiReqVars, ghostVars, DriveAddrLost, Move, CountFailure, To, Report
  <2>9. CASE IbiNacked /\ CountFailure(FALSE) /\ UNCHANGED descVars
    BY <2>9
       DEF FsmPart, FsmTypeOK, RequestTypeOK, RetriesCounted, TryAllowed, CanRetry,
           csrVars, ibiReqVars, ghostVars, IbiNacked, Move, CountFailure, To, Report
  <2>10. CASE IbiAcked /\ NoGhost /\ UNCHANGED descVars
    BY <2>10
       DEF FsmPart, FsmTypeOK, RequestTypeOK, RetriesCounted, TryAllowed, CanRetry,
           csrVars, ibiReqVars, ghostVars, IbiAcked, Move, NoReport, NoGhost, To, Report
  <2>11. CASE CccReceived /\ NoGhost /\ UNCHANGED descVars
    BY <2>11
       DEF FsmPart, FsmTypeOK, RequestTypeOK, RetriesCounted, TryAllowed, CanRetry,
           csrVars, ibiReqVars, ghostVars, CccReceived, Move, NoReport, NoGhost, To, Report
  <2>12. CASE CccDone /\ NoGhost /\ UNCHANGED descVars
    BY <2>12
       DEF FsmPart, FsmTypeOK, RequestTypeOK, RetriesCounted, TryAllowed, CanRetry,
           csrVars, ibiReqVars, ghostVars, CccDone, Move, NoReport, NoGhost, To, Report
  <2>13. CASE CccEntersHdr /\ NoGhost /\ UNCHANGED descVars
    BY <2>13
       DEF FsmPart, FsmTypeOK, RequestTypeOK, RetriesCounted, TryAllowed, CanRetry,
           csrVars, ibiReqVars, ghostVars, CccEntersHdr, Move, NoReport, NoGhost, To, Report
  <2>14. CASE HdrExit /\ NoGhost /\ UNCHANGED descVars
    BY <2>14
       DEF FsmPart, FsmTypeOK, RequestTypeOK, RetriesCounted, TryAllowed, CanRetry,
           csrVars, ibiReqVars, ghostVars, HdrExit, Move, NoReport, NoGhost, To, Report
  <2> QED
    BY <1>3, <2>1, <2>2, <2>3, <2>4, <2>5, <2>6, <2>7, <2>8, <2>9, <2>10, <2>11, <2>12, <2>13, <2>14
       DEF Controller, LoseArbitration
<1>4. CASE Target
  <2>1. CASE InitiateIbi(Desc!ByteValid) /\ NoGhost /\ UNCHANGED descVars
    BY <2>1
       DEF FsmPart, FsmTypeOK, RequestTypeOK, RetriesCounted, TryAllowed, CanRetry,
           csrVars, ibiReqVars, ghostVars, InitiateIbi, NoReport, NoGhost, To, Report
  <2>2. CASE ReportExhausted(Desc!ByteValid) /\ GiveUp /\ UNCHANGED descVars
    BY <2>2
       DEF FsmPart, FsmTypeOK, RequestTypeOK, RetriesCounted, TryAllowed, CanRetry,
           csrVars, ibiReqVars, ghostVars, ReportExhausted, GiveUp, Report
  <2>3. CASE ArbNotTried /\ GiveUp /\ UNCHANGED descVars
    BY <2>3
       DEF FsmPart, FsmTypeOK, RequestTypeOK, RetriesCounted, TryAllowed, CanRetry,
           csrVars, ibiReqVars, ghostVars, ArbNotTried, Move, GiveUp, To, Report
  <2>4. CASE EndInhibit /\ UNCHANGED descVars
    BY <2>4
       DEF FsmPart, FsmTypeOK, RequestTypeOK, RetriesCounted, TryAllowed, CanRetry,
           csrVars, ibiReqVars, ghostVars, EndInhibit, ReleaseInhibit
  <2>5. CASE WinArbitration /\ UNCHANGED descVars
    BY <2>5
       DEF FsmPart, FsmTypeOK, RequestTypeOK, RetriesCounted, TryAllowed, CanRetry,
           csrVars, ibiReqVars, ghostVars, WinArbitration, IbiAddrSent, Move, NoReport, To,
           Report
  <2>6. CASE IbiContinued /\ NoGhost /\ UNCHANGED descVars
    BY <2>6
       DEF FsmPart, FsmTypeOK, RequestTypeOK, RetriesCounted, TryAllowed, CanRetry,
           csrVars, ibiReqVars, ghostVars, IbiContinued, Move, NoReport, NoGhost, To, Report
  <2>7. CASE IbiEnded /\ gaveUp' = FALSE /\ fails' = 0 /\ UNCHANGED <<descVars, lost>>
    BY <2>7
       DEF FsmPart, FsmTypeOK, RequestTypeOK, RetriesCounted, TryAllowed, CanRetry,
           csrVars, ibiReqVars, ghostVars, IbiEnded, Move, To, Report
  <2>8. CASE CheckFByte(FALSE) /\ NoGhost /\ UNCHANGED descVars
    BY <2>8
       DEF FsmPart, FsmTypeOK, RequestTypeOK, RetriesCounted, TryAllowed, CanRetry,
           csrVars, ibiReqVars, ghostVars, CheckFByte, Check, Verdict, NoReport, NoGhost,
           Report
  <2>9. CASE AckSent /\ NoGhost /\ UNCHANGED descVars
    BY <2>9
       DEF FsmPart, FsmTypeOK, RequestTypeOK, RetriesCounted, TryAllowed, CanRetry,
           csrVars, ibiReqVars, ghostVars, AckSent, Move, NoReport, NoGhost, To, Report
  <2>10. CASE LeaveCcc /\ NoGhost /\ UNCHANGED descVars
    BY <2>10
       DEF FsmPart, FsmTypeOK, RequestTypeOK, RetriesCounted, TryAllowed, CanRetry,
           csrVars, ibiReqVars, ghostVars, LeaveCcc, Move, NoReport, NoGhost, To, Report
  <2>11. CASE IbiByteSent(Desc!ByteLast) /\ Desc!ByteTaken /\ NoGhost
    BY <2>11
       DEF FsmPart, FsmTypeOK, RequestTypeOK, RetriesCounted, TryAllowed, CanRetry,
           csrVars, ibiReqVars, ghostVars, IbiByteSent, Move, NoReport, NoGhost, To, Report
  <2>12. CASE IbiAborted /\ Desc!DataFlushed /\ NextIbi
    BY <2>12
       DEF FsmPart, FsmTypeOK, RequestTypeOK, RetriesCounted, TryAllowed, CanRetry,
           csrVars, ibiReqVars, ghostVars, IbiAborted, Move, NextIbi, To, Report
  <2> QED
    BY <1>4, <2>1, <2>2, <2>3, <2>4, <2>5, <2>6, <2>7, <2>8, <2>9, <2>10, <2>11, <2>12
       DEF Target
<1>5. CASE UNCHANGED vars
  BY <1>5
     DEF RetriesCounted, TryAllowed, CanRetry, vars, fsmVars, csrVars, ibiReqVars, ghostVars
<1> QED
  BY <1>1, <1>2, <1>3, <1>4, <1>5 DEF Next

\* A loss of arbitration is noted by the inhibit machine and remembered until
\* the bus is available.
LEMMA LossStep ==
    ASSUME FsmPart, TryAllowed, LossRemembered, LossNoticed, [Next]_vars
    PROVE  LossRemembered' /\ LossNoticed'
<1>1. CASE Firmware
  <2>1. CASE Desc!FwWrite /\ UNCHANGED fsmVars /\ NoGhost
    BY <2>1
       DEF LossRemembered, LossNoticed, Arbitrating, CanRetry, fsmVars, csrVars,
           ibiReqVars, ghostVars, NoGhost
  <2>2. CASE NotSending /\ Desc!QueueReset /\ UNCHANGED fsmVars /\ NoGhost
    BY <2>2
       DEF LossRemembered, LossNoticed, Arbitrating, CanRetry, fsmVars, csrVars,
           ibiReqVars, ghostVars, NoGhost
  <2>3. CASE SetIbiOn /\ UNCHANGED descVars /\ NoGhost
    BY <2>3
       DEF FsmPart, FsmTypeOK, RequestTypeOK, TryAllowed, LossRemembered, LossNoticed,
           Arbitrating, CanRetry, csrVars, ibiReqVars, ghostVars, SetIbiOn, NoGhost
  <2>4. CASE /\ ~OneCycleArb
             /\ RetryCounterReset
             /\ fails' = 0 /\ gaveUp' = FALSE
             /\ UNCHANGED <<descVars, lost>>
    BY <2>4
       DEF FsmPart, FsmTypeOK, RequestTypeOK, TryAllowed, LossRemembered, LossNoticed,
           Arbitrating, CanRetry, csrVars, ibiReqVars, ghostVars, RetryCounterReset,
           OneCycleArb, Exhausted
  <2> QED
    BY <1>1, <2>1, <2>2, <2>3, <2>4 DEF Firmware
<1>2. CASE Handler
  BY <1>2
     DEF LossRemembered, LossNoticed, Arbitrating, CanRetry, fsmVars, csrVars, ibiReqVars,
         ghostVars, Handler, NoGhost
<1>3. CASE Controller
  <2>1. CASE EndFrame
    BY <2>1
       DEF FsmPart, FsmTypeOK, RequestTypeOK, TryAllowed, LossRemembered, LossNoticed,
           Arbitrating, CanRetry, csrVars, ibiReqVars, ghostVars, EndFrame, Stop, NoReport,
           NoGhost, To, Report, ControllerHasSda
  <2>2. CASE LeaveBus
    BY <2>2
       DEF FsmPart, FsmTypeOK, RequestTypeOK, TryAllowed, LossRemembered, LossNoticed,
           Arbitrating, CanRetry, csrVars, ibiReqVars, ghostVars, LeaveBus, BusAvailable
  <2>3. CASE HeaderArbLost /\ CountFailure(TRUE) /\ UNCHANGED descVars
    BY <2>3
       DEF FsmPart, FsmTypeOK, RequestTypeOK, TryAllowed, LossRemembered, LossNoticed,
           Arbitrating, CanRetry, csrVars, ibiReqVars, ghostVars, HeaderArbLost, Move,
           CountFailure, To, Report
  <2>4. CASE \E h \in Headers : HeaderArbLostLate(h) /\ CountFailure(TRUE) /\ UNCHANGED descVars
    BY <2>4
       DEF FsmPart, FsmTypeOK, RequestTypeOK, TryAllowed, LossRemembered, LossNoticed,
           Arbitrating, CanRetry, csrVars, ibiReqVars, ghostVars, HeaderArbLostLate,
           CountFailure, Report
  <2>5. CASE /\ Start(Desc!ByteValid)
             /\ IF ReportsExhausted(Desc!ByteValid) THEN GiveUp ELSE NoGhost
             /\ UNCHANGED descVars
    BY <2>5
       DEF FsmPart, FsmTypeOK, RequestTypeOK, TryAllowed, LossRemembered, LossNoticed,
           Arbitrating, CanRetry, csrVars, ibiReqVars, ghostVars, Start, NoReport, GiveUp,
           NoGhost, To, Report, IbiPending, ReportsExhausted
  <2>6. CASE RepeatedStart /\ NoGhost /\ UNCHANGED descVars
    BY <2>6
       DEF FsmPart, FsmTypeOK, RequestTypeOK, TryAllowed, LossRemembered, LossNoticed,
           Arbitrating, CanRetry, csrVars, ibiReqVars, ghostVars, RepeatedStart,
           RestartTarget, NoReport, NoGhost, To, Report, ControllerHasSda
  <2>7. CASE \E h \in Headers : FByteReceived(h) /\ NoGhost /\ UNCHANGED descVars
    BY <2>7
       DEF FsmPart, FsmTypeOK, RequestTypeOK, TryAllowed, LossRemembered, LossNoticed,
           Arbitrating, CanRetry, csrVars, ibiReqVars, ghostVars, FByteReceived, Receive,
           NoReport, NoGhost, Report
  <2>8. CASE DriveAddrLost /\ CountFailure(TRUE) /\ UNCHANGED descVars
    BY <2>8
       DEF FsmPart, FsmTypeOK, RequestTypeOK, TryAllowed, LossRemembered, LossNoticed,
           Arbitrating, CanRetry, csrVars, ibiReqVars, ghostVars, DriveAddrLost, Move,
           CountFailure, To, Report
  <2>9. CASE IbiNacked /\ CountFailure(FALSE) /\ UNCHANGED descVars
    BY <2>9
       DEF FsmPart, FsmTypeOK, RequestTypeOK, TryAllowed, LossRemembered, LossNoticed,
           Arbitrating, CanRetry, csrVars, ibiReqVars, ghostVars, IbiNacked, Move,
           CountFailure, To, Report
  <2>10. CASE IbiAcked /\ NoGhost /\ UNCHANGED descVars
    BY <2>10
       DEF FsmPart, FsmTypeOK, RequestTypeOK, TryAllowed, LossRemembered, LossNoticed,
           Arbitrating, CanRetry, csrVars, ibiReqVars, ghostVars, IbiAcked, Move, NoReport,
           NoGhost, To, Report
  <2>11. CASE CccReceived /\ NoGhost /\ UNCHANGED descVars
    BY <2>11
       DEF FsmPart, FsmTypeOK, RequestTypeOK, TryAllowed, LossRemembered, LossNoticed,
           Arbitrating, CanRetry, csrVars, ibiReqVars, ghostVars, CccReceived, Move,
           NoReport, NoGhost, To, Report
  <2>12. CASE CccDone /\ NoGhost /\ UNCHANGED descVars
    BY <2>12
       DEF FsmPart, FsmTypeOK, RequestTypeOK, TryAllowed, LossRemembered, LossNoticed,
           Arbitrating, CanRetry, csrVars, ibiReqVars, ghostVars, CccDone, Move, NoReport,
           NoGhost, To, Report
  <2>13. CASE CccEntersHdr /\ NoGhost /\ UNCHANGED descVars
    BY <2>13
       DEF FsmPart, FsmTypeOK, RequestTypeOK, TryAllowed, LossRemembered, LossNoticed,
           Arbitrating, CanRetry, csrVars, ibiReqVars, ghostVars, CccEntersHdr, Move,
           NoReport, NoGhost, To, Report
  <2>14. CASE HdrExit /\ NoGhost /\ UNCHANGED descVars
    BY <2>14
       DEF FsmPart, FsmTypeOK, RequestTypeOK, TryAllowed, LossRemembered, LossNoticed,
           Arbitrating, CanRetry, csrVars, ibiReqVars, ghostVars, HdrExit, Move, NoReport,
           NoGhost, To, Report
  <2> QED
    BY <1>3, <2>1, <2>2, <2>3, <2>4, <2>5, <2>6, <2>7, <2>8, <2>9, <2>10, <2>11, <2>12, <2>13, <2>14
       DEF Controller, LoseArbitration
<1>4. CASE Target
  <2>1. CASE InitiateIbi(Desc!ByteValid) /\ NoGhost /\ UNCHANGED descVars
    BY <2>1
       DEF FsmPart, FsmTypeOK, RequestTypeOK, TryAllowed, LossRemembered, LossNoticed,
           Arbitrating, CanRetry, csrVars, ibiReqVars, ghostVars, InitiateIbi, NoReport,
           NoGhost, To, Report
  <2>2. CASE ReportExhausted(Desc!ByteValid) /\ GiveUp /\ UNCHANGED descVars
    BY <2>2
       DEF FsmPart, FsmTypeOK, RequestTypeOK, TryAllowed, LossRemembered, LossNoticed,
           Arbitrating, CanRetry, csrVars, ibiReqVars, ghostVars, ReportExhausted, GiveUp,
           Report, ReportsExhausted
  <2>3. CASE ArbNotTried /\ GiveUp /\ UNCHANGED descVars
    BY <2>3
       DEF FsmPart, FsmTypeOK, RequestTypeOK, TryAllowed, LossRemembered, LossNoticed,
           Arbitrating, CanRetry, csrVars, ibiReqVars, ghostVars, ArbNotTried, Move,
           GiveUp, To, Report
  <2>4. CASE EndInhibit /\ UNCHANGED descVars
    BY <2>4
       DEF FsmPart, FsmTypeOK, RequestTypeOK, TryAllowed, LossRemembered, LossNoticed,
           Arbitrating, CanRetry, csrVars, ibiReqVars, ghostVars, EndInhibit, ReleaseInhibit
  <2>5. CASE WinArbitration /\ UNCHANGED descVars
    BY <2>5
       DEF FsmPart, FsmTypeOK, RequestTypeOK, TryAllowed, LossRemembered, LossNoticed,
           Arbitrating, CanRetry, csrVars, ibiReqVars, ghostVars, WinArbitration,
           IbiAddrSent, Move, NoReport, To, Report
  <2>6. CASE IbiContinued /\ NoGhost /\ UNCHANGED descVars
    BY <2>6
       DEF FsmPart, FsmTypeOK, RequestTypeOK, TryAllowed, LossRemembered, LossNoticed,
           Arbitrating, CanRetry, csrVars, ibiReqVars, ghostVars, IbiContinued, Move,
           NoReport, NoGhost, To, Report
  <2>7. CASE IbiEnded /\ gaveUp' = FALSE /\ fails' = 0 /\ UNCHANGED <<descVars, lost>>
    BY <2>7
       DEF FsmPart, FsmTypeOK, RequestTypeOK, TryAllowed, LossRemembered, LossNoticed,
           Arbitrating, CanRetry, csrVars, ibiReqVars, ghostVars, IbiEnded, Move, To, Report
  <2>8. CASE CheckFByte(FALSE) /\ NoGhost /\ UNCHANGED descVars
    BY <2>8
       DEF FsmPart, FsmTypeOK, RequestTypeOK, TryAllowed, LossRemembered, LossNoticed,
           Arbitrating, CanRetry, csrVars, ibiReqVars, ghostVars, CheckFByte, Check,
           Verdict, NoReport, NoGhost, Report
  <2>9. CASE AckSent /\ NoGhost /\ UNCHANGED descVars
    BY <2>9
       DEF FsmPart, FsmTypeOK, RequestTypeOK, TryAllowed, LossRemembered, LossNoticed,
           Arbitrating, CanRetry, csrVars, ibiReqVars, ghostVars, AckSent, Move, NoReport,
           NoGhost, To, Report
  <2>10. CASE LeaveCcc /\ NoGhost /\ UNCHANGED descVars
    BY <2>10
       DEF FsmPart, FsmTypeOK, RequestTypeOK, TryAllowed, LossRemembered, LossNoticed,
           Arbitrating, CanRetry, csrVars, ibiReqVars, ghostVars, LeaveCcc, Move, NoReport,
           NoGhost, To, Report
  <2>11. CASE IbiByteSent(Desc!ByteLast) /\ Desc!ByteTaken /\ NoGhost
    BY <2>11
       DEF FsmPart, FsmTypeOK, RequestTypeOK, TryAllowed, LossRemembered, LossNoticed,
           Arbitrating, CanRetry, csrVars, ibiReqVars, ghostVars, IbiByteSent, Move,
           NoReport, NoGhost, To, Report
  <2>12. CASE IbiAborted /\ Desc!DataFlushed /\ NextIbi
    BY <2>12
       DEF FsmPart, FsmTypeOK, RequestTypeOK, TryAllowed, LossRemembered, LossNoticed,
           Arbitrating, CanRetry, csrVars, ibiReqVars, ghostVars, IbiAborted, Move,
           NextIbi, To, Report
  <2> QED
    BY <1>4, <2>1, <2>2, <2>3, <2>4, <2>5, <2>6, <2>7, <2>8, <2>9, <2>10, <2>11, <2>12
       DEF Target
<1>5. CASE UNCHANGED vars
  BY <1>5
     DEF LossRemembered, LossNoticed, Arbitrating, CanRetry, vars, fsmVars, csrVars,
         ibiReqVars, ghostVars
<1> QED
  BY <1>1, <1>2, <1>3, <1>4, <1>5 DEF Next

\* The handler stays where the FSM believes it to be.
LEMMA InStepStep == ASSUME InStep, [Next]_vars PROVE InStep'
<1>1. CASE Firmware
  <2>1. CASE Desc!FwWrite /\ UNCHANGED fsmVars /\ NoGhost
    BY <2>1 DEF InStep, fsmVars, Desc!FwWrite
  <2>2. CASE NotSending /\ Desc!QueueReset /\ UNCHANGED fsmVars /\ NoGhost
    BY <2>2 DEF InStep, fsmVars, Desc!QueueReset, NotSending
  <2>3. CASE SetIbiOn /\ UNCHANGED descVars /\ NoGhost
    BY <2>3 DEF InStep, SetIbiOn, descVars
  <2>4. CASE /\ ~OneCycleArb
             /\ RetryCounterReset
             /\ fails' = 0 /\ gaveUp' = FALSE
             /\ UNCHANGED <<descVars, lost>>
    BY <2>4 DEF InStep, RetryCounterReset, descVars
  <2> QED
    BY <1>1, <2>1, <2>2, <2>3, <2>4 DEF Firmware
<1>2. CASE Handler
  BY <1>2
     DEF InStep, fsmVars, Handler, Desc!HandlerStep, Desc!LatchDescriptor,
         Desc!PayloadQueued, Desc!PopDescriptor, Desc!FlushDone, Desc!FlushWord
<1>3. CASE Controller
  <2>1. CASE EndFrame
    BY <2>1 DEF InStep, EndFrame, Stop, To, ControllerHasSda, descVars
  <2>2. CASE LeaveBus
    BY <2>2 DEF InStep, LeaveBus, BusAvailable, descVars
  <2>3. CASE HeaderArbLost /\ CountFailure(TRUE) /\ UNCHANGED descVars
    BY <2>3 DEF InStep, HeaderArbLost, Move, To, descVars
  <2>4. CASE \E h \in Headers : HeaderArbLostLate(h) /\ CountFailure(TRUE) /\ UNCHANGED descVars
    BY <2>4 DEF InStep, HeaderArbLostLate, descVars
  <2>5. CASE /\ Start(Desc!ByteValid)
             /\ IF ReportsExhausted(Desc!ByteValid) THEN GiveUp ELSE NoGhost
             /\ UNCHANGED descVars
    <3>1. state' = state
      BY <2>5 DEF Start, descVars
    <3>2. CASE fsm # "Idle"
      BY <2>5, <3>1, <3>2 DEF InStep, Start, To
    <3>3. CASE fsm = "Idle"
      <4>1. fsm' = "RxFByte" \/ (fsm' = "RxFByteArb" /\ Desc!ByteValid)
        BY <2>5, <3>3 DEF Start, To, IbiPending
      <4> QED
        BY <3>1, <3>3, <4>1 DEF InStep, Desc!ByteValid
    <3> QED
      BY <3>2, <3>3
  <2>6. CASE RepeatedStart /\ NoGhost /\ UNCHANGED descVars
    BY <2>6 DEF InStep, RepeatedStart, RestartTarget, To, ControllerHasSda, descVars
  <2>7. CASE \E h \in Headers : FByteReceived(h) /\ NoGhost /\ UNCHANGED descVars
    BY <2>7 DEF InStep, FByteReceived, Receive, descVars
  <2>8. CASE DriveAddrLost /\ CountFailure(TRUE) /\ UNCHANGED descVars
    BY <2>8 DEF InStep, DriveAddrLost, Move, To, descVars
  <2>9. CASE IbiNacked /\ CountFailure(FALSE) /\ UNCHANGED descVars
    BY <2>9 DEF InStep, IbiNacked, Move, To, descVars
  <2>10. CASE IbiAcked /\ NoGhost /\ UNCHANGED descVars
    BY <2>10 DEF InStep, IbiAcked, Move, To, descVars
  <2>11. CASE CccReceived /\ NoGhost /\ UNCHANGED descVars
    BY <2>11 DEF InStep, CccReceived, Move, To, descVars
  <2>12. CASE CccDone /\ NoGhost /\ UNCHANGED descVars
    BY <2>12 DEF InStep, CccDone, Move, To, descVars
  <2>13. CASE CccEntersHdr /\ NoGhost /\ UNCHANGED descVars
    BY <2>13 DEF InStep, CccEntersHdr, Move, To, descVars
  <2>14. CASE HdrExit /\ NoGhost /\ UNCHANGED descVars
    BY <2>14 DEF InStep, HdrExit, Move, To, descVars
  <2> QED
    BY <1>3, <2>1, <2>2, <2>3, <2>4, <2>5, <2>6, <2>7, <2>8, <2>9, <2>10, <2>11, <2>12, <2>13, <2>14
       DEF Controller, LoseArbitration
<1>4. CASE Target
  <2>1. CASE InitiateIbi(Desc!ByteValid) /\ NoGhost /\ UNCHANGED descVars
    BY <2>1 DEF InStep, InitiateIbi, To, IbiPending, Desc!ByteValid, descVars
  <2>2. CASE ReportExhausted(Desc!ByteValid) /\ GiveUp /\ UNCHANGED descVars
    BY <2>2 DEF InStep, ReportExhausted, descVars
  <2>3. CASE ArbNotTried /\ GiveUp /\ UNCHANGED descVars
    BY <2>3 DEF InStep, ArbNotTried, Move, To, descVars
  <2>4. CASE EndInhibit /\ UNCHANGED descVars
    BY <2>4 DEF InStep, EndInhibit, ReleaseInhibit, descVars
  <2>5. CASE WinArbitration /\ UNCHANGED descVars
    BY <2>5 DEF InStep, WinArbitration, IbiAddrSent, Move, To, descVars
  <2>6. CASE IbiContinued /\ NoGhost /\ UNCHANGED descVars
    BY <2>6 DEF InStep, IbiContinued, Move, To, descVars
  <2>7. CASE IbiEnded /\ gaveUp' = FALSE /\ fails' = 0 /\ UNCHANGED <<descVars, lost>>
    BY <2>7 DEF InStep, IbiEnded, Move, To, descVars
  <2>8. CASE CheckFByte(FALSE) /\ NoGhost /\ UNCHANGED descVars
    BY <2>8 DEF InStep, CheckFByte, Check, Verdict, descVars
  <2>9. CASE AckSent /\ NoGhost /\ UNCHANGED descVars
    BY <2>9 DEF InStep, AckSent, Move, To, descVars
  <2>10. CASE LeaveCcc /\ NoGhost /\ UNCHANGED descVars
    BY <2>10 DEF InStep, LeaveCcc, Move, To, descVars
  <2>11. CASE IbiByteSent(Desc!ByteLast) /\ Desc!ByteTaken /\ NoGhost
    BY <2>11
       DEF InStep, IbiByteSent, Move, To, Desc!ByteLast, Desc!ByteTaken, Desc!MdbTaken,
           Desc!DataTaken, Desc!LastDataTaken
  <2>12. CASE IbiAborted /\ Desc!DataFlushed /\ NextIbi
    BY <2>12 DEF InStep, IbiAborted, Move, To, Desc!DataFlushed
  <2> QED
    BY <1>4, <2>1, <2>2, <2>3, <2>4, <2>5, <2>6, <2>7, <2>8, <2>9, <2>10, <2>11, <2>12
       DEF Target
<1>5. CASE UNCHANGED vars
  BY <1>5 DEF InStep, vars, fsmVars, descVars
<1> QED
  BY <1>1, <1>2, <1>3, <1>4, <1>5 DEF Next

-----------------------------------------------------------------------------
(* The invariant and what it implies. *)

\* Inductive holds initially.
LEMMA InductiveInit == Init => Inductive
<1> SUFFICES ASSUME Init PROVE Inductive
  OBVIOUS
<1>1. FsmPart
  <2>1. fsm \in FsmStates /\ header \in AllHeaders \cup {"none"} /\ bus = "available"
    BY DEF Init, FsmInit, FsmStates
  <2>2. /\ xfer \in BOOLEAN /\ parityErr \in BOOLEAN /\ overflow \in BOOLEAN /\ rxValid \in BOOLEAN
        /\ virtSel \in BOOLEAN /\ ibiOn \in BOOLEAN /\ lost \in BOOLEAN /\ gaveUp \in BOOLEAN
        /\ prLast \in BOOLEAN /\ prUnderrun \in BOOLEAN
    BY Zenon DEF Init, FsmInit
  <2>3. /\ retryNum \in 0..7 /\ retryCnt \in 0..7 /\ prWait \in 0..7 /\ fails \in 0..MaxFails
        /\ inhibit \in {"None", "ArbLost", "Retry"}
    BY RetryNumsAssumption DEF Init, FsmInit, MaxFails
  <2> QED
    BY <2>1, <2>2, <2>3 DEF FsmPart, FsmTypeOK, StateTypeOK, RequestTypeOK, ReadTypeOK
<1>2. RetriesCounted /\ TryAllowed
  BY <1>1 DEF Init, FsmInit, FsmPart, FsmTypeOK, RetriesCounted, TryAllowed
<1>3. LossRemembered /\ LossNoticed
  BY DEF Init, FsmInit, LossRemembered, LossNoticed, Arbitrating
<1>4. InStep
  BY DEF Init, FsmInit, Desc!Init, InStep
<1> QED
  BY <1>1, <1>2, <1>3, <1>4 DEF Inductive

\* Inductive holds in every reachable state.
THEOREM InvariantHolds == Spec => []Inductive
<1>1. Inductive /\ [Next]_vars => Inductive'
  BY TypesStep, RetriesStep, LossStep, InStepStep DEF Inductive
<1> QED
  BY InductiveInit, <1>1, PTL DEF Spec

\* An IBI is not tried more often than IBI_RETRY_NUM allows: the counter has
\* counted every failure, and it never passes the limit by more than one.
THEOREM NeverBeyondBudget == Spec => []WithinBudget
<1>1. Inductive => WithinBudget
  BY
     DEF Inductive, FsmPart, FsmTypeOK, RequestTypeOK, RetriesCounted, WithinBudget,
         Budget, MaxFails
<1> QED
  BY InvariantHolds, <1>1, PTL

\* A target that lost the arbitration keeps out of the next one until the bus
\* has been available.
THEOREM OutUntilAvailable == Spec => []NoRearbitration
<1>1. Inductive => NoRearbitration
  BY DEF Inductive, LossRemembered, NoRearbitration
<1> QED
  BY InvariantHolds, <1>1, PTL

-----------------------------------------------------------------------------
(* The target FSM is an environment the descriptor handler is written for:  *)
(* what was proved of the handler holds of it in the composition.           *)

DP == INSTANCE DescriptorIbi_proofs

\* The assumption of DescriptorIbi on the payloads, as its theorems need it.
LEMMA Fits == \A n \in Payloads : DP!WordsFor(n) < Depth
  BY FitAssumption DEF DP!WordsFor, Desc!WordsFor

\* Every step of the composition is a step of the handler or leaves it alone.
LEMMA HandlerSteps == ASSUME [Next]_vars PROVE [Desc!Next]_(Desc!ibiVars)
<1>1. CASE Firmware
  BY <1>1 DEF Firmware, Desc!Next, Desc!ibiVars, descVars
<1>2. CASE Handler
  BY <1>2 DEF Handler, Desc!Next
<1>3. CASE Controller
  BY <1>3 DEF Controller, EndFrame, LeaveBus, LoseArbitration, Desc!ibiVars, descVars
<1>4. CASE Target
  BY <1>4 DEF Target, EndInhibit, WinArbitration, Desc!Next, Desc!ibiVars, descVars
<1>5. CASE UNCHANGED vars
  BY <1>5 DEF vars, descVars, Desc!ibiVars
<1> QED
  BY <1>1, <1>2, <1>3, <1>4, <1>5 DEF Next

\* The two instances of the handler are one.
LEMMA SameHandler ==
    /\ Desc!Init => DP!Init
    /\ [Desc!Next]_(Desc!ibiVars) => [DP!Next]_(DP!ibiVars)
<1>1. Desc!Init => DP!Init
  BY DEF Desc!Init, DP!Init
<1>2. ASSUME Desc!FwWrite PROVE DP!FwWrite
  BY <1>2
     DEF Desc!FwWrite, DP!FwWrite, Desc!NextWords, DP!NextWords, Desc!WordsFor, DP!WordsFor
<1>3. ASSUME Desc!QueueReset PROVE DP!QueueReset
  BY <1>3 DEF Desc!QueueReset, DP!QueueReset
<1>4. ASSUME Desc!HandlerStep PROVE DP!HandlerStep
  BY <1>4
     DEF Desc!HandlerStep, DP!HandlerStep, Desc!LatchDescriptor, DP!LatchDescriptor,
         Desc!PayloadQueued, DP!PayloadQueued, Desc!PopDescriptor, DP!PopDescriptor,
         Desc!FlushDone, DP!FlushDone, Desc!FlushWord, DP!FlushWord,
         Desc!Pop, DP!Pop, Desc!Keep, DP!Keep, Desc!WordsFor, DP!WordsFor,
         Desc!LastWordOfAll, DP!LastWordOfAll
<1>5. ASSUME Desc!ByteTaken PROVE DP!ByteTaken
  BY <1>5
    
        DEF Desc!ByteTaken, DP!ByteTaken, Desc!MdbTaken, DP!MdbTaken, Desc!DataTaken,
            DP!DataTaken,
         Desc!LastDataTaken, DP!LastDataTaken, Desc!Pop, DP!Pop, Desc!Keep, DP!Keep,
         Desc!NoPayload, DP!NoPayload
<1>6. ASSUME Desc!DataFlushed PROVE DP!DataFlushed
  BY <1>6
    
        DEF Desc!DataFlushed, DP!DataFlushed, Desc!Pop, DP!Pop, Desc!LastWordOfAll,
            DP!LastWordOfAll
<1>7. ASSUME UNCHANGED Desc!ibiVars PROVE UNCHANGED DP!ibiVars
  BY <1>7 DEF Desc!ibiVars, DP!ibiVars
<1> QED
  BY <1>1, <1>2, <1>3, <1>4, <1>5, <1>6, <1>7 DEF Desc!Next, DP!Next

\* The composition implements the handler in the least restrictive environment
\* it is written for: the target FSM takes bytes and aborts only where the
\* handler expects it.
LEMMA HandlerRefined == Spec => DP!Spec
<1>1. Init => DP!Init
  BY SameHandler DEF Init
<1>2. [Next]_vars => [DP!Next]_(DP!ibiVars)
  BY HandlerSteps, SameHandler
<1> QED
  BY <1>1, <1>2, PTL DEF Spec, DP!Spec

\* Types of the composition, the queue and the handler included.
THEOREM TypeCorrect == Spec => []TypeOK
<1>1. Spec => []DP!TypeOK
  BY DepthAssumption, LowBytesAssumption, PayloadsAssumption, Fits, HandlerRefined,
     DP!TypeCorrect, PTL
<1>2. Inductive /\ DP!TypeOK => TypeOK
  BY DEF Inductive, FsmPart, TypeOK, Desc!TypeOK, DP!TypeOK, Desc!Word, DP!Word,
         Desc!States, DP!States
<1> QED
  BY InvariantHolds, <1>1, <1>2, PTL

\* The handler is where the FSM believes it to be, and its queue is not empty
\* when the FSM shifts out a byte without asking whether one is valid, for
\* payloads a flush drains.
THEOREM HandlerInStep ==
    ASSUME DP!Drained
    PROVE  Spec => []HandlerFollowsFsm
<1>1. Spec => []DP!NeverRunsDry
  BY DepthAssumption, LowBytesAssumption, PayloadsAssumption, Fits, HandlerRefined,
     DP!QueueNeverRunsDry, PTL
<1>2. Inductive /\ DP!NeverRunsDry => HandlerFollowsFsm
  BY DEF Inductive, InStep, DP!NeverRunsDry, HandlerFollowsFsm, Desc!ByteValid
<1> QED
  BY InvariantHolds, <1>1, <1>2, PTL

-----------------------------------------------------------------------------
(* TargetIbi implements IbiService, for every limit, every payload and      *)
(* every depth of the queue: one lemma for what leaves the service alone,   *)
(* one for each actor, and in it one step per action, saying which step of  *)
(* the service it is.  The inductive invariant enters where the service has *)
(* a guard the hardware has not: a try must be within the limit             *)
(* (RetriesCounted) and free of a lost arbitration (LossRemembered), and    *)
(* what is tried must be on offer (InStep).                                 *)

\* The states in which the target has something to do with an IBI.
IbiStates ==
    {"IbiDriveAddr", "IbiReadAck", "RxFByteArb", "IbiSendData", "IbiTbitCont", "IbiTbitEnd"}

\* What the service sees of a step that keeps out of these states is nothing.
LEMMA Elsewhere ==
    ASSUME fsm \notin IbiStates, fsm' \notin IbiStates,
           UNCHANGED <<state, retryNum, ghostVars>>
    PROVE  UNCHANGED Service!serviceVars
  BY DEF IbiStates, Service!serviceVars, ServicePhase, ghostVars

\* Nor does it see a step that keeps the state of both machines and the count.
LEMMA SameView ==
    ASSUME UNCHANGED <<fsm, state, retryNum, retryCnt, ghostVars>>
    PROVE  UNCHANGED Service!serviceVars
  BY DEF Service!serviceVars, ServicePhase, CanRetry, ghostVars

\* Firmware withdraws an IBI with its queue and rearms it with the counter.
LEMMA FirmwareServes ==
    ASSUME Inductive, Firmware PROVE [Service!Next]_(Service!serviceVars)
<1>1. CASE Desc!FwWrite /\ UNCHANGED fsmVars /\ NoGhost
  BY <1>1, SameView
     DEF Desc!FwWrite, fsmVars, csrVars, ibiReqVars, NoGhost
<1>2. CASE NotSending /\ Desc!QueueReset /\ UNCHANGED fsmVars /\ NoGhost
  <2>1. /\ ServicePhase \in {"away", "closing"}
        /\ UNCHANGED <<ServicePhase, retryNum, fails, lost, gaveUp>>
        /\ state' = "Idle"
    BY <1>2
       DEF NotSending, Desc!QueueReset, fsmVars, csrVars, ibiReqVars, NoGhost, ghostVars,
           ServicePhase, CanRetry
  <2>2. CASE state \in {"WriteMdb", "WriteData"}
    BY <2>1, <2>2 DEF Service!Next, Service!Withdraw
  <2>3. CASE state \notin {"WriteMdb", "WriteData"}
    BY <2>1, <2>3 DEF Service!serviceVars
  <2> QED
    BY <2>2, <2>3
<1>3. CASE SetIbiOn /\ UNCHANGED descVars /\ NoGhost
  BY <1>3, SameView DEF SetIbiOn, descVars, ibiReqVars, NoGhost
<1>4. CASE /\ ~OneCycleArb
           /\ RetryCounterReset
           /\ fails' = 0 /\ gaveUp' = FALSE
           /\ UNCHANGED <<descVars, lost>>
  <2>1. UNCHANGED <<ServicePhase, state, retryNum, lost>>
    BY <1>4
       DEF Inductive, FsmPart, FsmTypeOK, OneCycleArb, Exhausted, RetryCounterReset, CanRetry,
           ServicePhase, descVars, csrVars
  <2> QED
    BY <1>4, <2>1 DEF Service!Next, Service!Rearm
<1> QED
  BY <1>1, <1>2, <1>3, <1>4 DEF Firmware

\* The handler offers the next IBI when it has popped its descriptor.
LEMMA HandlerServes ==
    ASSUME Inductive, Handler PROVE [Service!Next]_(Service!serviceVars)
<1>1. UNCHANGED <<ServicePhase, fsm, retryNum, fails, lost, gaveUp>>
  BY DEF Handler, fsmVars, csrVars, ibiReqVars, NoGhost, ghostVars, ServicePhase, CanRetry
<1>2. CASE Desc!PopDescriptor
  <2>1. state = "DescPop" /\ state' = "WriteMdb"
    BY <1>2 DEF Desc!PopDescriptor
  <2>2. ServicePhase \in {"away", "closing"}
    BY <2>1 DEF Inductive, InStep, ServicePhase
  <2> QED
    BY <1>1, <2>1, <2>2 DEF Service!Next, Service!Offer
<1>3. CASE Desc!LatchDescriptor \/ Desc!PayloadQueued \/ Desc!FlushDone \/ Desc!FlushWord
  <2>1. state \notin {"WriteMdb", "WriteData"} /\ state' \notin {"WriteMdb", "WriteData"}
    BY <1>3 DEF Desc!LatchDescriptor, Desc!PayloadQueued, Desc!FlushDone, Desc!FlushWord
  <2> QED
    BY <1>1, <2>1 DEF Service!serviceVars
<1> QED
  BY <1>2, <1>3 DEF Handler, Desc!HandlerStep

\* A failed address phase is a failure the service counts too.
LEMMA FailureServes ==
    ASSUME Inductive, ServicePhase = "trying", ServicePhase' = "away",
           UNCHANGED <<state, retryNum>>, NEW arb \in BOOLEAN, CountFailure(arb),
           retryNum < 7 => fails <= retryNum
    PROVE  Service!Fail
<1>1. fails' = IF retryNum = 7 THEN fails ELSE fails + 1
  BY DEF CountFailure, Inductive, FsmPart, FsmTypeOK, MaxFails
<1>2. lost' \in {lost, TRUE}
  BY DEF CountFailure, Inductive, FsmPart
<1> QED
  BY <1>1, <1>2 DEF Service!Fail, Service!Forever, CountFailure

\* The controller refuses, wins or breaks off what the target tries.
LEMMA ControllerServes ==
    ASSUME Inductive, Controller PROVE [Service!Next]_(Service!serviceVars)
<1> USE DEF Inductive
<1>1. CASE EndFrame
  <2>1. UNCHANGED <<state, retryNum, ghostVars>> /\ fsm' \notin IbiStates \cup {"RxFByteArb"}
    BY <1>1 DEF EndFrame, Stop, To, NoGhost, IbiStates, ControllerHasSda, csrVars, descVars
  <2>2. CASE fsm = "RxFByteArb" /\ CanRetry
    BY <2>1, <2>2
       DEF Service!Next, Service!BreakOff, ServicePhase, IbiStates, ghostVars
  <2>3. CASE ~(fsm = "RxFByteArb" /\ CanRetry)
    <3>1. ServicePhase = "away" /\ ServicePhase' = "away"
      BY <1>1, <2>1, <2>3 DEF EndFrame, Stop, ServicePhase, IbiStates, ControllerHasSda
    <3> QED
      BY <2>1, <3>1 DEF Service!serviceVars, ghostVars
  <2> QED
    BY <2>2, <2>3
<1>2. CASE LeaveBus
  <2>1. UNCHANGED <<ServicePhase, state, retryNum, fails, gaveUp>> /\ lost' = FALSE
    BY <1>2 DEF LeaveBus, BusAvailable, ServicePhase, CanRetry, csrVars, ibiReqVars, descVars
  <2> QED
    BY <2>1 DEF Service!Next, Service!BusFree
<1>3. CASE LoseArbitration
  <2>1. /\ fsm = "RxFByteArb" /\ CanRetry /\ fsm' \in {"RxFByte", "CheckFByte"}
        /\ UNCHANGED <<state, retryNum>> /\ CountFailure(TRUE)
    BY <1>3 DEF LoseArbitration, HeaderArbLost, HeaderArbLostLate, Move, To, csrVars, descVars
  <2>2. ServicePhase = "trying" /\ ServicePhase' = "away"
    BY <2>1 DEF ServicePhase
  <2>3. retryNum < 7 => fails <= retryNum
    BY <2>1 DEF CanRetry, RetriesCounted, FsmPart, FsmTypeOK, RequestTypeOK, MaxFails
  <2> QED
    BY <2>1, <2>2, <2>3, FailureServes DEF Service!Next
<1>4. CASE /\ Start(Desc!ByteValid)
           /\ IF ReportsExhausted(Desc!ByteValid) THEN GiveUp ELSE NoGhost
           /\ UNCHANGED descVars
  <2>1. UNCHANGED <<state, retryNum, fails, lost>>
    BY <1>4 DEF Start, GiveUp, NoGhost, ghostVars, csrVars, descVars
  <2>2. CASE ReportsExhausted(Desc!ByteValid)
    <3>1. fsm = "Idle" /\ ~CanRetry /\ Desc!ByteValid /\ gaveUp' = TRUE
      BY <1>4, <2>2 DEF ReportsExhausted, IbiPending, GiveUp
    <3>2. ~CanRetry'
      BY <1>4, <2>2, <3>1
         DEF Start, Report, CanRetry, FsmPart, FsmTypeOK, RequestTypeOK, csrVars
    <3>3. ServicePhase = "away" /\ ServicePhase' = "away"
      BY <1>4, <3>1, <3>2 DEF Start, To, ServicePhase
    <3>4. state \in {"WriteMdb", "WriteData"} /\ retryNum # 7
      BY <3>1 DEF Desc!ByteValid, CanRetry
    <3> QED
      BY <2>1, <3>1, <3>3, <3>4 DEF Service!Next, Service!GiveUp, Service!Forever
  <2>3. CASE ~ReportsExhausted(Desc!ByteValid)
    <3>1. gaveUp' = gaveUp /\ UNCHANGED retryCnt
      BY <1>4, <2>3 DEF NoGhost, Start, NoReport, ghostVars, ibiReqVars
    <3>2. CASE fsm = "Idle" /\ IbiPending(Desc!ByteValid) /\ inhibit = "None"
      <4>1. CanRetry /\ fsm' = "RxFByteArb" /\ Desc!ByteValid
        BY <1>4, <2>3, <3>2 DEF ReportsExhausted, Start, To, IbiPending
      <4>2. CanRetry'
        BY <2>1, <3>1, <4>1 DEF CanRetry
      <4>3. ServicePhase = "away" /\ ServicePhase' = "trying"
        BY <3>2, <4>1, <4>2 DEF ServicePhase
      <4>4. state \in {"WriteMdb", "WriteData"}
        BY <4>1 DEF Desc!ByteValid
      <4>5. ~lost /\ (retryNum = 7 \/ fails <= retryNum)
        BY <3>2, <4>1
           DEF LossRemembered, RetriesCounted, CanRetry, FsmPart, FsmTypeOK, RequestTypeOK,
               MaxFails
      <4> QED
        BY <2>1, <3>1, <4>3, <4>4, <4>5 DEF Service!Next, Service!Try, Service!Forever
    <3>3. CASE ~(fsm = "Idle" /\ IbiPending(Desc!ByteValid) /\ inhibit = "None")
      <4>1. CASE fsm = "Idle"
        BY <1>4, <2>1, <3>1, <3>3, <4>1, Elsewhere DEF Start, To, IbiStates, ghostVars
      <4>2. CASE fsm # "Idle"
        BY <1>4, <2>1, <3>1, <4>2, SameView DEF Start, To, ghostVars
      <4> QED
        BY <4>1, <4>2
    <3> QED
      BY <3>2, <3>3
  <2> QED
    BY <2>2, <2>3
<1>5. CASE RepeatedStart /\ NoGhost /\ UNCHANGED descVars
  BY <1>5, Elsewhere
     DEF RepeatedStart, RestartTarget, ControllerHasSda, To, NoGhost, IbiStates, csrVars,
         descVars
<1>6. CASE \E h \in Headers : FByteReceived(h) /\ NoGhost /\ UNCHANGED descVars
  BY <1>6, Elsewhere DEF FByteReceived, Receive, NoGhost, IbiStates, csrVars, descVars
<1>7. CASE \/ DriveAddrLost /\ CountFailure(TRUE) /\ UNCHANGED descVars
           \/ IbiNacked /\ CountFailure(FALSE) /\ UNCHANGED descVars
  <2>1. /\ fsm \in {"IbiDriveAddr", "IbiReadAck"} /\ fsm' = "WaitRestart"
        /\ UNCHANGED <<state, retryNum>>
    BY <1>7 DEF DriveAddrLost, IbiNacked, Move, To, csrVars, descVars
  <2>2. ServicePhase = "trying" /\ ServicePhase' = "away"
    BY <2>1 DEF ServicePhase
  <2>3. retryNum < 7 => fails <= retryNum
    BY <2>1 DEF TryAllowed, CanRetry, RetriesCounted, FsmPart, FsmTypeOK, RequestTypeOK, MaxFails
  <2> QED
    BY <1>7, <2>1, <2>2, <2>3, FailureServes DEF Service!Next
<1>8. CASE IbiAcked /\ NoGhost /\ UNCHANGED descVars
  <2>1. ServicePhase = "trying" /\ ServicePhase' = "sending" /\ UNCHANGED <<state, retryNum, ghostVars>>
    BY <1>8 DEF IbiAcked, Move, To, NoGhost, ServicePhase, csrVars, descVars
  <2> QED
    BY <2>1 DEF Service!Next, Service!Accept, ghostVars
<1>9. CASE /\ CccReceived \/ CccDone \/ CccEntersHdr \/ HdrExit
           /\ NoGhost /\ UNCHANGED descVars
  BY <1>9, Elsewhere
     DEF CccReceived, CccDone, CccEntersHdr, HdrExit, Move, To, NoGhost, IbiStates, csrVars,
         descVars
<1> QED
  BY <1>1, <1>2, <1>3, <1>4, <1>5, <1>6, <1>7, <1>8, <1>9 DEF Controller

\* The target tries, sends, and reports.
LEMMA TargetServes ==
    ASSUME Inductive, Target PROVE [Service!Next]_(Service!serviceVars)
<1> USE DEF Inductive
<1>1. CASE InitiateIbi(Desc!ByteValid) /\ NoGhost /\ UNCHANGED descVars
  <2>1. /\ fsm = "Idle" /\ fsm' = "IbiDriveAddr" /\ bus = "available" /\ CanRetry
        /\ state \in {"WriteMdb", "WriteData"}
        /\ UNCHANGED <<state, retryNum, ghostVars>>
    BY <1>1 DEF InitiateIbi, IbiPending, Desc!ByteValid, To, NoGhost, csrVars, descVars
  <2>2. ServicePhase = "away" /\ ServicePhase' = "trying"
    BY <2>1 DEF ServicePhase
  <2>3. ~lost /\ (retryNum = 7 \/ fails <= retryNum)
    BY <2>1
       DEF LossRemembered, RetriesCounted, CanRetry, FsmPart, FsmTypeOK, RequestTypeOK, MaxFails
  <2> QED
    BY <2>1, <2>2, <2>3 DEF Service!Next, Service!Try, Service!Forever, ghostVars
<1>2. CASE \/ ReportExhausted(Desc!ByteValid) /\ GiveUp /\ UNCHANGED descVars
           \/ ArbNotTried /\ GiveUp /\ UNCHANGED descVars
  <2>1. /\ ~CanRetry /\ state \in {"WriteMdb", "WriteData"}
        /\ fsm \in {"Idle", "RxFByteArb"} /\ fsm' \in {"Idle", "RxFByte"}
        /\ UNCHANGED <<state, retryNum, fails, lost>> /\ gaveUp' = TRUE
    BY <1>2
       DEF ReportExhausted, ReportsExhausted, IbiPending, ArbNotTried, Desc!ByteValid, InStep,
           GiveUp, Move, To, csrVars, descVars
  <2>2. ServicePhase = "away" /\ ServicePhase' = "away" /\ retryNum # 7
    BY <2>1 DEF ServicePhase, CanRetry
  <2> QED
    BY <2>1, <2>2 DEF Service!Next, Service!GiveUp, Service!Forever
<1>3. CASE EndInhibit /\ UNCHANGED descVars
  BY <1>3, SameView DEF EndInhibit, ReleaseInhibit, csrVars, descVars
<1>4. CASE WinArbitration /\ UNCHANGED descVars
  <2>1. ServicePhase = "trying" /\ ServicePhase' = "trying" /\ UNCHANGED <<state, retryNum, ghostVars>>
    BY <1>4
       DEF WinArbitration, IbiAddrSent, Move, To, ServicePhase, csrVars, descVars, ghostVars
  <2> QED
    BY <2>1 DEF Service!serviceVars, ghostVars
<1>5. CASE IbiContinued /\ NoGhost /\ UNCHANGED descVars
  <2>1. ServicePhase = "sending" /\ ServicePhase' = "sending" /\ UNCHANGED <<state, retryNum, ghostVars>>
    BY <1>5 DEF IbiContinued, Move, To, NoGhost, ServicePhase, csrVars, descVars
  <2> QED
    BY <2>1 DEF Service!serviceVars, ghostVars
<1>6. CASE IbiEnded /\ gaveUp' = FALSE /\ fails' = 0 /\ UNCHANGED <<descVars, lost>>
  <2>1. ServicePhase = "closing" /\ ServicePhase' = "away" /\ UNCHANGED <<state, retryNum>>
    BY <1>6 DEF IbiEnded, Move, To, ServicePhase, csrVars, descVars
  <2> QED
    BY <1>6, <2>1 DEF Service!Next, Service!ReportSuccess
<1>7. CASE CheckFByte(FALSE) /\ NoGhost /\ UNCHANGED descVars
  BY <1>7, Elsewhere DEF CheckFByte, Check, Verdict, NoGhost, IbiStates, csrVars, descVars
<1>8. CASE (AckSent \/ LeaveCcc) /\ NoGhost /\ UNCHANGED descVars
  BY <1>8, Elsewhere
     DEF AckSent, LeaveCcc, Move, To, NoGhost, IbiStates, csrVars, descVars
<1>9. CASE IbiByteSent(Desc!ByteLast) /\ Desc!ByteTaken /\ NoGhost
  <2>1. UNCHANGED <<retryNum, ghostVars>> /\ ServicePhase = "sending"
    BY <1>9 DEF IbiByteSent, Move, NoGhost, ServicePhase, csrVars
  <2>2. CASE Desc!ByteLast
    <3>1. ServicePhase' = "closing"
      BY <1>9, <2>2 DEF IbiByteSent, Move, To, ServicePhase
    <3>2. state' = "Idle"
      BY <1>9, <2>2
         DEF Desc!ByteLast, Desc!ByteTaken, Desc!MdbTaken, Desc!DataTaken, Desc!LastDataTaken
    <3> QED
      BY <2>1, <3>1, <3>2 DEF Service!Next, Service!Complete, ghostVars
  <2>3. CASE ~Desc!ByteLast
    <3>1. ServicePhase' = "sending"
      BY <1>9, <2>3 DEF IbiByteSent, Move, To, ServicePhase
    <3>2. {state, state'} \subseteq {"WriteMdb", "WriteData"}
      BY <1>9, <2>3
         DEF Desc!ByteLast, Desc!ByteTaken, Desc!MdbTaken, Desc!DataTaken, Desc!LastDataTaken
    <3> QED
      BY <2>1, <3>1, <3>2 DEF Service!serviceVars, ghostVars
  <2> QED
    BY <2>2, <2>3
<1>10. CASE IbiAborted /\ Desc!DataFlushed /\ NextIbi
  <2>1. ServicePhase = "sending" /\ ServicePhase' = "away" /\ UNCHANGED retryNum
    BY <1>10 DEF IbiAborted, Move, To, ServicePhase, csrVars
  <2>2. state' \in {"Idle", "Flush"}
    BY <1>10 DEF Desc!DataFlushed
  <2> QED
    BY <1>10, <2>1, <2>2 DEF Service!Next, Service!ReportPartial, NextIbi
<1> QED
  BY <1>1, <1>2, <1>3, <1>4, <1>5, <1>6, <1>7, <1>8, <1>9, <1>10 DEF Target

\* TargetIbi implements IbiService: whatever firmware, controller and clock do,
\* no IBI is sent twice, tried beyond its limit or after a lost arbitration,
\* dropped without a report, or reported before it is out.
THEOREM ServiceImplemented == Spec => ImplementsService
<1>1. Init => Service!Init
  BY RetryNumsAssumption
     DEF Init, FsmInit, Desc!Init, Service!Init, Service!Forever, ServicePhase
<1>2. Inductive /\ [Next]_vars => [Service!Next]_(Service!serviceVars)
  <2> SUFFICES ASSUME Inductive, [Next]_vars PROVE [Service!Next]_(Service!serviceVars)
    OBVIOUS
  <2>1. CASE UNCHANGED vars
    BY <2>1, SameView DEF vars, fsmVars, csrVars, ibiReqVars, descVars
  <2> QED
    BY <2>1, FirmwareServes, HandlerServes, ControllerServes, TargetServes DEF Next
<1> QED
  BY InvariantHolds, <1>1, <1>2, PTL DEF Spec, ImplementsService, Service!Spec
=============================================================================
