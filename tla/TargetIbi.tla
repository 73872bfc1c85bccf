------------------------------ MODULE TargetIbi ------------------------------
(***************************************************************************)
(* In-band interrupts end to end: firmware fills the TTI IBI queue, the    *)
(* descriptor handler offers bytes, the target FSM arbitrates for the bus, *)
(* sends them, and reports the outcome.  The two modules are clocked       *)
(* together; a handshake between them (a byte taken, a flush) is one step  *)
(* of both.  Their other steps interleave, which allows every relative     *)
(* speed, the lockstep of the hardware among them.                         *)
(***************************************************************************)
EXTENDS TargetFsm, Sequences

CONSTANTS Payloads, LowBytes, Depth   \* as in DescriptorIbi

VARIABLES
    queue, fill, state, len, words, cnt,   \* as in DescriptorIbi
    fails,      \* failed address phases of the IBI on offer (ghost)
    lost,       \* arbitration was lost, and the bus not available since (ghost)
    gaveUp      \* FailureRetry was reported since the retries ran out (ghost)

Desc == INSTANCE DescriptorIbi

ASSUME DepthAssumption == Depth \in Nat
ASSUME LowBytesAssumption == LowBytes \subseteq 0..255
ASSUME PayloadsAssumption == Payloads \subseteq 0..255
ASSUME FitAssumption == \A n \in Payloads : Desc!WordsFor(n) < Depth

descVars == <<queue, fill, state, len, words, cnt>>
ghostVars == <<fails, lost, gaveUp>>
vars == <<fsmVars, descVars, ghostVars>>

Exhausted == ~CanRetry

\* The address phases an IBI may fail before it is given up: a phase is tried
\* while the count of failures is at most IBI_RETRY_NUM.
Budget == retryNum + 1

-----------------------------------------------------------------------------
(* How a step moves the ghosts. *)

MaxFails == 8   \* bound of the ghost fails

\* A failed address phase.
CountFailure(arb) ==
    /\ fails' = IF retryNum = 7 \/ fails = MaxFails THEN fails ELSE fails + 1
    /\ lost' = (lost \/ arb)
    /\ UNCHANGED gaveUp

\* The IBI on offer is over: whatever is offered next starts afresh.
NextIbi ==
    /\ fails' = 0
    /\ UNCHANGED <<lost, gaveUp>>

GiveUp ==
    /\ gaveUp' = TRUE
    /\ UNCHANGED <<fails, lost>>

NoGhost == UNCHANGED ghostVars

-----------------------------------------------------------------------------

\* A queue reset in the middle of an IBI on the bus is excluded throughout:
\* the firmware guide forbids it.
NotSending ==
    fsm \notin {"IbiDriveAddr", "RxFByteArb", "IbiReadAck", "IbiSendData", "IbiTbitCont"}

\* Out of retries, the machine stays in RxFByteArb for a single cycle; a write
\* to the reset bit of the counter that lands in that very cycle is left out.
OneCycleArb == fsm = "RxFByteArb" /\ Exhausted

Firmware ==
    \/ Desc!FwWrite /\ UNCHANGED fsmVars /\ NoGhost
    \/ NotSending /\ Desc!QueueReset /\ UNCHANGED fsmVars /\ NoGhost
    \/ SetIbiOn /\ UNCHANGED descVars /\ NoGhost
    \/ /\ ~OneCycleArb
       /\ RetryCounterReset
       /\ fails' = 0 /\ gaveUp' = FALSE
       /\ UNCHANGED <<descVars, lost>>

Handler == Desc!HandlerStep /\ UNCHANGED fsmVars /\ NoGhost

EndFrame == Stop /\ UNCHANGED descVars /\ NoGhost

LeaveBus == BusAvailable /\ lost' = FALSE /\ UNCHANGED <<descVars, fails, gaveUp>>

\* The controller: conditions on the bus, and the address bytes it sends.
LoseArbitration ==
    /\ \/ HeaderArbLost
       \/ \E h \in Headers : HeaderArbLostLate(h)
    /\ CountFailure(TRUE)
    /\ UNCHANGED descVars

WinArbitration == IbiAddrSent /\ UNCHANGED <<descVars, ghostVars>>

Controller ==
    \/ EndFrame
    \/ LeaveBus
    \/ LoseArbitration
    \/ /\ UNCHANGED descVars
       /\ \/ /\ Start(Desc!ByteValid)
             /\ IF ReportsExhausted(Desc!ByteValid) THEN GiveUp ELSE NoGhost
          \/ RepeatedStart /\ NoGhost
          \/ \E h \in Headers : FByteReceived(h) /\ NoGhost
          \/ DriveAddrLost /\ CountFailure(TRUE)
          \/ IbiNacked /\ CountFailure(FALSE)
          \/ IbiAcked /\ NoGhost
          \/ CccReceived /\ NoGhost
          \/ CccDone /\ NoGhost
          \/ CccEntersHdr /\ NoGhost
          \/ HdrExit /\ NoGhost

EndInhibit == ReleaseInhibit /\ UNCHANGED <<descVars, ghostVars>>

\* What the target does by itself or as the bus clocks it on.
Target ==
    \/ /\ UNCHANGED descVars
       /\ \/ InitiateIbi(Desc!ByteValid) /\ NoGhost
          \/ ReportExhausted(Desc!ByteValid) /\ GiveUp
          \/ ArbNotTried /\ GiveUp
          \/ EndInhibit
          \/ WinArbitration
          \/ IbiContinued /\ NoGhost
          \/ IbiEnded /\ gaveUp' = FALSE /\ fails' = 0 /\ UNCHANGED lost
          \/ CheckFByte(FALSE) /\ NoGhost
          \/ AckSent /\ NoGhost
          \/ LeaveCcc /\ NoGhost
    \/ IbiByteSent(Desc!ByteLast) /\ Desc!ByteTaken /\ NoGhost
    \/ IbiAborted /\ Desc!DataFlushed /\ NextIbi

Init ==
    /\ FsmInit
    /\ Desc!Init
    /\ fails = 0
    /\ lost = FALSE
    /\ gaveUp = FALSE

Next == Firmware \/ Handler \/ Controller \/ Target

Spec == Init /\ [][Next]_vars

\* The clock runs: the target and the handler take the steps they can, and
\* the inhibit machine leaves its state before a START can follow.  The
\* controller finishes what it has begun on the bus, ends its frames again and
\* again, leaves the bus alone for tAVAL again and again, and does not forever
\* break off the address byte of a frame.
FairSpec ==
    /\ Spec
    /\ WF_vars(Handler)
    /\ WF_vars(Target)
    /\ SF_vars(EndInhibit)
    /\ WF_vars(Controller)
    /\ SF_vars(EndFrame)
    /\ SF_vars(LeaveBus)
    /\ SF_vars(WinArbitration \/ LoseArbitration)

-----------------------------------------------------------------------------

TypeOK ==
    /\ FsmTypeOK
    /\ Desc!TypeOK
    /\ fails \in 0..MaxFails
    /\ lost \in BOOLEAN
    /\ gaveUp \in BOOLEAN

\* The FSM shifts out ibi_byte without looking at ibi_byte_valid, and an abort
\* is passed on without looking at the handler: in both cases the handler must
\* be where the FSM believes it to be.
HandlerFollowsFsm ==
    /\ fsm \in {"IbiDriveAddr", "IbiReadAck"} => state = "WriteMdb"
    /\ fsm = "IbiSendData" => Desc!ByteValid
    /\ fsm = "IbiTbitCont" => state = "WriteData" /\ queue # <<>>

\* An IBI is never tried more often than the retry count allows.
WithinBudget == retryNum < 7 => fails <= Budget

\* Having lost the arbitration for its address, the target does not take part
\* in another address arbitration before the bus has been available.
NoRearbitration == fsm = "RxFByteArb" /\ CanRetry => ~lost

\* An IBI on offer, to be retried so and so often but not for ever, is sent, or
\* given up with a report, or withdrawn, unless firmware resets the retry counter
\* over and over, or the bus is in HDR mode over and over: the timers do not see
\* a STOP there.
ServedOrReported ==
    \/ []<><<RetryCounterReset>>_vars
    \/ []<>(fsm = "InHDRMode" \/ bus = "masked")
    \/ (state = "WriteMdb" /\ retryNum < 7) ~> (state # "WriteMdb" \/ gaveUp \/ ~ibiOn)

-----------------------------------------------------------------------------
(* The abstract specification, and where its state is found here. *)

\* Out of retries the machine is in RxFByteArb only to report it.
ServicePhase ==
    IF fsm \in {"IbiDriveAddr", "IbiReadAck"} \/ (fsm = "RxFByteArb" /\ CanRetry) THEN "trying"
    ELSE IF fsm \in {"IbiSendData", "IbiTbitCont"} THEN "sending"
    ELSE IF fsm = "IbiTbitEnd" THEN "closing" ELSE "away"

Service == INSTANCE IbiService WITH
    limit <- retryNum, offered <- state \in {"WriteMdb", "WriteData"},
    phase <- ServicePhase, blocked <- lost

\* Every step of handler, target FSM, firmware and controller is one that the
\* service allows: no IBI is sent twice, tried beyond its limit or after a lost
\* arbitration, dropped without a report, or reported before it is out.
ImplementsService == Service!Spec

=============================================================================
