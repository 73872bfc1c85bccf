------------------------------ MODULE TargetFsm ------------------------------
(***************************************************************************)
(* The main state machine of the I3C target (ctrl/i3c_target_fsm.sv): one  *)
(* action per event it reacts to in a state.  Bus events are those the bus *)
(* monitor and the bit-level flow modules report: START, repeated START,   *)
(* STOP, a byte or bit received, a byte or bit sent, arbitration lost.     *)
(* They are edges of SDA or SCL and never fall into the same clock cycle,  *)
(* except where an action says so.  A cycle without an event in which the  *)
(* machine keeps its state is a stuttering step.                           *)
(* DoRstAction and DoHotJoin are left out: a target reset pattern ends in  *)
(* a STOP, which overrides the move to DoRstAction, and no state leads to  *)
(* DoHotJoin.                                                              *)
(*                                                                         *)
(* What the machine reads from the descriptor modules is a parameter of    *)
(* the action that reads it: ibi (an IBI byte is valid), last (it is the   *)
(* last one), avail (a TX message may start), valid (a TX byte is there),  *)
(* ready (the RX converter takes a byte).  What it pulses to them is named *)
(* by the sets of actions at the end of the module.                        *)
(***************************************************************************)
EXTENDS Integers

CONSTANTS
    Headers,        \* the address bytes the controller sends after (Sr) START
    RetryNums       \* the values firmware may give IBI_RETRY_NUM

\* What an address byte means to this target: the broadcast address 7E/W, its
\* own or its virtual target's address, an address that raises a TE0 error,
\* or nothing to it.
AllHeaders == {"rsvdW", "mainW", "mainR", "virtW", "virtR", "te0", "other"}

ASSUME HeadersAssumption == Headers \subseteq AllHeaders
ASSUME RetryNumsAssumption == RetryNums \subseteq 0..7 /\ RetryNums # {}

VARIABLES
    bus,         \* stopped, available (tAVAL after a STOP), active, or masked:
                 \* stopped while in HDR mode, which bus_timers did not see
    fsm,         \* state_q
    header,      \* bus_addr_q and bus_rnw_q
    virtSel,     \* virtual_device_sel_o
    xfer,        \* xfer_in_progress_o
    ibiOn,       \* ibi_enable_i and target_ibi_addr_valid_i
    retryNum,    \* ibi_retry_num_i
    retryCnt,    \* ibi_retry_cnt_q
    inhibit,     \* ibi_inhibit_q
    prLast,      \* pr_last_q
    prUnderrun,  \* pr_underrun_q
    prWait,      \* pr_ur_wait_q
    parityErr,   \* parity_err
    overflow,    \* rx_overflow_err_q
    rxValid      \* rx_fifo_wvalid_o

selVars == <<header, virtSel, xfer>>
csrVars == <<ibiOn, retryNum>>
ibiReqVars == <<retryCnt, inhibit>>
readVars == <<prLast, prUnderrun, prWait>>
writeVars == <<parityErr, overflow, rxValid>>
fsmVars == <<bus, fsm, selVars, csrVars, ibiReqVars, readVars, writeVars>>

FsmStates ==
    { "Idle", "RxFByteArb", "RxFByte", "CheckFByte", "TxAckFByte",
      "RxSByte", "RxSByteRepeated", "CheckSByte", "TxAckSByte",
      "RxPWriteData", "RxPWriteTbit",
      "TxPReadData", "TxPReadTbitSel", "TxPReadTbitCont", "TxPReadTbitEnd",
      "WaitRestart", "DoCCC", "DoneCCC", "InHDRMode",
      "IbiDriveAddr", "IbiReadAck", "IbiSendData", "IbiTbitCont", "IbiTbitEnd" }

Reads == {"mainR", "virtR"}
Virtual == {"virtW", "virtR"}
Ours == {"mainW", "mainR"} \cup Virtual

\* STOP and repeated START need SDA in the controller's hands: not while the
\* target drives an ACK, read data, a T-bit, or an IBI.
ControllerHasSda ==
    { "Idle", "RxFByte", "RxSByte", "RxSByteRepeated", "RxPWriteData",
      "RxPWriteTbit", "WaitRestart", "DoCCC", "InHDRMode" }

-----------------------------------------------------------------------------
(* The IBI status port, and the two registers every report feeds. *)

\* A definition named Mut... is a slip a change to the code might make; the
\* properties are shown to notice it.  Here: one retry too many.
MutCanRetry == retryNum = 7 \/ retryCnt <= retryNum + 1

CanRetry == retryNum = 7 \/ retryCnt <= retryNum

\* Slip: an address that is not acknowledged is not counted.
MutReport(status) ==
    /\ retryCnt' =
         IF status = "Success" THEN 0
         ELSE IF status = "AddressArb" /\ retryNum # 7 THEN (retryCnt + 1) % 8
              ELSE retryCnt
    /\ inhibit' =
         IF inhibit # "None" THEN inhibit
         ELSE IF status = "AddressArb" THEN "ArbLost"
         ELSE IF status = "Retry" THEN "Retry" ELSE "None"

Report(status) ==
    /\ retryCnt' =
         IF status = "Success" THEN 0
         ELSE IF status \in {"AddressArb", "Nack"} /\ retryNum # 7
              THEN (retryCnt + 1) % 8
              ELSE retryCnt
    /\ inhibit' =
         IF inhibit # "None" THEN inhibit
         ELSE IF status = "AddressArb" THEN "ArbLost"
         ELSE IF status = "Retry" THEN "Retry" ELSE "None"

NoReport == UNCHANGED ibiReqVars

\* Slip: no retries is taken for no IBIs.
MutIbiPending(ibi) == ibi /\ ibiOn /\ retryNum # 0

IbiPending(ibi) == ibi /\ ibiOn

\* Idle reports an exhausted retry count in every cycle it is not suppressed.
ReportsExhausted(ibi) ==
    fsm = "Idle" /\ IbiPending(ibi) /\ inhibit # "Retry" /\ ~CanRetry

-----------------------------------------------------------------------------
(* Moving between states.  Being in Idle clears what a transfer left over, *)
(* and a new address phase clears an overflow.                             *)

To(s) ==
    /\ fsm' = s
    /\ header' = IF s = "Idle" THEN "none" ELSE header
    /\ xfer' = IF s = "Idle" THEN FALSE ELSE xfer
    /\ parityErr' = IF s = "Idle" THEN FALSE ELSE parityErr
    /\ overflow' = IF s \in {"Idle", "RxFByte"} THEN FALSE ELSE overflow
    /\ UNCHANGED rxValid

Move(from, s) ==
    /\ fsm = from
    /\ To(s)
    /\ UNCHANGED <<bus, virtSel, csrVars, readVars>>

-----------------------------------------------------------------------------
(* Bus conditions. *)

\* Slip: a lost arbitration does not keep the target out of the next one.
MutStart(ibi) ==
    /\ bus # "active"
    /\ bus' = "active"
    /\ IF fsm = "Idle"
       THEN /\ To(IF IbiPending(ibi) /\ inhibit # "Retry" THEN "RxFByteArb" ELSE "RxFByte")
            /\ virtSel' = FALSE
       ELSE To(fsm) /\ UNCHANGED virtSel
    /\ IF ReportsExhausted(ibi) THEN Report("Retry") ELSE NoReport
    /\ UNCHANGED <<csrVars, readVars>>

Start(ibi) ==
    /\ bus # "active"
    /\ bus' = "active"
    /\ IF fsm = "Idle"
       THEN /\ To(IF IbiPending(ibi) /\ inhibit = "None" THEN "RxFByteArb" ELSE "RxFByte")
            /\ virtSel' = FALSE
       ELSE /\ To(fsm)
            /\ UNCHANGED virtSel
    /\ IF ReportsExhausted(ibi) THEN Report("Retry") ELSE NoReport
    /\ UNCHANGED <<csrVars, readVars>>

RestartTarget ==
    CASE fsm \in {"WaitRestart", "RxPWriteData", "RxPWriteTbit"} -> "RxFByte"
      [] fsm = "RxSByte" -> "RxSByteRepeated"
      [] OTHER -> fsm

RepeatedStart ==
    /\ bus = "active"
    /\ fsm \in ControllerHasSda \ {"InHDRMode"}
    /\ virtSel' = FALSE
    /\ To(RestartTarget)
    /\ NoReport
    /\ UNCHANGED <<bus, csrVars, readVars>>

\* In HDR mode the bus monitor masks the STOP from the machine.
Stop ==
    /\ bus = "active"
    /\ fsm \in ControllerHasSda \cup {"RxFByteArb"}
    /\ bus' = IF fsm = "InHDRMode" THEN "masked" ELSE "stopped"
    /\ virtSel' = IF fsm = "InHDRMode" THEN virtSel ELSE FALSE
    /\ To(IF fsm = "InHDRMode" THEN fsm ELSE "Idle")
    /\ NoReport
    /\ UNCHANGED <<csrVars, readVars>>

BusAvailable ==
    /\ bus = "stopped"
    /\ bus' = "available"
    /\ UNCHANGED <<fsm, selVars, csrVars, ibiReqVars, readVars, writeVars>>

\* Slip: a STOP is enough to forget a lost arbitration.
MutReleaseInhibit ==
    /\ \/ inhibit = "ArbLost" /\ bus # "active"
       \/ inhibit = "Retry" /\ CanRetry
    /\ inhibit' = "None"
    /\ UNCHANGED <<bus, fsm, selVars, csrVars, retryCnt, readVars, writeVars>>

\* The inhibit machine runs beside the main one.
ReleaseInhibit ==
    /\ \/ inhibit = "ArbLost" /\ bus = "available"
       \/ inhibit = "Retry" /\ CanRetry
    /\ inhibit' = "None"
    /\ UNCHANGED <<bus, fsm, selVars, csrVars, retryCnt, readVars, writeVars>>

-----------------------------------------------------------------------------
(* In-band interrupts. *)

ReportExhausted(ibi) ==
    /\ ReportsExhausted(ibi)
    /\ Report("Retry")
    /\ UNCHANGED <<bus, fsm, selVars, csrVars, readVars, writeVars>>

\* The target pulls SDA low on an available bus, which is a START.
InitiateIbi(ibi) ==
    /\ bus = "available"
    /\ IbiPending(ibi) /\ inhibit # "Retry" /\ CanRetry
    /\ fsm = "Idle"
    /\ To("IbiDriveAddr")
    /\ bus' = "active"
    /\ virtSel' = FALSE
    /\ NoReport
    /\ UNCHANGED <<csrVars, readVars>>

IbiAddrSent ==
    /\ \/ Move("IbiDriveAddr", "IbiReadAck")
       \/ CanRetry /\ Move("RxFByteArb", "IbiReadAck")
    /\ NoReport

DriveAddrLost == Move("IbiDriveAddr", "WaitRestart") /\ Report("AddressArb")

\* The loss shows at the first bit where the target's one meets a zero, so
\* the machine goes on receiving the byte of whoever won.
HeaderArbLost ==
    /\ CanRetry
    /\ Move("RxFByteArb", "RxFByte")
    /\ Report("AddressArb")

\* The loss shows at the last bit: the byte is complete in the same cycle.
HeaderArbLostLate(h) ==
    /\ CanRetry
    /\ fsm = "RxFByteArb"
    /\ fsm' = "CheckFByte"
    /\ header' = h
    /\ Report("AddressArb")
    /\ UNCHANGED <<bus, virtSel, xfer, csrVars, readVars, writeVars>>

ArbNotTried ==
    /\ ~CanRetry
    /\ Move("RxFByteArb", "RxFByte")
    /\ Report("Retry")

IbiAcked == Move("IbiReadAck", "IbiSendData") /\ NoReport

IbiNacked == Move("IbiReadAck", "WaitRestart") /\ Report("Nack")

\* Slip: the last byte is not told from the others.
MutIbiByteSent(last) == Move("IbiSendData", "IbiTbitCont") /\ NoReport

IbiByteSent(last) ==
    /\ Move("IbiSendData", IF last THEN "IbiTbitEnd" ELSE "IbiTbitCont")
    /\ NoReport

IbiContinued == Move("IbiTbitCont", "IbiSendData") /\ NoReport

IbiAborted == Move("IbiTbitCont", "RxFByte") /\ Report("PartialData")

IbiEnded == Move("IbiTbitEnd", "WaitRestart") /\ Report("Success")

-----------------------------------------------------------------------------
(* The address phases. *)

Receive(from, s, h) ==
    /\ fsm = from
    /\ fsm' = s
    /\ header' = h
    /\ NoReport
    /\ UNCHANGED <<bus, virtSel, xfer, csrVars, readVars, writeVars>>

FByteReceived(h) == Receive("RxFByte", "CheckFByte", h)

SByteReceived(h) == Receive("RxSByteRepeated", "CheckSByte", h)

\* A read is acknowledged only if a message may start; an address that raises
\* TE0 puts the CCC module, and with it this machine, into HDR mode.
Verdict(ack, avail) ==
    IF header = "te0" THEN "InHDRMode"
    ELSE IF \/ header = "rsvdW" /\ fsm = "CheckFByte"
            \/ header \in Ours /\ (header \in Reads => avail)
         THEN ack
         ELSE "WaitRestart"

Check(from, ack, avail) ==
    /\ fsm = from
    /\ fsm' = Verdict(ack, avail)
    /\ virtSel' = IF header = "rsvdW" THEN virtSel ELSE header \in Virtual
    /\ xfer' = (header \in Ours)
    /\ NoReport
    /\ UNCHANGED <<bus, header, csrVars, readVars, writeVars>>

CheckFByte(avail) == Check("CheckFByte", "TxAckFByte", avail)

CheckSByte(avail) == Check("CheckSByte", "TxAckSByte", avail)

AckSent ==
    /\ \E ack \in {"TxAckFByte", "TxAckSByte"} :
          Move(ack, CASE header = "rsvdW"  -> "RxSByte"
                      [] header \in Reads  -> "TxPReadData"
                      [] OTHER             -> "RxPWriteData")
    /\ NoReport

CccReceived == Move("RxSByte", "DoCCC") /\ NoReport

-----------------------------------------------------------------------------
(* Common command codes are executed by the CCC module. *)

CccDone == Move("DoCCC", "DoneCCC") /\ NoReport

CccNext == Move("DoCCC", "RxSByte") /\ NoReport

CccEntersHdr == Move("DoCCC", "InHDRMode") /\ NoReport

LeaveCcc == Move("DoneCCC", "Idle") /\ NoReport

HdrExit == Move("InHDRMode", "Idle") /\ NoReport

-----------------------------------------------------------------------------
(* Private write. *)

WriteByteReceived == Move("RxPWriteData", "RxPWriteTbit") /\ NoReport

\* A byte with good parity goes to the RX converter, unless an earlier byte
\* of this transfer was bad or the converter cannot take it.
WriteTbitReceived(good, ready) ==
    LET complete == good /\ ~parityErr
    IN  /\ fsm = "RxPWriteTbit"
        /\ fsm' = "RxPWriteData"
        /\ parityErr' = (parityErr \/ ~good)
        /\ overflow' = (overflow \/ (complete /\ ~ready))
        /\ rxValid' = (rxValid \/ (complete /\ ready /\ ~overflow))
        /\ NoReport
        /\ UNCHANGED <<bus, selVars, csrVars, readVars>>

ByteAccepted ==
    /\ rxValid
    /\ rxValid' = FALSE
    /\ UNCHANGED <<bus, fsm, selVars, csrVars, ibiReqVars, readVars, parityErr, overflow>>

-----------------------------------------------------------------------------
(* Private read. *)

ReadByteSent(last) ==
    /\ fsm = "TxPReadData"
    /\ To("TxPReadTbitSel")
    /\ prLast' = last
    /\ NoReport
    /\ UNCHANGED <<bus, virtSel, csrVars, prUnderrun, prWait>>

\* Slip: the T-bit is decided without waiting for a byte.
MutTbitSelectedAtOnce(valid) ==
    /\ fsm = "TxPReadTbitSel"
    /\ To(IF ~prLast /\ valid THEN "TxPReadTbitCont" ELSE "TxPReadTbitEnd")
    /\ prUnderrun' = (prUnderrun \/ (~prLast /\ ~valid))
    /\ prWait' = 0
    /\ NoReport
    /\ UNCHANGED <<bus, virtSel, csrVars, prLast>>

\* Slip: the wait for a byte has no end.
MutTbitSelectedNever(valid) ==
    /\ fsm = "TxPReadTbitSel"
    /\ prLast \/ valid
    /\ To(IF prLast THEN "TxPReadTbitEnd" ELSE "TxPReadTbitCont")
    /\ prWait' = 0
    /\ NoReport
    /\ UNCHANGED <<bus, virtSel, csrVars, prLast, prUnderrun>>

\* Decide on the T-bit: end, go on, or wait up to seven cycles for a byte.
TbitSelected(valid) ==
    /\ fsm = "TxPReadTbitSel"
    /\ prLast \/ valid \/ prWait = 7
    /\ To(IF ~prLast /\ valid THEN "TxPReadTbitCont" ELSE "TxPReadTbitEnd")
    /\ prUnderrun' = (prUnderrun \/ (~prLast /\ ~valid))
    /\ prWait' = 0
    /\ NoReport
    /\ UNCHANGED <<bus, virtSel, csrVars, prLast>>

TbitWaits(valid) ==
    /\ fsm = "TxPReadTbitSel"
    /\ ~prLast /\ ~valid /\ prWait < 7
    /\ prWait' = prWait + 1
    /\ NoReport
    /\ UNCHANGED <<bus, fsm, selVars, csrVars, prLast, prUnderrun, writeVars>>

ReadContinued == Move("TxPReadTbitCont", "TxPReadData") /\ NoReport

ReadAborted == Move("TxPReadTbitCont", "RxFByte") /\ NoReport

ReadEnded ==
    /\ fsm = "TxPReadTbitEnd"
    /\ To("WaitRestart")
    /\ prUnderrun' = FALSE
    /\ NoReport
    /\ UNCHANGED <<bus, virtSel, csrVars, prLast, prWait>>

-----------------------------------------------------------------------------
(* Registers firmware, ENEC and DISEC write. *)

SetIbiOn ==
    /\ ibiOn' = ~ibiOn
    /\ UNCHANGED <<bus, fsm, selVars, retryNum, ibiReqVars, readVars, writeVars>>

RetryCounterReset ==
    /\ retryCnt' = 0
    /\ UNCHANGED <<bus, fsm, selVars, csrVars, inhibit, readVars, writeVars>>

FsmInit ==
    /\ bus = "available"
    /\ fsm = "Idle"
    /\ header = "none"
    /\ virtSel = FALSE
    /\ xfer = FALSE
    /\ ibiOn = TRUE
    /\ retryNum \in RetryNums
    /\ retryCnt = 0
    /\ inhibit = "None"
    /\ prLast = FALSE
    /\ prUnderrun = FALSE
    /\ prWait = 0
    /\ parityErr = FALSE
    /\ overflow = FALSE
    /\ rxValid = FALSE

\* What moving between states sets, what a report sets, what a read sets.
StateTypeOK ==
    /\ fsm \in FsmStates
    /\ header \in AllHeaders \cup {"none"}
    /\ xfer \in BOOLEAN
    /\ parityErr \in BOOLEAN
    /\ overflow \in BOOLEAN
    /\ rxValid \in BOOLEAN

RequestTypeOK == retryCnt \in 0..7 /\ inhibit \in {"None", "ArbLost", "Retry"}

ReadTypeOK == prLast \in BOOLEAN /\ prUnderrun \in BOOLEAN /\ prWait \in 0..7

FsmTypeOK ==
    /\ bus \in {"stopped", "available", "active", "masked"}
    /\ virtSel \in BOOLEAN
    /\ ibiOn \in BOOLEAN
    /\ retryNum \in 0..7
    /\ StateTypeOK
    /\ RequestTypeOK
    /\ ReadTypeOK

=============================================================================
