---------------------------- MODULE TargetIbiInv ----------------------------
(***************************************************************************)
(* What TargetIbi keeps true about its retries, its arbitration and the    *)
(* two machines being in step, strengthened until it is inductive.         *)
(***************************************************************************)
EXTENDS TargetIbi

FsmPart ==
    /\ FsmTypeOK
    /\ fails \in 0..MaxFails
    /\ lost \in BOOLEAN
    /\ gaveUp \in BOOLEAN

\* The hardware counter has counted every failure of the IBI on offer, and is
\* at most one past the limit.
RetriesCounted == retryNum < 7 => fails <= retryCnt /\ retryCnt <= retryNum + 1

\* An address phase under way is one the limit allows.
TryAllowed == fsm \in {"IbiDriveAddr", "IbiReadAck"} => CanRetry

Arbitrating == fsm \in {"IbiDriveAddr", "RxFByteArb"}

\* A loss holds the inhibit machine until the bus is available.
LossRemembered ==
    /\ lost => inhibit = "ArbLost" /\ bus # "available"
    /\ fsm = "RxFByteArb" => ~lost

\* An arbitration that is tried starts with no retry failure outstanding, so a
\* loss finds the inhibit machine free to note it.
LossNoticed ==
    Arbitrating => bus = "active" /\ (inhibit = "Retry" => ~CanRetry)

\* Which of its states the handler is in, seen from the states of the FSM in
\* which an IBI is tried or sent.
InStep ==
    /\ state = "WriteData" => fsm \in {"IbiSendData", "IbiTbitCont"}
    /\ fsm = "IbiTbitCont" => state = "WriteData"
    /\ fsm = "IbiSendData" => state \in {"WriteMdb", "WriteData"}
    /\ fsm \in {"IbiDriveAddr", "IbiReadAck", "RxFByteArb"} => state = "WriteMdb"

\* The conjunction of the above is inductive.
Inductive ==
    /\ FsmPart
    /\ RetriesCounted /\ TryAllowed
    /\ LossRemembered /\ LossNoticed
    /\ InStep

=============================================================================
