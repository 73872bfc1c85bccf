------------------------------ MODULE TargetRead ------------------------------
(***************************************************************************)
(* Private reads end to end: firmware queues messages, the controller      *)
(* reads them, stops early or reads on, and the target FSM takes bytes     *)
(* from the TX descriptor handler.  IBIs and writes are left out: no       *)
(* header addresses the target for a write.                                *)
(*                                                                         *)
(* An event of the bus lies at least half an SCL period after the one      *)
(* before, which is many cycles of the clock: it finds the single-cycle    *)
(* steps of the handler done (Settled).  A flush takes a cycle per byte,   *)
(* and may or may not be over when the next address has been received      *)
(* (flushFirst).                                                           *)
(***************************************************************************)
EXTENDS TargetFsm, DescriptorTx

vars == <<fsmVars, txVars>>

Firmware == (FwData \/ FwDescriptor \/ FwNextMessage) /\ UNCHANGED fsmVars

Handler == HandlerStep /\ UNCHANGED fsmVars

\* The controller's steps: none before the single-cycle steps are done.
EndFrame == Settled /\ Stop /\ UNCHANGED txVars

Controller ==
    \/ EndFrame
    \/ /\ Settled
       /\ UNCHANGED txVars
       /\ \/ Start(FALSE)
          \/ RepeatedStart
          \/ BusAvailable
          \/ \E h \in Headers : FByteReceived(h) \/ SByteReceived(h)

\* tx_pr_start_o is pulsed with the address match.
CheckAddress ==
    /\ "flushFirst" \in keeps => ~flush
    /\ CheckFByte(Avail) \/ CheckSByte(Avail)
    /\ IF header \in Reads THEN ReadStarts ELSE UNCHANGED txVars

\* The bits the bus clocks through the target.
BusBit ==
    /\ Settled
    /\ \/ AckSent /\ UNCHANGED txVars
       \/ ReadByteSent(ByteLast) /\ ByteTaken
       \/ TbitWaits(ByteValid) /\ UNCHANGED txVars
       \/ ReadContinued /\ UNCHANGED txVars
       \/ ReadAborted /\ Aborted
       \/ ReadEnded /\ IF prUnderrun THEN Aborted ELSE UNCHANGED txVars

\* The last cycle of the wait may coincide with the arrival of a byte.
TbitDecided == TbitSelected(ByteValid) /\ UNCHANGED txVars

Target == CheckAddress \/ BusBit \/ TbitDecided

Init == FsmInit /\ TxInit

Next == Firmware \/ Handler \/ Controller \/ Target

Spec == Init /\ [][Next]_vars

\* The clock runs, and the controller does not stop clocking in the middle of
\* a read.  Nothing is assumed of firmware.
FairSpec == Spec /\ WF_vars(Handler) /\ WF_vars(Target)

-----------------------------------------------------------------------------

TypeOK == FsmTypeOK /\ TxTypeOK

ReadStates == {"TxPReadData", "TxPReadTbitSel", "TxPReadTbitCont", "TxPReadTbitEnd"}

\* Number of the byte on offer in its message, counting from zero.
Offered == 4 * conv.idx + 4 - conv.left

\* Firmware and controller keep to both disciplines.
Disciplined == keeps = {"dataFirst", "flushFirst"}

\* The FSM shifts out tx_fifo_rdata without looking at tx_fifo_rvalid: the byte
\* must be there, be of the message whose descriptor is in hand, and be the one
\* the byte counter says it is.
SendsItsMessage ==
    Disciplined /\ fsm \in {"TxPReadData", "TxPReadTbitCont"} =>
        /\ ByteValid
        /\ conv.msg = desc.msg
        /\ Offered = desc.len - count

\* Between reads the data stream stands at the first byte of a message, the one
\* whose descriptor comes next, however earlier reads ended.
AtMessageStart ==
    ~pending /\ ~flush =>
        /\ conv.left \in {0, 4}
        /\ LET next == IF ByteThere THEN <<conv.msg, conv.idx>>
                                    ELSE <<Head(txq).msg, Head(txq).idx>>
           IN  ByteThere \/ txq # <<>> =>
                   /\ next[2] = 0
                   /\ descValid => next[1] = desc.msg
                   /\ ~descValid /\ descq # <<>> => next[1] = Head(descq).msg

StreamAligned == Disciplined => AtMessageStart

\* A read that is acknowledged finds its message in hand and data queued.
AckedReadStarts ==
    Disciplined /\ fsm \in {"TxAckFByte", "TxAckSByte"} /\ header \in Reads =>
        descValid /\ (ByteThere \/ txq # <<>>)

\* A message that is queued whole is not cut short by the target.
NoUnderrun == Disciplined => ~prUnderrun

\* Whatever firmware does, a read comes to an end, and so does a flush.
ReadEnds == fsm \in ReadStates ~> fsm \notin ReadStates
FlushEnds == flush ~> ~flush

=============================================================================
