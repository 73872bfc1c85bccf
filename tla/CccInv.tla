-------------------------------- MODULE CccInv --------------------------------
(***************************************************************************)
(* Inductive invariants of CccBus.                                         *)
(***************************************************************************)
EXTENDS CccBus

\* The command machine is at work exactly while the target machine is in
\* DoCCC, but for the cycle in which it tells so.
MachinesInStep == Settled => (main = "DoCCC" <=> state # "WaitCCC")

\* The assignment machine runs within ENTDAA.
DaaInCommand == daa # "Idle" => InEntdaa

\* An answer is complete from its last T-bit to the next address or command.
AnswerSpan ==
    complete => state \in {"WaitForBusCond", "RxTargetAddr", "TxTargetAddrAck", "DoneCCC", "WaitCCC"}

\* What has been answered to GETSTATUS was the error that stands.
ErrorHeard ==
    err /\ code = "GETSTATUS" /\ (complete \/ state = "TxDataTbitEnd") => toldErr

ErrorInvariant == MachinesInStep /\ DaaInCommand /\ AnswerSpan /\ ErrorHeard

=============================================================================
