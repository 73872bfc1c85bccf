-------------------------------- MODULE Bench --------------------------------
(***************************************************************************)
(* The test bench and the target on one bus: the bench controller          *)
(* (lib_i3c_top/i3c_controller_fixed.py), its background IBI monitor, the  *)
(* target's main state machine (TargetFsm) and the protocol monitor        *)
(* (BusMonitor).  A bus event is one step of all that see it.  Between two *)
(* events the target takes its internal steps.                             *)
(*                                                                         *)
(* External, from the cocotbext-i3c library and modelled from its use:     *)
(* take_bus_control clears monitor_enable and waits for monitor_idle,      *)
(* give_bus_control sets monitor_enable, and the background monitor's wait *)
(* for a START returns when control has been taken.                        *)
(***************************************************************************)
EXTENDS TargetFsm, ControllerScripts, FiniteSets

CONSTANTS
    Ops,            \* the calls a test makes: [kind, to, n, stop, rsvd, good, c]
    Chains,         \* what a test may chain to an IBI
    Limits,         \* the data bytes after the first a test may accept of it
    IbiLengths,     \* the bytes of an IBI
    MaxRetries,     \* _MAX_IBI_RETRIES
    VirtFirst       \* the virtual target's address wins against the main one

\* What a test may call: the address, the bytes, whether a STOP ends the call and
\* a 7E/W begins it, and whether the parity is good.
Calls ==
    [ kind : {"write"}, to : {"mainW", "virtW", "otherW"},
      n : Nat, stop : BOOLEAN, rsvd : BOOLEAN, good : BOOLEAN ]
    \cup [ kind : {"read"}, to : {"mainR", "virtR", "otherR"},
           n : Nat, stop : BOOLEAN, rsvd : BOOLEAN, good : BOOLEAN ]
    \cup [kind : {"ccc"}, c : {"enec", "disec", "BCAST"}, stop : BOOLEAN]
    \cup [kind : {"te0", "te1"}]

ASSUME OpsAssumption == Ops \subseteq Calls
ASSUME ChainsAssumption == Chains \subseteq {"none", "write", "enec", "disec", "BCAST"}
ASSUME LimitsAssumption == Limits \subseteq Nat /\ \E l \in Limits : \A k \in Limits : k <= l
ASSUME IbiLengthsAssumption == IbiLengths \subseteq Nat \ {0}
\* The target retries its IBIs without end; TargetIbi looks at the other settings.
ASSUME RetriesAssumption == RetryNums = {7}
ASSUME MaxRetriesAssumption == MaxRetries \in Nat \ {0}

VARIABLES
    phase, repeated, active, seen, code, daa, nth, inRead, inWrite, aborts, alarm,
    script,     \* what each coroutine has left to do: the caller, the monitor
    op,         \* the call under way
    tries,      \* its attempts lost to an IBI
    acked,      \* whether the last address was acknowledged
    enable,     \* monitor_enable
    bg,         \* background monitor: waits to be enabled, for a START, serves
    chain,      \* _ibi_chain_ccc, _ibi_chain_write_*
    limit,      \* _ibi_max_data, or max_ibi_data_len
    ibiLeft,    \* bytes left of the IBI the target offers
    taken,      \* data bytes of the call the target accepted (ghost)
    clash       \* an address byte sent unwatched met an IBI in this frame (ghost)

Mon == INSTANCE BusMonitor

monVars == <<phase, repeated, active, seen, code, daa, nth, inRead, inWrite, aborts, alarm>>
callVars == <<op, tries, acked>>
ibiVars == <<chain, limit>>
ghosts == <<taken, clash>>
vars == <<fsmVars, monVars, script, callVars, enable, bg, ibiVars, ibiLeft, ghosts>>

NoOp == [kind |-> "none"]

Pending == ibiLeft > 0

\* max_ibi_data_len, which a one-shot limit replaces.
DefaultLimit == CHOOSE l \in Limits : \A k \in Limits : k <= l

-----------------------------------------------------------------------------
(* The target, as the bus sees it. *)

FsmHeader(h) ==
    CASE h = "rsvdR" -> "te0"
      [] h \in {"otherW", "otherR"} -> "other"
      [] OTHER -> h

\* Whether the target takes part in the arbitration of an address byte.
Contends == fsm = "IbiDriveAddr" \/ (fsm = "RxFByteArb" /\ CanRetry)

ReadStates == {"TxPReadData", "TxPReadTbitCont", "TxPReadTbitEnd"}
IbiDataStates == {"IbiSendData", "IbiTbitCont", "IbiTbitEnd"}

Drive ==
    CASE Contends \/ fsm \in {"TxAckFByte", "TxAckSByte"} -> "od"
      [] fsm \in ReadStates \cup IbiDataStates -> "pp"
      [] OTHER -> "off"

\* No internal step of the target is due, so that the bus may go on.
Settled ==
    /\ fsm \notin {"CheckFByte", "CheckSByte", "TxPReadTbitSel", "DoneCCC"}
    /\ ~(fsm = "RxFByteArb" /\ ~CanRetry)
    /\ ~rxValid

-----------------------------------------------------------------------------
(* Running the coroutines. *)

Busy(who) == script[who] # <<>>

\* The step a coroutine is about to take.
At(who, do) == Busy(who) /\ Head(script[who]).do = do

Goto(who, steps) == script' = [script EXCEPT ![who] = steps]

Go(who) == Goto(who, Tail(script[who]))

\* The number of data steps a script begins with.
DataSteps(s) == Cardinality({i \in 1..Len(s) : \A j \in 1..i : s[j].do \in Data})

\* What is left once the data after an address is skipped.
SkipData(s) == SubSeq(s, DataSteps(s) + 1, Len(s))

Quiet == UNCHANGED <<op, tries, enable, bg, ibiVars, ibiLeft>>

-----------------------------------------------------------------------------
(* START, STOP. *)

\* A START of the controller coincides with one of the target that has just
\* begun an IBI.
StartSeen ==
    CASE bus # "active" -> Start(Pending)
      [] bus = "active" /\ fsm = "InHDRMode" -> UNCHANGED fsmVars
      [] OTHER -> RepeatedStart

SendStart(who) ==
    /\ At(who, "start") /\ Settled
    /\ Go(who)
    /\ IF fsm = "IbiDriveAddr"
       THEN UNCHANGED <<fsmVars, monVars>>
       ELSE StartSeen /\ Mon!MonStart(0, 0)
    /\ Quiet
    /\ UNCHANGED <<acked, ghosts>>

SendStop(who) ==
    /\ At(who, "stop") /\ Settled
    /\ Go(who)
    /\ IF bus = "active" THEN Stop /\ Mon!MonStop ELSE UNCHANGED <<fsmVars, monVars>>
    /\ clash' = FALSE
    /\ Quiet
    /\ UNCHANGED <<acked, taken>>

\* The HDR exit pattern, which ends in the STOP of the next step.
SendHdrExit ==
    /\ At("fg", "hdrExit") /\ Settled
    /\ Go("fg")
    /\ IF fsm = "InHDRMode" THEN HdrExit ELSE UNCHANGED fsmVars
    /\ Quiet
    /\ UNCHANGED <<monVars, acked, ghosts>>

-----------------------------------------------------------------------------
(* Address bytes. *)

\* An address byte without arbitration, as the target hears it.
AddressHeard(h) ==
    CASE fsm = "RxFByte" -> FByteReceived(FsmHeader(h))
      [] fsm = "RxSByteRepeated" -> SByteReceived(FsmHeader(h))
      [] OTHER -> UNCHANGED fsmVars

\* write_addr_header looks for a lost arbitration in 7E/W only, and hands the
\* bus to the IBI that has won.  max_data and the chain are used up.
ArbitrationLost(who) ==
    /\ Goto(who, HandleIbiInline(chain, limit, FALSE) \o <<[do |-> "retry"]>>)
    /\ chain' = "none"
    /\ limit' = DefaultLimit

SendReserved(who) ==
    /\ At(who, "addr") /\ Head(script[who]).h = "rsvdW" /\ Settled
    /\ IF Contends
       THEN /\ ArbitrationLost(who)
            /\ IbiAddrSent
            /\ Mon!MonAddress("mainR", Drive)
       ELSE /\ Go(who)
            /\ AddressHeard("rsvdW")
            /\ Mon!MonAddress("rsvdW", Drive)
            /\ UNCHANGED ibiVars
    /\ UNCHANGED <<callVars, enable, bg, ibiLeft, ghosts>>

\* Which of two addresses stays on the wire, the target's IBI or h.
TargetWins(h) ==
    \/ h \in {"rsvdR", "mainR", "otherW", "otherR"}
    \/ h \in Virtual /\ ~VirtFirst

TargetLoses(h) == h \in {"mainW", "otherW", "otherR"} \/ (h \in Virtual /\ VirtFirst)

\* Any other address byte goes out unwatched.
SendAddress(who) ==
    LET h == Head(script[who]).h
    IN  /\ At(who, "addr") /\ h # "rsvdW" /\ Settled
        /\ Go(who)
        /\ \/ /\ ~Contends
              /\ AddressHeard(h)
              /\ Mon!MonAddress(h, Drive)
              /\ UNCHANGED clash
           \/ /\ Contends /\ TargetWins(h)
              /\ IbiAddrSent
              /\ Mon!MonAddress("mainR", Drive)
              /\ clash' = TRUE
           \/ /\ Contends /\ TargetLoses(h)
              /\ DriveAddrLost \/ HeaderArbLostLate(FsmHeader(h))
              /\ Mon!MonAddress(h, Drive)
              /\ clash' = TRUE
        /\ Quiet
        /\ UNCHANGED <<acked, taken>>

\* Slip: the acknowledge of an earlier address counts as well.
MutReceiveAck(who) ==
    LET yes == fsm \in {"TxAckFByte", "TxAckSByte"}
    IN  /\ At(who, "ack") /\ Settled
        /\ acked' = (acked \/ yes)
        /\ Goto(who, IF ~yes /\ Head(script[who]).skip
                     THEN SkipData(Tail(script[who])) ELSE Tail(script[who]))
        /\ CASE yes -> AckSent
             [] fsm = "IbiReadAck" -> IbiNacked
             [] OTHER -> UNCHANGED fsmVars
        /\ Mon!MonAck(yes, Drive, FALSE)
        /\ Quiet
        /\ UNCHANGED ghosts

\* The acknowledge of an address the controller has sent.
ReceiveAck(who) ==
    LET yes == fsm \in {"TxAckFByte", "TxAckSByte"}
    IN  /\ At(who, "ack") /\ Settled
        /\ acked' = yes
        /\ Goto(who, IF ~yes /\ Head(script[who]).skip
                     THEN SkipData(Tail(script[who])) ELSE Tail(script[who]))
        /\ CASE yes -> AckSent
             [] fsm = "IbiReadAck" -> IbiNacked
             [] OTHER -> UNCHANGED fsmVars
        /\ Mon!MonAck(yes, Drive, FALSE)
        /\ Quiet
        /\ UNCHANGED ghosts

-----------------------------------------------------------------------------
(* Data. *)

SendByte(who) ==
    /\ At(who, "byte") /\ Settled
    /\ Go(who)
    /\ CASE fsm = "RxPWriteData" -> WriteByteReceived
         [] fsm = "RxSByte" -> CccReceived
         [] OTHER -> UNCHANGED fsmVars
    /\ Mon!MonByte(Drive)
    /\ Quiet
    /\ UNCHANGED <<acked, ghosts>>

\* ENEC and DISEC take effect on the T-bit of their event byte; bad parity in
\* a command code (TE1) sends the target into HDR mode.
CccTbit(c, good) ==
    CASE ~good -> CccEntersHdr
      [] (c = "enec" /\ ~ibiOn) \/ (c = "disec" /\ ibiOn) -> SetIbiOn
      [] OTHER -> UNCHANGED fsmVars

SendTbit(who) ==
    LET s == Head(script[who])
    IN  /\ At(who, "tbit") /\ Settled
        /\ Go(who)
        /\ CASE fsm = "RxPWriteTbit" -> WriteTbitReceived(s.good, TRUE)
             [] fsm = "DoCCC" -> CccTbit(s.c, s.good)
             [] OTHER -> UNCHANGED fsmVars
        /\ taken' = IF fsm = "RxPWriteTbit" /\ s.c = "data" /\ s.good /\ ~parityErr
                    THEN taken + 1 ELSE taken
        /\ Mon!MonTbit(IF s.c \in Mon!CccCodes THEN s.c ELSE "BCAST", Drive)
        /\ Quiet
        /\ UNCHANGED <<acked, clash>>

\* A byte of a private read or of an IBI, from a target that sends.
ReadByte(who) ==
    LET k == Head(script[who]).k
    IN  /\ At(who, "read") /\ Settled
        /\ Goto(who, <<readTbit(k)>> \o Tail(script[who]))
        /\ \/ \E last \in BOOLEAN : ReadByteSent(last) /\ UNCHANGED ibiLeft
           \/ IbiByteSent(ibiLeft = 1) /\ ibiLeft' = ibiLeft - 1
        /\ Mon!MonByte(Drive)
        /\ UNCHANGED <<callVars, enable, bg, ibiVars, ghosts>>

\* The T-bit: the target ends the data, or the controller has enough and ends
\* it with a repeated START, or the next byte follows.
ReadTbit(who) ==
    LET k == Head(script[who]).k
        rest == Tail(script[who])
    IN  /\ At(who, "readTbit") /\ Settled
        /\ \/ /\ ReadEnded \/ IbiEnded
              /\ Goto(who, rest)
              /\ Mon!MonTbit("none", Drive)
              /\ UNCHANGED ibiLeft
           \/ /\ k = 1
              /\ \/ ReadAborted /\ UNCHANGED ibiLeft
                 \/ IbiAborted /\ ibiLeft' = 0
              /\ Goto(who, rest)
              /\ Mon!MonStart(0, 0)
           \/ /\ k > 1
              /\ ReadContinued \/ IbiContinued
              /\ Goto(who, <<read(k - 1)>> \o rest)
              /\ Mon!MonTbit("none", Drive)
              /\ UNCHANGED ibiLeft
        /\ UNCHANGED <<callVars, enable, bg, ibiVars, ghosts>>

-----------------------------------------------------------------------------
(* In-band interrupts. *)

\* Acknowledge or refuse the IBI (nack_ibis).
AnswerIbi(who) ==
    /\ At(who, "ibiAck") /\ Settled
    /\ \E yes \in BOOLEAN :
          /\ IF yes THEN IbiAcked ELSE IbiNacked
          /\ Mon!MonAck(yes, Drive, yes)
          /\ Goto(who, IF yes THEN Tail(script[who]) ELSE SkipData(Tail(script[who])))
    /\ UNCHANGED <<callVars, enable, bg, ibiVars, ibiLeft, ghosts>>

\* The attempt lost to the IBI is made again, or the call gives up and raises,
\* with the bus as it is.
Retry ==
    /\ At("fg", "retry") /\ Settled
    /\ tries' = tries + 1
    /\ Goto("fg", IF tries' < MaxRetries /\ op.kind \in {"write", "read", "ccc"}
                  THEN Script(op) \o <<[do |-> "give"]>>
                  ELSE IF op.kind \in {"write", "read", "ccc"} THEN <<[do |-> "give"]>>
                  ELSE <<[do |-> "hold"]>>)
    /\ UNCHANGED <<fsmVars, monVars, op, acked, enable, bg, ibiVars, ibiLeft, ghosts>>

\* The background monitor is woken, gives way, or sees the target's START.
MonitorWakes ==
    /\ bg = "waiting" /\ enable
    /\ bg' = "listening"
    /\ UNCHANGED <<fsmVars, monVars, script, callVars, enable, ibiVars, ibiLeft, ghosts>>

MonitorLeaves ==
    /\ bg = "listening" /\ ~enable
    /\ bg' = "waiting"
    /\ UNCHANGED <<fsmVars, monVars, script, callVars, enable, ibiVars, ibiLeft, ghosts>>

MonitorSeesStart ==
    /\ bg = "listening" /\ fsm = "IbiDriveAddr"
    /\ bg' = "serving"
    /\ IbiAddrSent
    /\ Mon!MonAddress("mainR", Drive)
    /\ Goto("bg", HandleIbiInline(chain, limit, TRUE))
    /\ chain' = "none"
    /\ limit' = DefaultLimit
    /\ UNCHANGED <<callVars, enable, ibiLeft, ghosts>>

\* Slip: monitor_idle is not set again.
MutMonitorLoops ==
    /\ bg = "serving" /\ ~Busy("bg")
    /\ bg' = "serving"
    /\ UNCHANGED <<fsmVars, monVars, script, callVars, enable, ibiVars, ibiLeft, ghosts>>

MonitorLoops ==
    /\ bg = "serving" /\ ~Busy("bg")
    /\ bg' = "waiting"
    /\ UNCHANGED <<fsmVars, monVars, script, callVars, enable, ibiVars, ibiLeft, ghosts>>

-----------------------------------------------------------------------------
(* Calls. *)

Held == ~Busy("fg") /\ ~enable

\* A call begins by taking the bus control; it may hold it from an earlier one.
\* A violation fails the test, which makes no further call.
BeginCall ==
    /\ ~Busy("fg") /\ alarm = "none"
    /\ \E o \in Ops :
          /\ op' = o
          /\ Goto("fg", <<[do |-> "take"]>> \o Script(o)
                        \o <<[do |-> IF o.kind \in {"te0", "te1"} THEN "hold" ELSE "give"]>>)
    /\ enable' = FALSE
    /\ UNCHANGED <<fsmVars, monVars, tries, acked, bg, ibiVars, ibiLeft, ghosts>>

\* After an injected error a test sends the HDR exit pattern and a STOP, and
\* gives the control back; if an IBI came in between, it only does the latter.
Recover ==
    /\ Held
    /\ op' = [kind |-> "recover"]
    /\ Goto("fg", (IF bus = "active" /\ ~Contends THEN <<[do |-> "hdrExit"], stop>> ELSE <<>>)
                  \o <<[do |-> "give"]>>)
    /\ UNCHANGED <<fsmVars, monVars, tries, acked, enable, bg, ibiVars, ibiLeft, ghosts>>

\* Slip: the background monitor is not waited for.
MutTakeBusControl ==
    /\ At("fg", "take")
    /\ Go("fg")
    /\ UNCHANGED <<fsmVars, monVars, callVars, enable, bg, ibiVars, ibiLeft, ghosts>>

TakeBusControl ==
    /\ At("fg", "take") /\ bg = "waiting"
    /\ Go("fg")
    /\ UNCHANGED <<fsmVars, monVars, callVars, enable, bg, ibiVars, ibiLeft, ghosts>>

EndCall ==
    /\ At("fg", "give") \/ At("fg", "hold")
    /\ enable' = At("fg", "give")
    /\ Go("fg")
    /\ op' = NoOp
    /\ tries' = 0 /\ acked' = FALSE /\ taken' = 0
    /\ UNCHANGED <<fsmVars, monVars, bg, ibiVars, ibiLeft, clash>>

-----------------------------------------------------------------------------
(* The test and the target by themselves. *)

\* Knobs are set while no call is under way.
SetKnobs ==
    /\ ~Busy("fg") /\ chain = "none"
    /\ chain' \in Chains /\ limit' \in Limits
    /\ UNCHANGED <<fsmVars, monVars, script, callVars, enable, bg, ibiLeft, ghosts>>

OfferIbi ==
    /\ ibiLeft = 0 /\ fsm \notin IbiDataStates
    /\ ibiLeft' \in IbiLengths
    /\ UNCHANGED <<fsmVars, monVars, script, callVars, enable, bg, ibiVars, ghosts>>

\* The target begins an IBI: a START the protocol monitor sees as well.
BeginIbi ==
    /\ InitiateIbi(Pending)
    /\ Mon!MonStart(0, 0)
    /\ UNCHANGED <<script, callVars, enable, bg, ibiVars, ibiLeft, ghosts>>

TargetMoves ==
    /\ \/ BusAvailable
       \/ ReleaseInhibit
       \/ \E avail \in BOOLEAN : CheckFByte(avail) \/ CheckSByte(avail)
       \/ TbitSelected(TRUE)
       \/ ByteAccepted
    /\ UNCHANGED <<monVars, script, callVars, enable, bg, ibiVars, ibiLeft, ghosts>>

Bus(who) ==
    \/ SendStart(who) \/ SendStop(who)
    \/ SendReserved(who) \/ SendAddress(who) \/ ReceiveAck(who)
    \/ SendByte(who) \/ SendTbit(who) \/ ReadByte(who) \/ ReadTbit(who)
    \/ AnswerIbi(who)

Coroutines ==
    \/ \E who \in {"fg", "bg"} : Bus(who)
    \/ SendHdrExit \/ Retry
    \/ MonitorWakes \/ MonitorLeaves \/ MonitorSeesStart \/ MonitorLoops
    \/ TakeBusControl \/ EndCall

Test == BeginCall \/ Recover \/ SetKnobs

Init ==
    /\ FsmInit
    /\ Mon!MonInit
    /\ script = [who \in {"fg", "bg"} |-> <<>>]
    /\ op = NoOp /\ tries = 0 /\ acked = FALSE
    /\ enable = TRUE /\ bg = "waiting"
    /\ chain = "none" /\ limit = DefaultLimit
    /\ ibiLeft = 0
    /\ taken = 0 /\ clash = FALSE

Next == Test \/ Coroutines \/ OfferIbi \/ BeginIbi \/ TargetMoves

Spec == Init /\ [][Next]_vars /\ WF_vars(Coroutines) /\ WF_vars(TargetMoves)

-----------------------------------------------------------------------------

TypeOK ==
    /\ FsmTypeOK
    /\ Mon!MonTypeOK
    /\ tries \in 0..MaxRetries
    /\ acked \in BOOLEAN /\ enable \in BOOLEAN /\ clash \in BOOLEAN
    /\ bg \in {"waiting", "listening", "serving"}
    /\ chain \in Chains /\ limit \in Limits
    /\ taken \in Nat /\ ibiLeft \in Nat

\* The protocol monitor, which knows the bus only, and the target's state
\* machine agree on what is going on, whatever was retried, chained, aborted
\* or refused before (_on_addr_ack_fall, _on_start_detected).
TrackersAgree ==
    alarm = "none" /\ ~clash =>
       /\ (phase = "WRITE_DATA") = (fsm = "RxPWriteData")
       /\ (phase = "WRITE_TBIT") = (fsm = "RxPWriteTbit")
       /\ (phase = "IBI_ADDR_ACK") = (fsm = "IbiReadAck")
       /\ fsm = "TxPReadData" => phase = "READ_DATA"
       /\ phase = "READ_DATA" => fsm \in {"TxPReadData", "WaitRestart"}
       /\ fsm = "IbiSendData" => phase \in {"IBI_MDB", "IBI_DATA"}
       /\ phase \in {"IBI_MDB", "IBI_DATA"} => fsm \in {"IbiSendData", "WaitRestart"}
       /\ fsm \in {"TxAckFByte", "TxAckSByte"} => phase = "ADDR_ACK"
       /\ phase = "CCC_BYTE" => fsm \in {"RxSByte", "DoCCC", "InHDRMode"}
       /\ Contends => phase = "ADDR_BITS" /\ ~repeated

\* A conforming target raises no alarm.
NoFalseAlarm == [][alarm' = alarm \/ clash]_alarm

\* When a write returns, its acknowledge tells what the target took: all of
\* the data or none, however often the call was retried (i3c_write).
AckTellsDelivery ==
    At("fg", "give") /\ op.kind = "write" /\ op.good /\ ~clash =>
        taken = IF acked THEN op.n ELSE 0

\* The caller and the background monitor never both run on the bus
\* (take_bus_control, _run).
OneDriver == Busy("bg") => ~Busy("fg") \/ At("fg", "take")

\* Every call returns.
CallReturns == op.kind # "none" ~> op.kind = "none"

=============================================================================
