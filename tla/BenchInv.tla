------------------------------- MODULE BenchInv -------------------------------
(***************************************************************************)
(* The inductive invariants of the bench.  Behind OneDriver: who may be on *)
(* the bus follows from monitor_enable and from where the background       *)
(* monitor stands, and a caller gives the control back in the last step it *)
(* takes.  Behind TrackersAgree: the state of the target fixes the phases  *)
(* the protocol monitor can be in, because the steps of a coroutine come   *)
(* in the order of a frame and the bus is as the next of them expects it.  *)
(* Behind AckTellsDelivery: what is left of a write tells how much of it   *)
(* the target has taken, and an attempt is lost only before the target has *)
(* taken anything, and to two IBIs at most: no STOP follows the second.    *)
(***************************************************************************)
EXTENDS Bench

\* The addresses and the bytes the bench sends.
Addresses == {"rsvdW", "rsvdR", "mainW", "mainR", "virtW", "virtR", "otherW", "otherR"}
Bytes == {"data", "chained", "BCAST", "enec", "disec", "ENTHDR"}

\* What a coroutine does on the bus, and how a caller ends.
Steps ==
    [do : {"start", "stop", "ibiAck", "retry", "hdrExit", "take"}]
    \cup [do : {"addr"}, h : Addresses]
    \cup [do : {"ack"}, h : Addresses, skip : BOOLEAN]
    \cup [do : {"byte"}, c : Bytes]
    \cup [do : {"tbit"}, c : Bytes, good : BOOLEAN]
    \cup [do : {"read", "readTbit"}, k : Nat]

Ends == [do : {"give", "hold"}]

\* Scripts which end, if they do, in their last step.
Endings == {s \in Seq(Steps \cup Ends) : \A i \in 1..(Len(s) - 1) : s[i] \in Steps}

\* The monitor's scripts just run out.
ScriptsOf(who) == IF who = "fg" THEN Endings ELSE Seq(Steps)

ScriptTypeOK ==
    /\ script \in [{"fg", "bg"} -> Seq(Steps \cup Ends)]
    /\ \A who \in {"fg", "bg"} : script[who] \in ScriptsOf(who)

KnobTypeOK ==
    /\ op \in Ops \cup {NoOp, [kind |-> "recover"]}
    /\ chain \in Chains \cup {"none"}
    /\ limit \in Limits

\* The background monitor runs on the bus only while it serves an IBI.
ServesAlone == Busy("bg") => bg = "serving"

\* A caller keeps the monitor disabled from the step that asks for the bus to
\* the one that gives it back.
DisabledInCall == Busy("fg") => ~enable

\* Once the caller has the bus, or holds it between two calls, the monitor
\* waits to be enabled.
MonitorWaits ==
    ~enable => bg = "waiting" \/ At("fg", "take")

BenchInvariant ==
    ScriptTypeOK /\ KnobTypeOK /\ ServesAlone /\ DisabledInCall /\ MonitorWaits

-----------------------------------------------------------------------------
(* The order of the steps. *)

Commands == {"BCAST", "enec", "disec", "ENTHDR"}
PrivateBytes == Bytes \ Commands

Opens == {"start", "stop", "retry", "give", "hold"}
Closes == {"ack", "tbit", "read", "readTbit", "stop"}

\* Step b may come after step a: an address, its acknowledge, the bytes that go
\* with the address, each with its T-bit; ENTHDR only begins a command.
Follows(a, b) ==
    \/ a.do \in {"take", "start"} /\ b.do = (IF a.do = "take" THEN "start" ELSE "addr")
    \/ a.do = "addr" /\ b.do = "ack" /\ b.h = a.h
    \/ /\ a.do = "ack" /\ b.do = "byte" /\ a.h \notin Mon!ReadAddr
       /\ b.c \in IF a.h = "rsvdW" THEN Commands ELSE PrivateBytes
    \/ a.do \in {"ack", "ibiAck"} /\ b.do = "read"
    \/ a.do = "byte" /\ b.do = "tbit" /\ b.c = a.c
    \/ /\ a.do = "tbit" /\ b.do = "byte"
       /\ \/ a.c \in PrivateBytes /\ b.c \in PrivateBytes
          \/ a.c \in Commands /\ b.c \in Commands \ {"ENTHDR"}
    \/ a.do = "hdrExit" /\ b.do = "stop"
    \/ a.do \in Closes /\ b.do \in Opens

\* Of the commands only the first of TE1 has bad parity.
Fits(a) == a.do = "tbit" /\ a.c \in Commands => a.good = (a.c # "ENTHDR")

InOrder(s) ==
    /\ \A i \in 1..Len(s) : Fits(s[i])
    /\ \A i \in 1..(Len(s) - 1) : Follows(s[i], s[i + 1])

-----------------------------------------------------------------------------
(* The target and the protocol monitor. *)

Watched == alarm = "none" /\ ~clash

\* The phases the monitor may be in while the target is in a state.
PhaseFollowsState ==
    /\ fsm \in FsmStates \ {"DoneCCC"}
    /\ fsm \in {"Idle", "InHDRMode"} => phase \in {"IDLE", "HDR_MODE", "ADDR_BITS", "ADDR_ACK"}
    /\ fsm \in {"RxFByteArb", "IbiDriveAddr", "RxFByte", "RxSByteRepeated"} =>
          phase = "ADDR_BITS"
    /\ fsm \in {"CheckFByte", "CheckSByte", "TxAckFByte", "TxAckSByte"} => phase = "ADDR_ACK"
    /\ fsm = "RxSByte" => phase = "CCC_BYTE"
    /\ fsm = "DoCCC" => phase \in {"CCC_BYTE", "CCC_TBIT", "ADDR_BITS", "ADDR_ACK", "IDLE"}
    /\ fsm = "RxPWriteData" => phase = "WRITE_DATA"
    /\ fsm = "RxPWriteTbit" => phase = "WRITE_TBIT"
    /\ fsm = "TxPReadData" => phase = "READ_DATA"
    /\ fsm \in {"TxPReadTbitSel", "TxPReadTbitCont", "TxPReadTbitEnd"} => phase = "READ_TBIT"
    /\ fsm = "IbiReadAck" => phase = "IBI_ADDR_ACK"
    /\ fsm = "IbiSendData" => phase \in {"IBI_MDB", "IBI_DATA"}
    /\ fsm \in {"IbiTbitCont", "IbiTbitEnd"} => phase = "IBI_DATA_TBIT"
    /\ fsm = "WaitRestart" => phase \in {"ADDR_ACK", "IDLE", "READ_DATA", "IBI_DATA"}

\* The states in which the target knows which address it has received.
AddressStates == {"CheckFByte", "CheckSByte", "TxAckFByte", "TxAckSByte"}

SamePlace ==
    Watched =>
       /\ PhaseFollowsState
       /\ fsm \in {"RxFByteArb", "IbiDriveAddr"} => ~repeated /\ bus = "active"
       /\ fsm \in AddressStates => seen \in Addresses /\ header = FsmHeader(seen)
       /\ fsm \in {"TxAckFByte", "TxAckSByte"} => header \in Ours \cup {"rsvdW"}
       /\ fsm = "RxSByte" => nth = 0

\* Out of a frame both wait for a START, the target perhaps in HDR mode.
BetweenFrames ==
    /\ alarm = "none" /\ bus # "active" =>
          phase = "IDLE" /\ ~active /\ fsm \in {"Idle", "InHDRMode"}
    /\ alarm = "none" /\ clash => bus = "active"

Together == SamePlace /\ BetweenFrames /\ retryNum = 7

\* What the next step of a coroutine expects of the monitor's phase.
Expects(s) ==
    LET step == Head(s)
    IN  /\ step.do = "addr" => phase \in {"ADDR_BITS", "HDR_MODE"}
        /\ step.do = "ack" =>
              /\ phase \in {"ADDR_ACK", "HDR_MODE"}
              /\ fsm \in AddressStates => header = FsmHeader(step.h)
        /\ step.do = "byte" =>
              /\ phase \in {"IDLE", "HDR_MODE", "WRITE_DATA", "CCC_BYTE"}
              /\ phase = "CCC_BYTE" =>
                    step.c \in Commands /\ (step.c = "ENTHDR" => fsm = "RxSByte")
        /\ step.do = "tbit" =>
              /\ phase \in {"IDLE", "HDR_MODE", "WRITE_TBIT", "CCC_TBIT"}
              /\ phase = "CCC_TBIT" => step.c \in Commands /\ (step.c = "ENTHDR" => nth = 0)
        /\ step.do \in {"addr", "ack", "byte", "tbit"} => bus = "active"

ScriptsInOrder == \A who \in {"fg", "bg"} : InOrder(script[who])

NextStepFits == \A who \in {"fg", "bg"} : Watched /\ Busy(who) => Expects(script[who])

TrackingInvariant == ScriptsInOrder /\ NextStepFits /\ Together

-----------------------------------------------------------------------------
(* What a write delivers, whatever the protocol monitor makes of it. *)

FrameOver == bus # "active" => fsm \in {"Idle", "InHDRMode"}

WriteStates == {"RxPWriteData", "RxPWriteTbit"}
Arbitrates == {"RxFByteArb", "IbiDriveAddr"}

\* What the next step of a coroutine expects of the target.
Hears(s) ==
    LET step == Head(s)
    IN  /\ step.do = "addr" => fsm \notin AddressStates \cup WriteStates
        /\ step.do = "ack" =>
              /\ fsm \notin WriteStates
              /\ fsm \in AddressStates => header = FsmHeader(step.h)
              /\ fsm \in {"TxAckFByte", "TxAckSByte"} => header \in Ours \cup {"rsvdW"}
        /\ step.do = "byte" => fsm # "RxPWriteTbit"
        /\ step.do \in {"byte", "tbit"} => (fsm \in WriteStates => step.c \in PrivateBytes)
        /\ step.do \in {"addr", "ack", "byte", "tbit"} => bus = "active"

StepsHeard == \A who \in {"fg", "bg"} : Busy(who) => Hears(script[who])

\* A step that neither delivers data of a write nor spoils its parity.
Plain(a) == a.do = "tbit" => a.c # "data" /\ (a.c \in PrivateBytes => a.good)

Clean(s) == \A i \in 1..Len(s) : Plain(s[i])

\* A test that spoils the parity of a write ends it with a STOP.
BadWritesStop == \A o \in Ops : o.kind = "write" /\ ~o.good => o.stop

\* The i-th step of a write that begins with 7E/W; without, it begins with the
\* fourth.
CallLength(o) == 7 + 2 * o.n + (IF o.stop THEN 1 ELSE 0)

CallStep(o, i) ==
    IF i \in {1, 4} THEN start
    ELSE IF i = 2 THEN addr("rsvdW")
    ELSE IF i = 3 THEN ack("rsvdW", FALSE)
    ELSE IF i = 5 THEN addr(o.to)
    ELSE IF i = 6 THEN ack(o.to, TRUE)
    ELSE IF i <= 6 + 2 * o.n THEN (IF i % 2 = 1 THEN byte("data") ELSE tbit("data", o.good))
    ELSE IF i = 7 + 2 * o.n /\ o.stop THEN stop
    ELSE [do |-> "give"]

FirstStep(o) == IF o.rsvd THEN 1 ELSE 4

\* s is what is left of the write from its j-th step on.
LeftFrom(s, o, j) ==
    /\ Len(s) = CallLength(o) + 1 - j
    /\ \A i \in 1..Len(s) : s[i] = CallStep(o, i + j - 1)

\* The write has asked for the bus.
Asked ==
    /\ At("fg", "take") /\ LeftFrom(Tail(script["fg"]), op, FirstStep(op))
    /\ taken = 0 /\ ~parityErr /\ tries = 0

\* What the target has taken when the j-th step is next.
TakenBefore(j) ==
    IF j <= 6 THEN taken = 0 /\ ~parityErr
    ELSE IF j <= 6 + 2 * op.n
    THEN /\ acked /\ fsm = (IF j % 2 = 1 THEN "RxPWriteData" ELSE "RxPWriteTbit")
         /\ op.good => taken = (j - 7) \div 2 /\ ~parityErr
    ELSE /\ op.good => taken = IF acked THEN op.n ELSE 0
         /\ parityErr => ~op.good /\ fsm = "RxPWriteData" /\ j = 7 + 2 * op.n

\* No IBI can win the bus before the next STOP.
NoContest == bus = "active" /\ fsm \notin Arbitrates

\* The write is under way: its attempts are lost to at most two IBIs.
Underway ==
    \E j \in FirstStep(op)..CallLength(op) :
       /\ LeftFrom(script["fg"], op, j) /\ TakenBefore(j)
       /\ tries \in 0..2 /\ (tries > 0 => chain = "none")
       /\ tries = 2 /\ j <= 2 => NoContest

\* An attempt has been lost, the IBI and what was chained to it are served.
Serves == {"start", "stop", "addr", "ack", "byte", "tbit", "read", "readTbit", "ibiAck"}

Lost ==
    LET s == script["fg"]
    IN  /\ s # <<>> /\ s[Len(s)].do = "retry"
        /\ \A i \in 1..(Len(s) - 1) : s[i].do \in Serves
        /\ Clean(s)
        /\ taken = 0 /\ ~parityErr /\ chain = "none" /\ tries \in 0..1
        /\ tries = 1 =>
              NoContest /\ \A i \in 1..(Len(s) - 1) : s[i].do \in {"ibiAck", "read", "readTbit"}

\* No write is under way.
OtherCall ==
    /\ Clean(script["fg"]) /\ taken = 0 /\ ~parityErr
    /\ Busy("fg") => script["fg"][Len(script["fg"])].do \in {"give", "hold", "retry"}
    /\ ~Busy("fg") => tries = 0

\* A write loses at most two attempts.
FewRetries == op.kind = "write" => tries <= 2

DeliveryInvariant ==
    /\ FrameOver /\ StepsHeard /\ Clean(script["bg"])
    /\ IF op.kind = "write" THEN Asked \/ Underway \/ Lost ELSE OtherCall

=============================================================================
