------------------------------- MODULE Recovery -------------------------------
(***************************************************************************)
(* The recovery interface behind the virtual target address: the receiver  *)
(* that takes commands from the bus and executes them                      *)
(* (recovery/recovery_receiver.sv), and the queues it shares with the main *)
(* target (recovery/recovery_handler.sv).  One operator per event of the   *)
(* bus and one action per internal step.  All error detection is enabled,  *)
(* as after reset; HDR mode and the bypass of the bus are left out.        *)
(*                                                                         *)
(* A byte of the bus is a tuple.  A byte that was sent has one element, one *)
(* of a register that nobody writes is named by its place, and a PEC is    *)
(* the bytes it covers, one after the other: two PECs are equal exactly if *)
(* they cover the same bytes.                                              *)
(***************************************************************************)
EXTENDS Integers, SequencesExt

CONSTANTS
    RxDepth,      \* words of the RX data queue
    FifoDepth     \* words of the indirect FIFO, IndirectFifoDepth

ASSUME RecoveryDepthsAssumption == {RxDepth, FifoDepth} \subseteq Nat \ {0}

VARIABLES
    addressed,  \* what the FSM is addressed for: virtW, virtR, mainW or none
    parityErr,  \* parity_err of the FSM: bytes are dropped until it is Idle
    rxErr,      \* rx_error of the RX descriptor under construction
    count,      \* byte_counter of that descriptor
    conv,       \* bytes in the 8toN converter
    rxq,        \* the RX data queue
    descq,      \* lengths in the RX descriptor queue
    state,      \* state_q
    r,          \* the other registers of the receiver
    regs,       \* the recovery registers a command may change
    mode,       \* recovery_mode_csr_active
    fifo,       \* the indirect FIFO
    ptr,        \* WRITE_INDEX and READ_INDEX
    payload,    \* payload_available_o
    tx          \* words of firmware in the TX data queue and the Nto8 converter

pathVars == <<addressed, parityErr, rxErr, count>>
queueVars == <<conv, rxq, descq>>
deviceVars == <<regs, fifo, ptr, payload>>
recVars == <<pathVars, queueVars, state, r, deviceVars, mode, tx>>

\* protocol_error_e
OK == <<0>>
READONLY == <<1>>
LENGTH == <<3>>
CRC == <<4>>

\* command_e
PROT_CAP == 34
DEVICE_ID == 35
DEVICE_STATUS == 36
DEVICE_RESET == 37
RECOVERY_CTRL == 38
RECOVERY_STATUS == 39
HW_STATUS == 40
INDIRECT_STATUS == 42
INDIRECT_FIFO_CTRL == 45
INDIRECT_FIFO_STATUS == 46
INDIRECT_FIFO_DATA == 47

ReadOnly == {PROT_CAP, DEVICE_ID, DEVICE_STATUS, HW_STATUS, INDIRECT_STATUS, INDIRECT_FIFO_STATUS}

Length(c) ==
    CASE c = PROT_CAP -> 15
      [] c = DEVICE_ID -> 24
      [] c = DEVICE_STATUS -> 7
      [] c \in {DEVICE_RESET, RECOVERY_CTRL} -> 3
      [] c = RECOVERY_STATUS -> 2
      [] c = INDIRECT_FIFO_CTRL -> 6
      [] c = INDIRECT_FIFO_STATUS -> 20
      [] OTHER -> 4

Unsupported(c) == c \notin PROT_CAP..INDIRECT_FIFO_DATA \/ (~mode /\ c > RECOVERY_STATUS)

DataWords(n) == (n + 3) \div 4

Zero == <<0>>

Padded(bytes) == bytes \o [i \in 1..(4 * DataWords(Len(bytes)) - Len(bytes)) |-> Zero]

\* The address byte of the virtual target.
VirtByte(read) == IF read THEN <<181>> ELSE <<180>>

InHeader == state \in {"RxCmd", "RxLenL", "RxLenH", "RxPec"}
Executing == state \in {"ExecCsrWrite", "ExecFifoWrite"}
Answering == state \in {"TxLenL", "TxLenH", "TxData", "TxPec"}

\* Slip: the queues are taken back as soon as the receiver does not listen.
MutPending ==
    \/ addressed \in {"virtW", "virtR"} /\ state # "Error"
    \/ state \in {"CmdDispatch", "TxDesc"} \/ Executing \/ Answering

\* recovery_pending, which takes the queues from the main target.
Pending ==
    \/ addressed \in {"virtW", "virtR"}
    \/ state \in {"CmdDispatch", "TxDesc"} \/ Executing \/ Answering

CmdLen == r.lenL[1] + 256 * r.lenH[1]

-----------------------------------------------------------------------------
(* The queues. *)

Room == Len(rxq) < RxDepth

\* A byte for the converter, which hands over a full word at once if it can.
Pack(b) ==
    LET word == Append(conv, b)
        full == Len(word) = 4 /\ Room
    IN  /\ rxq' = IF full THEN Append(rxq, word) ELSE rxq
        /\ conv' = IF full THEN <<>> ELSE word

Flush ==
    LET pushed == conv # <<>> /\ Room IN
    /\ rxq' = IF pushed THEN Append(rxq, Padded(conv)) ELSE rxq
    /\ conv' = IF pushed THEN <<>> ELSE Padded(conv)

PopWord ==
    /\ rxq' = Tail(rxq) \o (IF Len(conv) = 4 THEN <<conv>> ELSE <<>>)
    /\ conv' = IF Len(conv) = 4 THEN <<>> ELSE conv

Clear == conv' = <<>> /\ rxq' = <<>> /\ descq' = <<>>

\* Slip: the pointer that wraps one word late.
MutNext(i) == IF i = FifoDepth THEN 0 ELSE i + 1

Next1(i) == IF i = FifoDepth - 1 THEN 0 ELSE i + 1

\* Slip: the payload is withdrawn as soon as the FIFO is no longer full.
MutPayloadAvailable ==
    payload' = (Len(fifo') = FifoDepth \/ (regs'.ctrl[3] = <<15>> /\ fifo' # <<>>))

\* payload_available_q follows the FIFO and the activation of the image.
PayloadAvailable ==
    payload' =
        IF Len(fifo') = FifoDepth \/ (regs'.ctrl[3] = <<15>> /\ fifo' # <<>>) THEN TRUE
        ELSE IF fifo' = <<>> THEN FALSE ELSE payload

-----------------------------------------------------------------------------
(* How a command ends.  The queues are cleared only while recovery_pending *)
(* holds, the converters are reset in the Error state in any case.  The    *)
(* Nto8 converter accepts words in reset: it empties the TX data queue.    *)

Report(code) ==
    /\ regs' = [regs EXCEPT !.prot = code]
    /\ UNCHANGED <<fifo, ptr, payload>>

\* Into Error, until the next START or STOP.
Fail(code, cleared) ==
    /\ state' = "Error" /\ Report(code)
    /\ IF cleared THEN Clear ELSE conv' = <<>> /\ UNCHANGED <<rxq, descq>>
    /\ tx' = 0
    /\ UNCHANGED r

\* Through Error in one cycle (premature_stop_q): the word in the converter is lost.
FailAndEnd(code) ==
    /\ state' = "Idle" /\ Report(code) /\ Clear
    /\ tx' = IF tx = 0 THEN 0 ELSE tx - 1
    /\ UNCHANGED r

Quiet == UNCHANGED <<queueVars, state, r, deviceVars, tx>>

-----------------------------------------------------------------------------
(* START, repeated START and STOP. *)

\* A repeated START instead of the length's second byte: a read, whose first
\* length byte was the PEC.
EndOfLenH ==
    IF rxErr
    THEN Fail(CRC, TRUE)
    ELSE /\ state' = "CmdDispatch"
         /\ r' = [r EXCEPT !.isRd = TRUE, !.pecRecv = r.lenL, !.lenL = Zero, !.lenH = Zero]
         /\ UNCHANGED <<queueVars, deviceVars, tx>>

EndOfPec ==
    IF r.npec = 0 THEN FailAndEnd(LENGTH)
    ELSE IF rxErr THEN Fail(CRC, TRUE)
    ELSE /\ state' = "CmdDispatch"
         /\ IF r.nbytes % 4 # 0 THEN Flush ELSE UNCHANGED <<conv, rxq>>
         /\ UNCHANGED <<descq, r, deviceVars, tx>>

\* The end of a write to the main target, or to a receiver that does not
\* listen: the descriptor is hidden while recovery_pending.
EndOfMessage ==
    /\ descq' = IF Pending THEN descq ELSE Append(descq, count)
    /\ IF state = "Error" THEN state' = "Idle" /\ conv' = <<>> /\ UNCHANGED rxq
       ELSE Flush /\ UNCHANGED state
    /\ UNCHANGED <<r, deviceVars, tx>>

\* A STOP or a repeated START.
EndOfTransfer(stop) ==
    /\ addressed' = "none" /\ rxErr' = FALSE /\ count' = 0
    /\ parityErr' = (parityErr /\ ~stop)
    /\ CASE state \in {"RxCmd", "RxLenL", "RxData"} \/ (state = "RxLenH" /\ stop) ->
              FailAndEnd(LENGTH)
         [] state = "RxLenH" /\ ~stop -> EndOfLenH
         [] state = "RxPec" -> EndOfPec
         [] state = "TxDesc" /\ stop -> Fail(READONLY, FALSE)
         [] Answering /\ ~stop ->
              /\ state' = "Idle" /\ Report(OK)
              /\ UNCHANGED <<queueVars, r, tx>>
         [] /\ ~InHeader /\ state # "RxData" /\ addressed \in {"mainW", "virtW"}
            /\ (state = "TxDesc" => ~stop) /\ (Answering => stop) -> EndOfMessage
         [] state = "Error" /\ addressed \notin {"mainW", "virtW"} ->
              state' = "Idle" /\ UNCHANGED <<queueVars, r, deviceVars, tx>>
         [] OTHER -> Quiet

\* A START on a free bus.
StartOfTransfer ==
    /\ state' = IF state = "Error" THEN "Idle" ELSE state
    /\ UNCHANGED <<pathVars, queueVars, r, deviceVars, tx>>

-----------------------------------------------------------------------------
(* An address byte: virt or main, the target's, or other, 7E included. *)

\* The Error state clears the queues once the virtual target is addressed again.
StayInError == Clear /\ UNCHANGED <<state, r, deviceVars, tx>>

VirtualWrite ==
    /\ addressed' = "virtW"
    /\ CASE state = "Idle" ->
              /\ state' = "RxCmd"
              /\ r' = [r EXCEPT !.crc = VirtByte(FALSE), !.isRd = FALSE, !.nbytes = 0, !.npec = 0,
                                !.dcnt = 0, !.bcnt = 0]
              /\ UNCHANGED <<queueVars, deviceVars, tx>>
         [] state = "TxDesc" -> Fail(READONLY, TRUE)
         [] state = "Error" -> StayInError
         [] OTHER -> Quiet

\* A read is acknowledged when the receiver offers a descriptor.
VirtualRead ==
    CASE state = "TxDesc" ->
           /\ addressed' = "virtR"
           /\ state' = "TxLenL"
           /\ r' = [r EXCEPT !.dcnt = r.csrLen, !.crc = VirtByte(TRUE)]
           /\ UNCHANGED <<queueVars, deviceVars, tx>>
      [] state = "Idle" -> addressed' = "none" /\ Fail(READONLY, TRUE)
      [] state = "Error" -> addressed' = "none" /\ StayInError
      [] OTHER -> addressed' = "none" /\ Quiet

OtherAddress(a) ==
    /\ addressed' = IF a = "main" THEN "mainW" ELSE "none"
    /\ IF state = "TxDesc" THEN Fail(READONLY, FALSE) ELSE Quiet

AddressSeen(a, read) ==
    /\ CASE a = "virt" /\ read -> VirtualRead
         [] a = "virt" /\ ~read -> VirtualWrite
         [] OTHER -> OtherAddress(a)
    /\ UNCHANGED <<parityErr, rxErr, count>>

-----------------------------------------------------------------------------
(* A data byte of a write, with its T-bit. *)

\* The receiver takes the bytes around the payload.
HeaderByte(b) ==
    LET crc == r.crc \o b IN
    CASE state = "RxCmd" ->
           state' = "RxLenL" /\ r' = [r EXCEPT !.cmd = b, !.crc = crc]
      [] state = "RxLenL" ->
           state' = "RxLenH" /\ r' = [r EXCEPT !.lenL = b, !.pecCalc = r.crc, !.crc = crc]
      [] state = "RxLenH" ->
           /\ state' = IF r.lenL[1] + 256 * b[1] = 0 THEN "RxPec" ELSE "RxData"
           /\ r' = [r EXCEPT !.lenH = b, !.crc = crc]
      [] state = "RxPec" ->
           r' = [r EXCEPT !.pecRecv = b, !.pecCalc = r.crc, !.npec = @ + 1] /\ UNCHANGED state

PayloadByte(b) ==
    /\ Pack(b)
    /\ r' = [r EXCEPT !.nbytes = @ + 1, !.crc = @ \o b]
    /\ state' = IF r.nbytes + 1 = CmdLen THEN "RxPec" ELSE state

Dropped == UNCHANGED <<queueVars, state, r, deviceVars, tx, count>>

ByteSeen(b, good) ==
    LET whole == good /\ ~parityErr /\ ~rxErr
        header == addressed = "virtW" /\ InHeader
        taken == header \/ state = "Error" \/ Len(conv) < 4
    IN
    /\ parityErr' = (parityErr \/ ~good)
    /\ rxErr' = (rxErr \/ ~good \/ (whole /\ ~taken))
    /\ UNCHANGED addressed
    /\ \/ ~(whole /\ taken) /\ Dropped
       \/ /\ whole /\ taken
          /\ count' = count + 1
          /\ CASE header /\ state = "RxPec" /\ r.npec = 1 -> Fail(LENGTH, TRUE)
               [] header /\ ~(state = "RxPec" /\ r.npec = 1) ->
                    HeaderByte(b) /\ UNCHANGED <<queueVars, deviceVars, tx>>
               [] state = "Error" -> UNCHANGED <<queueVars, state, r, deviceVars, tx>>
               [] state = "RxData" -> PayloadByte(b) /\ UNCHANGED <<descq, deviceVars, tx>>
               [] OTHER -> Pack(b) /\ UNCHANGED <<descq, state, r, deviceVars, tx>>

-----------------------------------------------------------------------------
(* Execution. *)

\* Slip: the length is judged before the PEC.
MutVerdict ==
    IF ~r.isRd /\ r.cmd[1] # INDIRECT_FIFO_DATA /\ CmdLen # Length(r.cmd[1]) THEN LENGTH
    ELSE IF r.pecCalc # r.pecRecv THEN CRC
    ELSE IF (~r.isRd /\ r.cmd[1] \in ReadOnly) \/ Unsupported(r.cmd[1]) THEN READONLY
    ELSE OK

\* The fault of a complete command, the gravest one first.
Verdict ==
    IF r.pecCalc # r.pecRecv THEN CRC
    ELSE IF ~r.isRd /\ r.cmd[1] # INDIRECT_FIFO_DATA /\ CmdLen # Length(r.cmd[1]) THEN LENGTH
    ELSE IF (~r.isRd /\ r.cmd[1] \in ReadOnly) \/ Unsupported(r.cmd[1]) THEN READONLY
    ELSE OK

\* Registers that nobody writes are named by their places.
Bytes(c) ==
    LET named == [i \in 1..Length(c) |-> <<c, i>>] IN
    CASE c = DEVICE_STATUS -> [named EXCEPT ![1] = IF mode THEN <<3>> ELSE Zero, ![2] = regs.prot]
      [] c = DEVICE_RESET -> regs.reset
      [] c = RECOVERY_CTRL -> regs.ctrl
      [] c = INDIRECT_FIFO_CTRL -> <<regs.cms, Zero>> \o regs.size
      [] c = INDIRECT_FIFO_STATUS ->
           LET flags == IF fifo = <<>> THEN 1 ELSE IF Len(fifo) = FifoDepth THEN 2 ELSE 0 IN
           [i \in 1..Length(c) |->
              CASE i = 1 -> <<flags>>
                [] i = 5 -> <<ptr.write>>
                [] i = 9 -> <<ptr.read>>
                [] i = 13 -> <<FifoDepth>>
                [] i \in {2, 17, 18, 19, 20} -> <<c, i>>
                [] OTHER -> Zero]
      [] c \in {PROT_CAP, DEVICE_ID, RECOVERY_STATUS, HW_STATUS} -> named
      [] OTHER -> <<Zero, Zero, Zero, Zero>>

\* csr_data: the i-th word of what a command reads.
CsrData(c, i) == SubSeq(Padded(Bytes(c)), 4 * i + 1, 4 * i + 4)

\* The transfer of a rejected command has ended, and recovery_pending with it:
\* its payload stays in the RX queue.
CmdDispatch ==
    /\ state = "CmdDispatch"
    /\ IF Verdict # OK
       THEN Fail(Verdict, FALSE)
       ELSE /\ state' = CASE r.isRd -> "TxDesc"
                          [] ~r.isRd /\ r.cmd[1] = INDIRECT_FIFO_DATA -> "ExecFifoWrite"
                          [] OTHER -> "ExecCsrWrite"
            /\ r' = [r EXCEPT !.csrSel = 0, !.csrLen = Length(r.cmd[1]),
                              !.csrData = CsrData(r.cmd[1], 0), !.dcnt = DataWords(r.nbytes)]
            /\ UNCHANGED <<queueVars, deviceVars, tx>>
    /\ UNCHANGED <<pathVars, mode>>

\* Slip: the high half of the image size comes from the first word's low half.
MutWritten(w) ==
    CASE r.cmd[1] = DEVICE_RESET -> [regs EXCEPT !.reset = SubSeq(w, 1, 3)]
      [] r.cmd[1] = RECOVERY_CTRL -> [regs EXCEPT !.ctrl = SubSeq(w, 1, 3)]
      [] r.cmd[1] = INDIRECT_FIFO_CTRL /\ r.csrSel = 0 -> [regs EXCEPT !.cms = w[1]]
      [] r.cmd[1] = INDIRECT_FIFO_CTRL /\ r.csrSel = 1 ->
           [regs EXCEPT !.size = SubSeq(r.prev, 1, 2) \o SubSeq(w, 1, 2)]
      [] OTHER -> regs

\* The word w written to register csrSel of the command; other registers are
\* not writable and the word is dropped.
Written(w) ==
    CASE r.cmd[1] = DEVICE_RESET -> [regs EXCEPT !.reset = SubSeq(w, 1, 3)]
      [] r.cmd[1] = RECOVERY_CTRL -> [regs EXCEPT !.ctrl = SubSeq(w, 1, 3)]
      [] r.cmd[1] = INDIRECT_FIFO_CTRL /\ r.csrSel = 0 -> [regs EXCEPT !.cms = w[1]]
      [] r.cmd[1] = INDIRECT_FIFO_CTRL /\ r.csrSel = 1 ->
           [regs EXCEPT !.size = SubSeq(r.prev, 3, 4) \o SubSeq(w, 1, 2)]
      [] OTHER -> regs

\* INDIRECT_FIFO_CTRL_0.RESET, which clears itself.
Resets(w) == r.cmd[1] = INDIRECT_FIFO_CTRL /\ r.csrSel = 0 /\ w[2] = <<1>>

\* A word of the queue is taken, the last one completes the command.
NextWord(written) ==
    LET last == r.dcnt = 1 IN
    /\ PopWord
    /\ regs' = IF last THEN [written EXCEPT !.prot = OK] ELSE written
    /\ state' = IF last THEN "Idle" ELSE state
    /\ r' = [r EXCEPT !.dcnt = @ - 1, !.prev = Head(rxq), !.csrSel = @ + 1]
    /\ UNCHANGED <<pathVars, descq, mode, tx>>

HasWord == Executing /\ r.dcnt # 0 /\ rxq # <<>>

ExecCsrWrite ==
    /\ HasWord /\ state = "ExecCsrWrite"
    /\ NextWord(Written(Head(rxq)))
    /\ fifo' = IF Resets(Head(rxq)) THEN <<>> ELSE fifo
    /\ ptr' = IF Resets(Head(rxq)) THEN [write |-> 0, read |-> 0] ELSE ptr
    /\ PayloadAvailable

ExecFifoWrite ==
    /\ HasWord /\ state = "ExecFifoWrite"
    /\ IF Len(fifo) = FifoDepth
       THEN /\ state' = "Error" /\ Report(LENGTH)
            /\ conv' = <<>> /\ rxq' = Tail(rxq)
            /\ tx' = 0
            /\ UNCHANGED <<pathVars, descq, r, mode>>
       ELSE /\ NextWord(regs)
            /\ fifo' = Append(fifo, Head(rxq))
            /\ ptr' = [ptr EXCEPT !.write = Next1(@)]
            /\ PayloadAvailable

\* The byte on offer.
TxByte ==
    CASE state = "TxLenL" -> <<r.csrLen % 256>>
      [] state = "TxLenH" -> <<r.csrLen \div 256>>
      [] state = "TxData" -> r.csrData[r.bcnt + 1]
      [] state = "TxPec" -> r.crc

Spoken == [r EXCEPT !.crc = @ \o TxByte]

\* Slip: the selector moves on, but the next word is not captured.
MutNextData ==
    LET next == r.bcnt = 3 /\ r.csrSel + 1 < DataWords(Length(r.cmd[1])) IN
    [Spoken EXCEPT !.dcnt = @ - 1, !.bcnt = (@ + 1) % 4,
                 !.csrSel = IF next THEN @ + 1 ELSE @]

\* The selector moves on after four bytes, and the next word is captured.
NextData ==
    LET next == r.bcnt = 3 /\ r.csrSel + 1 < DataWords(Length(r.cmd[1])) IN
    [Spoken EXCEPT !.dcnt = @ - 1, !.bcnt = (@ + 1) % 4,
                 !.csrSel = IF next THEN @ + 1 ELSE @,
                 !.csrData = IF next THEN CsrData(r.cmd[1], r.csrSel + 1) ELSE @]

\* The bus takes the byte; the PEC is the last.
SendByte ==
    /\ CASE state = "TxLenL" -> state' = "TxLenH" /\ r' = Spoken
         [] state = "TxLenH" -> state' = "TxData" /\ r' = Spoken
         [] state = "TxData" -> state' = (IF r.dcnt = 1 THEN "TxPec" ELSE state) /\ r' = NextData
         [] state = "TxPec" -> state' = "Idle" /\ UNCHANGED r
    /\ IF state = "TxPec" THEN Report(OK) ELSE UNCHANGED deviceVars
    /\ UNCHANGED <<pathVars, queueVars, mode, tx>>

\* The receiver has done what it can without the bus.
Settled == state # "CmdDispatch" /\ ~HasWord

-----------------------------------------------------------------------------
(* Firmware. *)

ReadFifo ==
    /\ payload /\ fifo # <<>>
    /\ fifo' = Tail(fifo) /\ ptr' = [ptr EXCEPT !.read = Next1(@)]
    /\ UNCHANGED regs
    /\ PayloadAvailable
    /\ UNCHANGED <<pathVars, queueVars, state, r, mode, tx>>

\* A message for the main target, with its words.
ReadMessage ==
    LET words == DataWords(Head(descq)) IN
    /\ descq # <<>> /\ ~Pending /\ words <= Len(rxq)
    /\ descq' = Tail(descq) /\ rxq' = SubSeq(rxq, words + 1, Len(rxq))
    /\ UNCHANGED <<pathVars, conv, state, r, deviceVars, mode, tx>>

\* RESET_CONTROL.RX_DATA_RST, which resets the converter too.
ResetRxQueue ==
    /\ ~Pending
    /\ rxq' = <<>> /\ conv' = <<>>
    /\ UNCHANGED <<pathVars, descq, state, r, deviceVars, mode, tx>>

\* A word for a private read of the main target.
QueueTx ==
    /\ tx' = IF state = "Error" THEN tx ELSE tx + 1
    /\ UNCHANGED <<pathVars, queueVars, state, r, deviceVars, mode>>

RecInit ==
    /\ addressed = "none" /\ parityErr = FALSE /\ rxErr = FALSE /\ count = 0
    /\ conv = <<>> /\ rxq = <<>> /\ descq = <<>>
    /\ state = "Idle"
    /\ r = [cmd |-> Zero, lenL |-> Zero, lenH |-> Zero, isRd |-> FALSE, nbytes |-> 0, npec |-> 0,
            crc |-> Zero, pecCalc |-> Zero, pecRecv |-> Zero, dcnt |-> 0, bcnt |-> 0,
            csrSel |-> 0, csrLen |-> 0, csrData |-> Padded(<<Zero>>), prev |-> Padded(<<Zero>>)]
    /\ regs = [reset |-> <<Zero, Zero, Zero>>, ctrl |-> <<Zero, Zero, Zero>>, cms |-> Zero,
               size |-> <<Zero, Zero, Zero, Zero>>, prot |-> OK]
    /\ mode \in BOOLEAN
    /\ fifo = <<>> /\ ptr = [write |-> 0, read |-> 0] /\ payload = FALSE
    /\ tx = 0

=============================================================================
