----------------------------- MODULE RecoveryBus -----------------------------
(***************************************************************************)
(* The bench's recovery calls (i3c_recovery_interface_fixed.py) and private *)
(* writes to the main target, against the device of Recovery, with its      *)
(* firmware.  A call is a sequence of bus steps.  One with stop=False ends   *)
(* in a repeated START, and the next one goes on from there.                *)
(*                                                                         *)
(* The firmware keeps the rules of its guide: it has taken every message    *)
(* before the next call, and cleared what a rejected command left in the RX *)
(* queue, unless "leftovers" is among Corners.                              *)
(***************************************************************************)
EXTENDS Recovery

CONSTANTS
    Cmds,       \* the calls
    MaxCmds,    \* how many of them one behaviour has
    MaxTx,      \* words firmware queues for the controller to read
    Corners     \* rules that are not kept

ASSUME RecoveryBusAssumption == {MaxCmds, MaxTx} \subseteq Nat /\ Corners \subseteq {"leftovers"}

VARIABLES
    op,         \* the call under way or made last
    todo,       \* its steps left
    calls,      \* calls made
    held,       \* the bus has not been stopped
    acked,      \* the answer to the last address
    heard,      \* the bytes read
    ended,      \* the target ended that read
    told,       \* the registers as the controller has written them (ghost)
    due,        \* what is to become of the call (ghost)
    before,     \* what became of the one before it (ghost)
    image,      \* payload the device had taken when the call was made (ghost)
    got         \* words firmware has read from the FIFO since its reset (ghost)

scriptVars == <<op, calls>>
readVars == <<acked, heard, ended>>
ghosts == <<told, due, before, image, got>>
vars == <<recVars, scriptVars, todo, held, readVars, ghosts>>

-----------------------------------------------------------------------------
(* Calls as steps. *)

Step(do) == <<[do |-> do]>>
Header(a, read) == <<[do |-> "addr", a |-> a, read |-> read]>>
Reserved == (IF held THEN <<>> ELSE Step("start")) \o Header("7E", FALSE) \o Step("start")
End(o) == Step(IF o.stop THEN "stop" ELSE "start")

WriteBytes(bytes, bad) == [i \in 1..Len(bytes) |-> [do |-> "byte", b |-> bytes[i], good |-> i # bad]]

\* The PEC of the bytes, or one that does not fit them.
Pec(o, bytes) == IF o.pec THEN FlattenSeq(<<VirtByte(FALSE)>> \o bytes) ELSE Zero

\* The packet of command_write with its length, as it is claimed to be, and
\* with bytes too many; the call sends so many of them.
Packet(o) ==
    LET body == <<<<o.cmd>>, <<o.claim % 256>>, <<o.claim \div 256>>>> \o o.data IN
    body \o <<Pec(o, body)>> \o [i \in 1..o.extra |-> Zero]

CommandWrite(o) ==
    Reserved \o Header("virt", FALSE) \o WriteBytes(SubSeq(Packet(o), 1, o.sent), o.bad) \o End(o)

RecoveryRead(o) ==
    Step("start") \o Header("virt", TRUE) \o <<[do |-> "read", n |-> o.n]>>

CommandRead(o) ==
    Reserved \o Header("virt", FALSE) \o WriteBytes(<<<<o.cmd>>, Pec(o, <<<<o.cmd>>>>)>>, o.bad)
    \o RecoveryRead(o) \o End(o)

I3cWrite(o) == Reserved \o Header("main", FALSE) \o WriteBytes(o.data, 0) \o End(o)

SendAddressOnly(o) == Reserved \o Header(o.to, FALSE) \o Step("stop")

Script(o) ==
    CASE o.kind = "write" -> CommandWrite(o)
      [] o.kind = "read" -> CommandRead(o)
      [] o.kind = "message" -> I3cWrite(o)
      [] o.kind = "address" -> SendAddressOnly(o)
      [] o.kind = "stop" -> Step("stop")

-----------------------------------------------------------------------------
(* What a call should come to, by the packet that was sent. *)

\* A byte of bad parity and all that follow are dropped.
Received(o) == IF o.bad \in 1..o.sent THEN o.bad - 1 ELSE o.sent

Permitted(o) == ~Unsupported(o.cmd) /\ ~(o.kind = "write" /\ o.cmd \in ReadOnly)

\* All of it, and no more than the RX queue and its converter hold.
Whole(o) == Received(o) = o.claim + 4 /\ o.claim <= 4 * (RxDepth + 1)

\* A T-bit of bad parity on a length byte or on the PEC (recovery_flow.md,
\* errors of a command, 5).
HeaderParity(o) ==
    \/ o.kind = "write" /\ o.bad \in {2, 3, o.claim + 4}
    \/ o.kind = "read" /\ o.bad = 2

DueOfWrite(o) ==
    CASE HeaderParity(o) -> CRC
      [] ~HeaderParity(o) /\ ~Whole(o) -> LENGTH
      [] Whole(o) /\ ~o.pec -> CRC
      [] Whole(o) /\ o.pec ->
           IF o.cmd # INDIRECT_FIFO_DATA /\ o.claim # Length(o.cmd) THEN LENGTH
           ELSE IF Permitted(o) THEN OK ELSE READONLY

DueOfRead(o) ==
    IF HeaderParity(o) \/ ~o.pec THEN CRC ELSE IF Permitted(o) THEN OK ELSE READONLY

Due(o) ==
    CASE o.kind = "write" -> DueOfWrite(o)
      [] o.kind = "read" -> DueOfRead(o)
      [] o.kind = "address" /\ o.to = "virt" -> LENGTH
      [] OTHER -> regs.prot

Writes(o, c) == o.kind = "write" /\ o.cmd = c /\ Due(o) = OK

AfterCall(o) ==
    CASE Writes(o, DEVICE_RESET) -> [told EXCEPT !.reset = o.data]
      [] Writes(o, RECOVERY_CTRL) -> [told EXCEPT !.ctrl = o.data]
      [] Writes(o, INDIRECT_FIFO_CTRL) ->
           [told EXCEPT !.cms = o.data[1], !.size = SubSeq(o.data, 3, 6)]
      [] OTHER -> told

ResetsFifo(o) == Writes(o, INDIRECT_FIFO_CTRL) /\ o.data[2] = <<1>>

\* The payload as words of the FIFO.
Words(data) ==
    [i \in 1..DataWords(Len(data)) |-> SubSeq(Padded(data), 4 * i - 3, 4 * i)]

-----------------------------------------------------------------------------
(* The steps. *)

At(do) == todo # <<>> /\ Head(todo).do = do /\ Settled

Go == todo' = Tail(todo)

This == Head(todo)

AtRest == todo = <<>> /\ Settled

Drained == descq = <<>> /\ ("leftovers" \in Corners \/ (rxq = <<>> /\ conv = <<>>))

\* After a byte of bad parity the controller stops the bus.
Call(o) ==
    /\ AtRest /\ calls < MaxCmds
    /\ IF o.kind = "stop" THEN held ELSE Drained /\ ~parityErr
    /\ op' = o /\ todo' = Script(o) /\ calls' = calls + 1
    /\ acked' = FALSE /\ heard' = <<>> /\ ended' = FALSE
    /\ told' = AfterCall(o)
    /\ due' = Due(o) /\ before' = regs.prot
    /\ image' = IF ResetsFifo(o) THEN <<>> ELSE got \o fifo
    /\ got' = IF ResetsFifo(o) THEN <<>> ELSE got
    /\ UNCHANGED <<recVars, held>>

SendStart ==
    /\ At("start") /\ Go
    /\ IF held THEN EndOfTransfer(FALSE) /\ UNCHANGED mode ELSE StartOfTransfer /\ UNCHANGED mode
    /\ held' = TRUE
    /\ UNCHANGED <<scriptVars, readVars, ghosts>>

SendStop ==
    /\ At("stop") /\ Go
    /\ EndOfTransfer(TRUE) /\ UNCHANGED mode
    /\ held' = FALSE
    /\ UNCHANGED <<scriptVars, readVars, ghosts>>

\* Without an acknowledgement the call skips to its end.
SendAddress ==
    /\ At("addr")
    /\ AddressSeen(This.a, This.read) /\ UNCHANGED mode
    /\ acked' = (addressed' # "none" \/ This.a = "7E")
    /\ todo' = IF acked' THEN Tail(todo) ELSE Step("stop")
    /\ UNCHANGED <<scriptVars, held, heard, ended, ghosts>>

SendDataByte ==
    /\ At("byte") /\ Go
    /\ ByteSeen(This.b, This.good) /\ UNCHANGED mode
    /\ UNCHANGED <<scriptVars, held, readVars, ghosts>>

\* The bytes of a read, until the target ends it or, after the n-th one, the
\* controller with a repeated START in the T-bit.
ReceiveByte ==
    /\ At("read") /\ ~ended /\ This.n # 0
    /\ Answering /\ SendByte
    /\ heard' = Append(heard, TxByte)
    /\ ended' = (state = "TxPec")
    /\ todo' = IF ended' THEN Tail(todo)
               ELSE <<[do |-> "read", n |-> This.n - 1]>> \o Tail(todo)
    /\ UNCHANGED <<scriptVars, held, acked, ghosts>>

AbortRead ==
    /\ At("read") /\ ~ended /\ This.n = 0
    /\ Go
    /\ EndOfTransfer(FALSE) /\ UNCHANGED mode
    /\ UNCHANGED <<scriptVars, held, readVars, ghosts>>

DeviceSteps ==
    /\ CmdDispatch \/ ExecCsrWrite \/ ExecFifoWrite
    /\ UNCHANGED <<scriptVars, todo, held, readVars, ghosts>>

\* Words from before a reset under way do not count.
FwReadFifo ==
    /\ ReadFifo
    /\ got' = IF ~AtRest /\ ResetsFifo(op) THEN got ELSE Append(got, Head(fifo))
    /\ UNCHANGED <<scriptVars, todo, held, readVars, told, due, before, image>>

FwReadMessage ==
    /\ ReadMessage
    /\ UNCHANGED <<scriptVars, todo, held, readVars, ghosts>>

\* After a protocol error, when there is no message under way.
FwResetRxQueue ==
    /\ todo = <<>> /\ descq = <<>> /\ regs.prot # OK
    /\ rxq # <<>> \/ conv # <<>>
    /\ ResetRxQueue
    /\ UNCHANGED <<scriptVars, todo, held, readVars, ghosts>>

FwQueueTx ==
    /\ tx < MaxTx /\ QueueTx
    /\ UNCHANGED <<scriptVars, todo, held, readVars, ghosts>>

Init ==
    /\ RecInit
    /\ op = [kind |-> "none"] /\ todo = <<>> /\ calls = 0 /\ held = FALSE
    /\ acked = FALSE /\ heard = <<>> /\ ended = FALSE
    /\ told = [reset |-> regs.reset, ctrl |-> regs.ctrl, cms |-> regs.cms, size |-> regs.size]
    /\ due = OK /\ before = OK /\ image = <<>> /\ got = <<>>

Next ==
    \/ \E o \in Cmds : Call(o)
    \/ SendStart \/ SendStop \/ SendAddress \/ SendDataByte
    \/ ReceiveByte \/ AbortRead
    \/ DeviceSteps
    \/ FwReadFifo \/ FwReadMessage \/ FwResetRxQueue \/ FwQueueTx

\* The firmware answers payload_available.
Fairness == WF_vars(FwReadFifo)

Spec == Init /\ [][Next]_vars /\ Fairness

-----------------------------------------------------------------------------
(* Properties. *)

\* Between calls the recovery registers hold what complete and correct
\* commands have written, whatever was cut short, damaged or refused.
RegistersAsWritten ==
    AtRest =>
        /\ regs.reset = told.reset /\ regs.ctrl = told.ctrl
        /\ regs.cms = told.cms /\ regs.size = told.size

FifoWrite == op.kind = "write" /\ op.cmd = INDIRECT_FIFO_DATA /\ due = OK

\* DEVICE_STATUS goes from what the command before left to the verdict on this
\* one in a single step, and the verdict is on its own fault: CRC before length
\* before the rest; a payload that does not fit is a length error.  Of bad
\* parity on a length byte or the PEC it is said only that it is no success: the
\* code the documents promise, due, is not the one reported (README).
StatusRight ==
    LET full == FifoWrite /\ got \o fifo # image \o Words(op.data)
    IN  /\ ~HeaderParity(op) =>
             /\ regs.prot \in {before, due} \cup (IF FifoWrite THEN {LENGTH} ELSE {})
             /\ AtRest => regs.prot = IF full THEN LENGTH ELSE due
        /\ HeaderParity(op) /\ AtRest => regs.prot # OK

\* The indirect FIFO has taken the words of complete payloads, in their order
\* and up to the one that did not fit, and the indices count them.
FifoDelivers ==
    AtRest =>
        /\ IF FifoWrite
           THEN IsPrefix(image, got \o fifo) /\ IsPrefix(got \o fifo, image \o Words(op.data))
           ELSE got \o fifo = image
        /\ ptr.write = Len(got \o fifo) % FifoDepth
        /\ ptr.read = Len(got) % FifoDepth

\* The reference for a read; the flags and READ_INDEX move with the firmware.
ReadData(c) ==
    CASE c = DEVICE_STATUS -> [Bytes(c) EXCEPT ![2] = before]
      [] c = DEVICE_RESET -> told.reset
      [] c = RECOVERY_CTRL -> told.ctrl
      [] c = INDIRECT_FIFO_CTRL -> <<told.cms, Zero>> \o told.size
      [] c = INDIRECT_FIFO_STATUS ->
           [i \in 1..Length(c) |->
              IF i \in {1, 9} /\ i + 2 <= Len(heard) THEN heard[i + 2]
              ELSE IF i = 5 THEN <<Len(image) % FifoDepth>> ELSE Bytes(c)[i]]
      [] OTHER -> Bytes(c)

\* A read is acknowledged exactly if its command was in order, and answers with
\* its length, the registers as they are between commands and their PEC.
AnswerRight ==
    op.kind = "read" =>
        LET data == ReadData(op.cmd)
            packet == <<<<Length(op.cmd)>>, Zero>> \o data
            whole == Append(packet, FlattenSeq(<<VirtByte(TRUE)>> \o packet))
        IN  /\ At("read") => due = OK
            /\ todo = <<>> /\ due = OK => heard # <<>>
            /\ IsPrefix(heard, whole)
            /\ ended => heard = whole

\* The firmware's queue has the private writes and nothing of the recovery.
OnlyMessages ==
    AtRest /\ descq # <<>> =>
        /\ op.kind = "message"
        /\ descq = <<Len(op.data)>>
        /\ FlattenSeq(rxq) \o conv = Padded(op.data)

\* A full FIFO, or what is left when the image is activated, reaches the firmware.
ImageDelivered ==
    (Len(fifo) = FifoDepth \/ (regs.ctrl[3] = <<15>> /\ fifo # <<>>)) ~> fifo = <<>>

=============================================================================
