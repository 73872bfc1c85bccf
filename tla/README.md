# A TLA+ verification of the I3C core's target side and its bench

This directory holds TLA+ specifications of the I3C core (`src/src/`, SystemVerilog),
of the Python bench that drives it (`src/verification/cocotb/`), the TLC configurations that
check them on small instances, and TLAPS proofs about in-band interrupts, private reads and writes,
and register accesses. `PROJECT.json` maps every definition to the source lines it stands for and
lists the runs, the mutations each property is shown to notice, the findings, the hazards
and the theorems.

## 1. The system

The core is an I3C target (and, in a configuration of its own, an active controller) behind
an AXI or AHB register bus. Firmware talks to it through queues; the I3C controller talks
to it over SDA and SCL.

| Part | Source | State it keeps | Operations | What makes it correct |
|---|---|---|---|---|
| IBI descriptor handler | `ctrl/descriptor_ibi.sv` | state, payload length, word count, byte index | latch a descriptor, wait for the payload, hand bytes over, flush after an abort | the queue stands at a descriptor between IBIs; bytes come from their word; no flush for ever |
| Target main FSM | `ctrl/i3c_target_fsm.sv` | state, address, retry counter, inhibit state, parity/overflow/underrun flags | one reaction per bus event per state | retries keep to their number; no second arbitration after a loss; never waits on a byte that cannot come |
| TX path | `ctrl/descriptor_tx.sv`, `width_converter_Nto8.sv` | descriptor register, pending, byte counter, flush; converter | start, send, end, abort, drain | each message is sent from its own words; drained exactly |
| RX path | `ctrl/descriptor_rx.sv`, `width_converter_8toN.sv` | byte counter, error; converter | accept a byte, close a write with a descriptor | descriptors pair up with words; a loss is reported, and only a loss |
| TTI queues and registers | `hci/tti.sv`, `hci/queues/*.sv` | FIFOs, a register of the port handshake | write, read, reset | nothing is lost or doubled at the port |
| CCC and ENTDAA | `ctrl/ccc.sv`, `ctrl/ccc_entdaa.sv` | state, defining byte, ID bit counter, parity errors | execute a command code, take part in address assignment | registers change only by complete commands; ends in a state the main FSM knows |
| Recovery | `recovery/recovery_handler.sv`, `recovery_receiver.sv`, `recovery_pec.sv`; the bench's `i3c_recovery_interface_fixed.py` | packet state, word and byte counters, PEC, indirect FIFO and its indices, owner of the shared queues | parse a packet, execute it, answer a read, report an error, hand the image to firmware | only complete and correct packets change anything, each is reported by its own fault, and the queues return to the TTI as they were |
| Bus monitor, timers | `ctrl/i3c_bus_monitor.sv`, `bus_monitor.sv`, `bus_timers.sv`, `target_reset_detector.sv` | edge history, counters | detect START, STOP, HDR exit, target reset; time the idle bus | the bus becomes available after every frame |
| Bit-level flows | `ctrl/bus_tx_flow.sv`, `bus_rx_flow.sv` | shift registers | drive and sample bits | below the events modelled here |
| Register map and access | `csr/I3CCSR.sv`, `cocotb/common/reg_map.py`, `bus2csr.py` | every register with its fields; the word a call has read | write one field (read, modify, write); hardware events | a call changes its field and nothing else |
| Bench controller | `lib_i3c_top/i3c_controller_fixed.py`, `common.py` | bus control, the IBI monitor's two flags, chain and limit knobs, retry count | private transfers, CCCs, address assignment, error injection, IBIs inline or in the monitor | one driver at a time; the result returned is what was delivered; every call returns |
| Bench protocol monitor | `lib_i3c_top/i3c_bus_monitor.py` | phase, bit count, CCC context | follow START, STOP, bits, acknowledges; judge drive modes, responses, lengths | knows where the bus is; no alarm about a conforming target |
| Active controller | `ctrl/flow_active.sv`, `controller_active.sv`, `i3c_controller_fsm.sv`, ... | command and transfer state | execute queued commands | outside the Caliptra configuration (`known_limitations.md`) |
| Legacy I2C | `ctrl/i2c_*_fsm.sv`, `flow_standby_i2c.sv` | byte and bit state | I2C transfers | taken over from another core |
| Frontends | `hci/axi_adapter.sv`, `libs/axi_sub/`, `hci/ahb_if.sv` | burst state, priority | register reads and writes | reads and writes do not starve each other |

How they interact: `controller_standby_i3c.sv` wires the main FSM to the three descriptor
modules and to `ccc.sv`. The FSM pulses a start, a byte handshake, an abort or a flush; the
descriptor modules offer valid/last/available levels which the FSM reads in one state and
relies on in a later one. Firmware fills or drains the queues at any time. The bus controller
ends any frame by STOP or repeated START wherever SDA is its own, and ends reads and IBIs
in their T-bit. `ccc.sv` takes the bus over from the main FSM after the reserved byte and hands
it back as done, next or HDR; it sets the addresses, lengths and reset action the main FSM reads.

The bench is a program of its own: coroutines of one controller object (`I3cControllerFixed`)
that share the bus by `monitor_enable` and `monitor_idle`, a monitor that watches the wires, and
`write_csr_field`, which any coroutine may call over a register bus that serialises single
accesses only. It is what the tests trust, so what it concludes must be what happened.

What is hard here: state checked once and relied on later (queue depth, availability);
aborts at every byte, after which exactly the rest of a message must go; two or three
machines counting, inhibiting and resetting the same retries; flags that outlive the frame
they belong to; queues that are full or empty at just that moment; eight-bit and sixteen-bit
counters. `PROJECT.json` lists each hazard at its line.

## 2. The modules

| Module | Models |
|---|---|
| `DescriptorIbi` | `descriptor_ibi.sv` with the TTI IBI queue, in the least restrictive environment |
| `DescriptorIbiInv` | its inductive invariant |
| `DescriptorIbi_proofs` | TLAPS proofs about it |
| `TargetFsm` | `i3c_target_fsm.sv`: one action per event in a state; no `Next` of its own |
| `DescriptorTx`, `DescriptorRx` | the two private transfer paths below the FSM |
| `TargetIbi` | `TargetFsm` with `DescriptorIbi`: in-band interrupts end to end |
| `TargetIbiInv`, `TargetIbi_proofs` | its inductive invariant and the TLAPS proofs about it, among them that it implements `IbiService` |
| `TargetRead` | `TargetFsm` with `DescriptorTx`: private reads end to end |
| `TargetWrite` | `TargetFsm` with `DescriptorRx`: private writes end to end |
| `WordLists` | what it is for a sequence to hold each word of a set once and in order |
| `TargetReadInv`, `TargetRead_proofs` | the inductive invariant of `TargetRead` and the TLAPS proofs about it |
| `TargetWriteInv`, `TargetWrite_proofs` | the inductive invariants of `TargetWrite` and the TLAPS proofs about it |
| `TargetLemmas` | lemmas the three compositions share: types under each action of `TargetFsm`, lists of words |
| `IbiService` | what in-band interrupts promise: offered, then sent, failed and retried, given up or withdrawn |
| `Ccc` | `ccc.sv` and `ccc_entdaa.sv` with the registers they set; one action per bus event |
| `CccBus` | the CCC calls of the bench controller as scripts, `Ccc` on the other side of the bus |
| `CccInv`, `CccBus_proofs` | the inductive invariant behind `ErrorTold` and the TLAPS proofs about it |
| `ControllerScripts` | the transfer calls of the bench controller as scripts of bus steps |
| `BusMonitor` | the protocol monitor: phases, checks |
| `Bench` | controller, IBI monitor, protocol monitor and target on one bus |
| `BenchInv`, `Bench_proofs` | the inductive invariants of the bench (who has the bus; target and protocol monitor in step; what a write delivers) and the TLAPS proofs about it |
| `Recovery` | the recovery receiver, the queues and converters it shares, the indirect FIFO: one operator per bus event, one action per internal step |
| `RecoveryBus` | the recovery calls of the bench and private writes as scripts of bus steps, `Recovery` on the other side, its firmware |
| `RegMap` | the register map, one record per field |
| `Csr` | `write_csr_field` over the map, with the software and hardware side of each kind of field |
| `CsrInv`, `Csr_proofs` | its inductive invariant and the TLAPS proofs about it |
| `MC...` | values of the constants for TLC |

Correspondence:

* A variable has the name of the register it models, shortened (`fsm` is `state_q`,
  `inhibit` is `ibi_inhibit_q`, `cnt` is `data_cnt_q`); each VARIABLES list says which. Ghosts
  (`fill`, `fails`, `lost`, `gaveUp`, `sent`, `wrong`, the `msg`/`idx`/`of` fields of words)
  are marked; no guard of the hardware reads them.
* An action is one clock cycle in which something changes. A cycle without an event in which
  the machine stays is a stuttering step. Bus events are edges of SDA or SCL and never
  coincide; where two of them do, an action says so (`HeaderArbLostLate`,
  `TransferEndsAsRoomAppears`).
* A handshake between two modules is one step of both. Steps of the handlers that take the
  clock a single cycle are done before the next bus event (`Settled`): half a period of SCL is
  many cycles. Flushes, which take a cycle per byte, and all of firmware interleave freely.
* A word or byte is abstracted to which message it belongs to and its place in it, except
  for the low byte of an IBI word, which the hardware may take for a length.

Assumptions about the surroundings, all named in the modules:

* `FitAssumption`: an IBI fits the queue. `LengthsAssumption`: no empty read message.
* `NotSending`: firmware does not reset the IBI queue during an IBI
  (`firmware_guide.md:285`).
* `OneCycleArb`: the single cycle the FSM spends in `RxFByteArb` when it is out of retries is
  not the one in which firmware resets the counter.
* `OpsAssumption`, `ChainsAssumption`, `LimitsAssumption` (Bench): the calls, the chained transfers and
  the limits are of the kinds the bench has (a write goes to a write address, a read to a read address), and
  one limit, the default, is the largest.
* `keeps` (TargetRead): `dataFirst`, firmware queues the data of a message before its descriptor
  (`ext_cap.md:206`); `flushFirst`, the controller does not address the target while it
  drains. A behaviour keeps to what its `keeps` says, and `Disciplines` holds the combinations a
  run looks at.
* `WritesOnlyAssumption` (TargetWrite): no reads and nothing to the virtual target; the headers of
  that model are private writes, CCCs and other devices.
* `MapAssumption` (Csr): the register map is sound (`MapSound`): fields do not overlap, masks and
  reset values lie in the word, addresses differ. TLC evaluates it on the map of the code. The identity
  registers (`IdRegs`) ignore writes while the standby controller is enabled: `locked`, which `Lock`
  changes at any time, since the enable is a field of another register.
* `corners` (TargetWrite): the corner cases a behaviour may go into: a full descriptor queue,
  an erroneous CCC, a repeated START after bad parity, room that appears in the last cycle.
* `Ccc` and `CccBus` are one joint model of bus events: a step of a script is an event (START, a
  byte, a T-bit, an acknowledge, STOP) and what the target makes of it. The only step the
  target takes by itself is `Finish`, the one cycle of `NextCCC` and `DoneCCC`. `known` is a ghost:
  what a controller that knows the commands concludes from what was acknowledged; it is the
  specification of the commands. Nobody gives an address twice (`Gives`).
* `Corners` (CccBus): the uses of the commands which the target is known not to bear (`Cornered`).
  `heldShort`, a repeated START while the target waits for data of a broadcast (or of a direct SET
  that sends less than its total); `resetOther`, a direct RSTACT to another device with a call chained to it;
  `newStatic`, SETNEWDA to the virtual target while it has no dynamic address. The run `ccc` has
  none of them, `ccc_rstact` the second.
* `Recovery` names bytes by what they are: a byte of the bus by its value, a byte of a register nobody
  writes by its place, and a PEC by the bytes it covers, so that a PEC fits exactly if it covers what
  was received (the collisions of an eight-bit CRC are left out). `RecoveryBus` keeps two rules: the
  firmware takes every message before the next call, and resets the RX queue after a rejected
  command (`firmware_guide.md:311`; without the rule, `leftovers`, the run `recovery_stale`);
  the controller stops the bus after bad parity. `HeaderParity` names the calls whose length or PEC byte
  has a bad T-bit: `due` is CRC for them, as `recovery_flow.md` says, and the target reports another
  code (section 3), so that `StatusRight` says of these calls only that they are no success. `told`, `due`, `image` and `got` are ghosts, the
  specification of the commands. Recovery mode is on or off for a whole behaviour, payloads are not empty.
* `Bench` runs scripts of the transfer calls against the target as the protocol sees it: when it
  may drive, when it acknowledges. Two properties except a `clash`, a target whose IBI address is
  read as a header by the controller although it lost no bit.
* The target is enabled, TE0 and TE2 detection are on, and, outside `Recovery`, recovery is not used;
  reads, writes and IBIs do not mix within one model.

## 3. What the runs check

| Run | Question | Instance |
|---|---|---|
| `handler` | queue alignment, no dry queue, byte order, end of flushes, for every abort | payloads 0,1,2,4,6,8 on both sides of each word boundary; queue of 5 |
| `ibi` | handler and FSM in step; retry budget; no arbitration after a loss; every IBI on offer is served, reported or withdrawn; `IbiService` | payloads of no, one and two words; `IBI_RETRY_NUM` 0, 1 and 7 (for ever) |
| `read` | right bytes, alignment after every way a read can end, reads and flushes end | messages of 4, 5, 8 bytes, three of them; disciplined and undisciplined behaviours |
| `write` | words and descriptors match; losses reported, no false alarm; every write seen | two writes of up to 5 bytes, data queue of one word; ordinary behaviours and three corners one at a time |
| `ccc` | registers, reset action, answers and error flag after any three calls are what was acknowledged; in a frame the target answers the headers that call it, by the addresses of that moment | a short list of commands, one of each kind of frame; held buses, TE0, TE1 and TE2 errors, aborts, a rival in ENTDAA |
| `bench` | the two trackers agree on the bus, one driver, what a call returns, no false alarm, calls return | a call of each of nine kinds, IBIs of two bytes at any START, three chains, two limits |
| `recovery` | registers, error codes, indirect FIFO, answers and the shared queue after any three calls; the image reaches the firmware | writes of each kind of register, of one to four words, chained or stopped, each kind of damage; reads, complete and broken off; a private write; queue and FIFO of two words |
| `csr` | what two overlapping field writes and the hardware do to other fields | every register of the map; two calls, one of them of any field |

The bounds: a payload's interest lies in how its last word is filled and whether it needs one,
two or more words, so lengths up to two words with every kind of last word meet every
branch of the converters and flushes; a queue of two to five words is full, empty and in
between. Three messages are the one before, the one aborted and the one that suffers. Three
retry numbers are the least, the next and the one that stands for "for ever"; the counter is
three bits wide and wraps at no other place. `MaxFails` caps a ghost only. Three CCC calls are
one that sets something up, one that disturbs it and one that shows it; two bench calls would
hide a chain that outlives its call, so `Bench` runs without end. Three recovery calls are one that
fills queue or FIFO, one that is damaged and one that shows what is left; the payloads of two, three and
four words fit the RX queue, fit it with the converter, and do not fit. Register accesses touch one
register at a time, so two calls and one hardware write meet in every order.

Each property of a passing run is paired with a mutation of the code's model (the `Mut...`
definitions) under which TLC finds it violated. The types of the variables are stated by a `TypeOK` in
each module; the runs `handler` and `ibi` check theirs as a part of `Inductive`.

Fairness. The handlers and the FSM are clocked, so a step they can take is taken (weak
fairness). `ReleaseInhibit` has strong fairness in `TargetIbi`: the inhibit machine moves in the
first cycle the bus is available, before a START can follow. Of the controller we assume,
for `ServedOrReported` only, that it finishes what it begins on the bus, ends frames again and again,
leaves the bus alone for tAVAL again and again and does not for ever break off address
bytes: a target can promise nothing to one that does not. `ReadEnds` assumes that the controller goes on
clocking a read; `FlushEnds` (both), `OfferedOnceQueued` and `EveryWriteSeen` assume the
clock and, where their statement needs it, firmware that goes on. `CallReturns` assumes that the
coroutines are scheduled (weak fairness of `Coroutines`: cocotb wakes a coroutine whose trigger has
fired) and that the target answers (`TargetMoves`). `ImageDelivered` assumes firmware that goes on reading the
indirect FIFO while `payload_available` asks it to, and nothing of the controller.

### Where the code and its documents part

Four runs expect a violation; each is a finding in `PROJECT.json` with the line it contradicts.

* `handler_five`: the flush leaves the last word of a payload of 5, 9, 13, ... bytes in the
  queue, which is then read as a descriptor. Payloads with that remainder are left out of the
  other runs and of the proofs (`Drained`).
* `write_parity`: after bad parity and a repeated START the next write is dropped and
  reported as an empty success.
* `ccc_rstact`: a direct RSTACT to another device followed by a chained command arms this
  target's reset action.
* `recovery_stale`: a recovery command that is rejected after its transfer has ended (PEC, length,
  read-only) leaves its payload in the RX queue, where the next command executes it: the clear the
  receiver asks for does not pass the multiplexer any more.

The passing runs except exactly these cases, by the named assumptions above. Also met, and
excepted the same way, without a run of their own: a refused read takes the descriptor out of the
queue, and the message is refused until firmware queues another (`descriptor_tx.sv:77`); a flush
ends when the data queue is empty, and words queued afterwards precede the next message
(`descriptor_tx.sv:104`); with the RX descriptor queue full a write loses its descriptor but not its
words (`descriptor_rx.sv:93`); SETNEWDA to the virtual target's static address is acknowledged
and gives the new address to the main target (the corner `newStatic`; `ccc.sv:1446`, `ccc.md:65`); GETSTATUS followed by a chained command does not clear the error
flag (`ccc.sv:1285`); after a broadcast with less data than its total, and after RSTDAA or SETAASA although they
"complete on command T-bit, no data phase" (`ccc.sv:1630`), a repeated START is not looked for (`RxData`,
`ccc.sv:1104`): the reserved byte of the next command is taken for data and not answered (the corner
`heldShort`); a status bit set by hardware in the cycle of
a software write to its register is never pending (`I3CCSR.sv:10425`, `error_handling.md:64`); check 11 of the protocol monitor cannot fire (`i3c_bus_monitor.py:421`).
Of the recovery: bad parity on a length byte or on the PEC is reported as a length error, and on the PEC of
a read then, at the header of the read, as a read-only error, where `recovery_flow.md:258` says CRC error: the main
FSM drops the byte (`i3c_target_fsm.sv:356`), and the receiver tests for the end of the transfer before the error bits of the
descriptor (`recovery_receiver.sv:631`, `:702`); a write to a full indirect FIFO is acknowledged, since the main
FSM looks at the address only (`i3c_target_fsm.sv:650`), and reported as a length error, where
`recovery_flow.md:87` and `:150` say that it is NACKed; a word firmware has queued for a private read is lost to a recovery error, since the
Nto8 converter is held in reset and accepts words in reset (`recovery_receiver.sv:902`); a write to
INDIRECT_FIFO_DATA without payload never ends (`recovery_receiver.sv:769`); a private write chained to a
rejected command loses the bytes that arrive in Error (`recovery_receiver.sv:902`); a STOP in the
middle of an answer leaves the receiver in its Tx state (`recovery_receiver.sv:806`); outside recovery
mode, a read of a register that is not available there is NACKed, but a write to it is acknowledged and reported as a
read-only error (`recovery_flow.md:203` says NACK of any access); a write to
RECOVERY_STATUS, or to a register without writable fields, is reported as a success.

## 4. What is proved

`DescriptorIbi_proofs` proves, for every depth of the queue and every set of payload lengths
and low bytes that satisfy the named assumptions:

* `TypeCorrect`: `Spec => []TypeOK`, without further assumption.
* `InvariantHolds`: `Spec => []Inductive`, assuming `Drained`.
* `DescriptorsAligned`, `QueueNeverRunsDry`, `BytesFromTheirWords`: the three safety
  properties, from the same invariant.

The argument. None of the properties is inductive: what a pop uncovers depends on what is
behind the head of the queue. The invariant therefore says of the queue as a whole that
consecutive words follow each other (`Chain`: the next word of the same IBI, or, after a last
word, a descriptor), and of each state which word the head must be (`DescriptorDue`,
`WordDue`) and, where the hardware relies on it, how many words are there. A write keeps the
chain (`WriteKeepsOrder`); a pop makes due what follows the word popped (`PopKeepsOrder`,
`PopMovesOn`); the arithmetic of lengths, words and bytes is in lemmas of its own
(`WordsForBound`, `DataLen`, `LastWord`, `NextByteNextWord`, `NextByteSameWord`). There is
one lemma per action. `Drained` enters in one place only, the end of a flush: it is exactly the
condition under which `data_cnt_q >= data_len` implies that the last word has gone. TLC
checks `Inductive` as an invariant of the run `handler`.

`TargetIbi_proofs` proves of the composition with the target FSM, for every set of address
bytes, every choice of `IBI_RETRY_NUM`, and queue and payloads as above:

* `InvariantHolds`: `Spec => []Inductive`, and from it `NeverBeyondBudget` (`WithinBudget`)
  and `OutUntilAvailable` (`NoRearbitration`), without further assumption.
* `TypeCorrect`: `Spec => []TypeOK`, the handler and its queue included.
* `HandlerInStep`: `Spec => []HandlerFollowsFsm`, assuming `Drained`.

The argument. Three facts about the FSM have to be strengthened. Retries: the ghost `fails` is
at most the hardware counter, which is at most one past the limit (`RetriesCounted`), and it
stays there only because an address phase under way is one the counter allowed (`TryAllowed`).
Arbitration: a loss is remembered only if the inhibit machine is free to note it, which is why
no retry failure may be outstanding when an arbitration is tried (`LossNoticed`). Step: which
state of the handler goes with which state of the FSM (`InStep`). Each is preserved by a
lemma with one case per action. That the queue holds a byte when the FSM shifts one out is not
provable from the FSM: it is `QueueNeverRunsDry` of the handler, carried over because every step
of the composition is a step of the handler or leaves it alone (`HandlerSteps`,
`HandlerRefined`). The ghost bound `MaxFails` exceeds the largest counter value, so it cuts
nothing off where a limit applies. TLC checks `Inductive` as an invariant of the run `ibi`.

The same module proves `ServiceImplemented`, `Spec => ImplementsService`: the composition implements
the abstract service of `IbiService` under the mapping at the end of `TargetIbi` (`ServicePhase` is read
off the state of the FSM, the retries off the ghosts). Initial states map to initial states, and each
action of the composition maps to one action of the service or to none; the invariant supplies
what the map cannot see (that an IBI under way was on offer, that a retry is within the limit).

`TargetWrite_proofs` proves of private writes, for queues of every depth, any number of writes, every
set of corner cases and every interleaving with firmware:

* `TypeCorrect`, and `NoFalseAlarms` (`NoFalseAlarm`) for writes of any length: it says the error bit
  is not set, which the counter has no part in.
* `LossesReported` (`LossReported`) and `WordsPaired` (`WordsMatchDescriptors`) under the hypothesis
  `MaxBytes < 65536`. The byte counter has sixteen bits (`descriptor_rx.sv`); of a longer write the
  length is reported modulo 65536, so neither would hold.

The argument. `DescriptorRx` counts the bytes it accepted and the ghost `sent` those on the bus; the
two are compared only when the write ends. `ErrorIsLoss` and `LossIsError` say of every state in
between that the error flag is set exactly when the bytes counted, and the one on its way
(`PassedOn`), fall short. For the words, `WordsHeld` says that the data queue and the converter list
exactly the words that are due: begun by a write and not yet read by firmware, each once, ordered by
write and place. `Lists` (in `WordLists`) is a statement about a sequence and a set; that appending a
greatest word or taking the head keeps it are `ListsAppend` and `ListsTail`, and its length is the
number of words (`ListsLength`). `DescriptorsInOrder` says the same of the descriptors, of which one
may be in firmware's hands; `RoomKept`, that a write acknowledged finds room for its descriptor. The
property excepts two corners, the full descriptor queue and the room that appears in the last cycle,
and so does `Paired`.

`TargetRead_proofs` proves of private reads, for every set of lengths, queues of every depth, any
number of messages, and reads that end in their last byte, are aborted in any T-bit, or are refused:

* `TypeCorrect`, for every discipline of firmware and controller.
* `ReadsRightInvariant`: `Spec => []ReadsRight`, and from it `BytesRight` (`SendsItsMessage`),
  `NeverUnderrun` (`NoUnderrun`), `AckedReads` (`AckedReadStarts`) and `BetweenReads`
  (`StreamAligned`). As the properties say, they are about behaviours in which firmware queues data
  before its descriptor and the controller waits for a flush (`Disciplined`).

The argument. The handler forgets the length of a message it flushes, so the invariant has it as a
parameter: for some `n`, `ReadInv(n)`. As for the writes, queue and converter list the words due
(`WordsHeld`); here a word is due from when firmware wrote it until a read or a flush has taken its
last byte, which `Gone(n)`, the bytes of the message in hand that are gone, decides. The
converter has given as many bytes of its word as are gone of it (`ConverterInStep`), and the
descriptors queued are consecutive (`DescriptorsInOrder`). `ReadInStep` ties the handler to the
FSM: a descriptor is in hand from the ACK to the last byte, and a byte is on offer whenever one is
shifted out. The end of a flush is where the length matters: the flush ends with the message's last
word and not with the queue's, which holds because a described message is there whole (`SaidWhole`).

`Csr_proofs` proves of two calls of `write_csr_field` and the hardware, for every register map that
is sound and every pair of its fields: `TypeCorrect`, `CallsInStep` (`Spec => []CsrInvariant`),
`FieldsStayApart` (`FieldsApart`) and `StatusIsKept` (`StatusKept`). The argument: neither property is
inductive, since the harm is done when a call writes back what it read long before. `FieldInStep` and
`StatusInStep` say what a suspended call will write back to the other's field: the right
value, unless the calls overlapped or the hardware acted in between; and, for a field cleared by
reading, also while the register itself is wrong. `OverlapNoted` says that two calls which run
at once are known to overlap.

`Bench_proofs` proves of the bench, for every set of calls, chained transfers, limits and IBI
lengths and however the target answers: `WhoHasTheBus` (`Spec => []BenchInvariant`) and from it
`NeverBoth` (`OneDriver`). The argument: a script is a program, so that who is on the bus depends on what is
left of it. The scripts are typed (`Steps`), and a call gives the control back, or holds it, in the
last step it ever takes (`Endings`); that the skips after a refused address, the lost arbitrations, the
retries and the pieces of a read keep it so is `ScriptsClosed`, `ScriptTyped` and `InlineTyped`. From it
follows that `monitor_enable` is clear as long as a caller has steps left (`DisabledInCall`), and hence that
the monitor stays where it waits once the caller has seen it there (`MonitorWaits`).

The second invariant of the bench, `TargetIsFollowed` (`Spec => []TrackingInvariant`), gives `TrackersInStep`
(`TrackersAgree`) and `AlarmsTrue` (`NoFalseAlarm`). The argument: neither property is inductive, since the
protocol monitor moves on with the bits of an address, an acknowledge or a byte whether or not the target
does, and whether it may depends on what the controller sends next. So the invariant has three parts.
`Together`: the state of the target fixes the phases the monitor can be in (`PhaseFollowsState`, one line per
group of states), the header the target has latched is the one the monitor has seen, and out of a frame both
are at rest. `ScriptsInOrder`: each step of a script may follow the one before (`Follows`: an address, its
acknowledge, the bytes that may go with the address, each with its T-bit). `NextStepFits`: the bus is as the
next step of a running script expects it (`Expects`). One family of lemmas (`...Meets`) says of each bus event
that it keeps `Together` and raises no alarm if its script step was expected; a second (`HeaderPiece`,
`BytesAfter`, `CommandFrames`, `ScriptFrames`, `InlineInOrder`), that every script a call, a retry or a chain can make is
in order, from two lemmas about what may be joined (`InOrderJoin`, `PieceJoin`); `SkipInOrder`, that skipping the
data after a refused address leaves a script in order that goes on with a new frame; and a third (`...Tracks`) puts the two
together for each action. `Follows` and `Expects` only speak of a frame in which no alarm was raised and no
unwatched address met an IBI, as the properties do; the STOP that ends such a frame brings the two together
again (`StopMeets`).

The third, `DeliveryHolds` (`Spec => []DeliveryInvariant`), gives `AcksTell` (`AckTellsDelivery`): when a write
with good parity returns, the target has taken all of its data if it was acknowledged, and none if not; and
`WritesGetThrough`: a write loses at most two attempts, so that `i3c_write` never raises for IBIs. The argument: a
call's script is one of infinitely many sequences, and what was delivered depends on how much of it is left. Instead of an
induction over the sequence, `CallStep` says what the i-th step of a write is, and `LeftFrom`, that a script is what is
left of the write from its j-th step on; every step of the caller then moves j (`LeftStep`), or past the data if the address was
refused (`LeftSkip`), and j says how many bytes the target has and in which state it is (`TakenBefore`). An attempt is lost (`Lost`) at
its 7E/W only, before the target has taken anything; what then runs, the answer to the IBI and what a test has chained to
it, delivers nothing of the write (`Clean`, shown of all these scripts by the lemmas `Mild...`). The chain is used up by the first IBI, and
without one `i3c_write` goes on with a repeated START, which no IBI can contest (`NoContest`): hence the two. Here the target is
followed without the protocol monitor (`FrameOver`, `StepsHeard`), so that the result also covers frames with an alarm. Its hypotheses: `MaxRetries > 2`,
where the code has ten; and `BadWritesStop`, that a test which spoils the parity of a write ends it with a STOP, as otherwise
the next write is dropped, which is what the run `write_parity` shows of the target.

`CccBus_proofs` proves of the command codes, for every set of calls and any number of them:
`ErrorInvariantHolds` (`Spec => []ErrorInvariant`) and from it `ErrorsTold` (`ErrorTold`). The argument: the
error flag is cleared in the cycle after an answered GETSTATUS, long after the status byte was sent. What
was heard then is still the error that stands (`ErrorHeard`), as between that byte and the clear the target
has no way to meet another error: the command machine is at work exactly while the main machine is in `DoCCC`
(`MachinesInStep`), an answer is complete only in the states `AnswerSpan` names, and the assignment machine, which reports
errors of its own, runs only within ENTDAA (`DaaInCommand`).

TLC checked these invariants, conjunct by conjunct, before they were proved: those of
`TargetWrite` on the instance of the run `write` and a larger one (12.8 million
states), that of `TargetRead` on messages of 4, 5, 8 and 9 bytes with every header (0.8 million), those of
`Csr`, `Bench` (all three, the last also on a larger one) and `CccBus` on the instances of the runs `csr`, `bench` and `ccc` (0.7, 0.3 and 0.8 million).

Only model-checked: of the command codes what the device holds and answers (`DeviceAsTold`, `ResetAsArmed`,
`AnswerRight`, `HeadersAnswered`); the recovery (`RegistersAsWritten`, `StatusRight`, `FifoDelivers`, `AnswerRight`,
`OnlyMessages`); and all liveness (`FlushEnds`, `OfferedOnceQueued`,
`ServedOrReported`, `ReadEnds`, `EveryWriteSeen`, `CallReturns`, `ImageDelivered`), since the prover does
not reach fairness and ENABLED.

## 5. What is not modelled, and the plan

Not modelled, with reasons, are the parts `PROJECT.json` lists so: the bit-level flows and the PHY (wires
and timing below the events), the legacy I2C machines, wiring, test bodies. Left out of
modelled parts: the TX and RX queue resets, the register handshake of the queues,
thresholds and interrupts, `DoRstAction` (a reset pattern ends in a STOP, which
overrides the move) and the unreachable `DoHotJoin`; of the recovery, bypass mode, HDR, the detection
enables and error counters; of the bench, `skip_data`, the timing checks of the monitor and the samplers
of single wires.

Next, in this order:

1. `QueuePort`: the register handshake of the queues with resets; `BusTimers` with HDR mode
   and its exit.
2. The AXI arbitration and, if bounds allow, `flow_active`.
3. Proofs: what the command codes leave in the device, then the recovery registers.

Runs and properties are few by intent; a new component brings one passing run and the
violations it earns, and the older bounds are merged where two runs ask the same.
