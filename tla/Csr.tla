--------------------------------- MODULE Csr ---------------------------------
(***************************************************************************)
(* Read-modify-write of one register by the bench (common/bus2csr.py)      *)
(* against the generated register block and the hardware behind it. Two    *)
(* coroutines of a test each write one field of the register; the          *)
(* hardware sets and clears the fields it owns at any time. A bus access   *)
(* is one cycle of the register block; between the read and the write of a *)
(* call the coroutine is suspended.                                        *)
(*                                                                         *)
(* alone[c] is an abstract register that holds the field of call c by      *)
(* itself: only its own call and the hardware change it. The properties    *)
(* say when the field of the shared register differs from it.              *)
(***************************************************************************)
EXTENDS RegMap

CONSTANTS Callers,     \* two coroutines of a test
          WordRegs     \* the registers of the map a call goes through

ASSUME CallersAssumption == Callers = {1, 2}

VARIABLES reg,      \* the register the calls are about
          own,      \* own[c]: the field caller c writes
          value,    \* the bits of the register that are one
          call,     \* call[c]: the state of c's write_csr_field
          alone,    \* alone[c]: the bits of own[c], had it a register to itself
          causes,   \* causes[c]: why own[c] may differ from alone[c]: the calls
                    \* overlapped, the hardware raced one, a status bit was seen set
          locked    \* lock_id_csrs_hw_sig: reg is an identity register, and
                    \* STBY_CR_ENABLE_INIT is not zero

csrVars == <<reg, own, value, call, alone, causes, locked>>

\* The identity registers, with swwel = lock_id_csrs_hw_sig.
IdRegs == {"STBY_CR_VIRTUAL_DEVICE_CHAR", "STBY_CR_DEVICE_CHAR",
           "STBY_CR_DEVICE_PID_LO", "STBY_CR_VIRTUAL_DEVICE_PID_LO"}

Other(c) == 3 - c

\* "Writing" HANDOFF_DEEP_SLEEP sets it, whatever is written (onwrite = wset;
\* the map has no property for it).
Access(f) == IF f.name = "HANDOFF_DEEP_SLEEP" THEN "wset" ELSE f.access

Writable(f) == f.access # "r"
Pulsed(f) == f.name = "IBI_RETRY_CTR_RST"

ResetValue(r) == UNION {f.reset : f \in r.fields}

\* What a read returns: a write-only field reads as zero.
ReadBack(r, v) == v \ UNION {f.mask : f \in {g \in r.fields : g.access = "w"}}

\* What a read leaves: a field that is cleared by reading is zero.
AfterRead(r, v) == v \ UNION {f.mask : f \in {g \in r.fields : g.access = "rclr"}}

\* Mutants.
MutWritten(f, v, data) == IF f.access = "r" THEN v \cap f.mask ELSE data \cap f.mask
MutModified(f, seen, data) == seen \cup {f.low + b : b \in data}

\* What a write leaves in one field; a locked register ignores it.
Written(f, v, data) ==
  CASE locked \/ Access(f) = "r"      -> v \cap f.mask
    [] ~locked /\ Access(f) = "w1c"   -> (v \ data) \cap f.mask
    [] ~locked /\ Access(f) = "wset"  -> f.mask
    [] OTHER                          -> data \cap f.mask

AfterWrite(r, v, data) == UNION {Written(f, v, data) : f \in r.fields}

\* value & ~field.mask | (data << field.low)
Modified(f, seen, data) == (seen \ f.mask) \cup {f.low + b : b \in data}

\* The data a test writes to a field: zero or all ones.
DataFor(f) == {{}, {b - f.low : b \in f.mask}}

\* Fields a write of their own puts right again.
Settles(f) == Access(f) \notin {"w1c", "wset"}

IdleCall == [pc |-> "idle", data |-> {}, seen |-> {}]
Running(c) == call[c].pc # "idle"

\* Fields of one access class and width are interchangeable: two of a kind in a
\* register stand for every two, one of each kind for the rest.
Kind(f) == <<Access(f), f.hw, Cardinality(f.mask)>>
Lowest(f, S) == \A g \in S : Kind(g) = Kind(f) => f.low <= g.low
Chosen(o) == LET fields == {f \in reg.fields : Writable(f)}
             IN /\ o[1] # o[2]
                /\ Lowest(o[1], fields) /\ Lowest(o[2], fields \ {o[1]})

Init == /\ reg \in {r \in WordRegs : Cardinality({f \in r.fields : Writable(f)}) > 1}
        /\ own \in {o \in [Callers -> {f \in reg.fields : Writable(f)}] : Chosen(o)}
        /\ value = ResetValue(reg)
        /\ call = [c \in Callers |-> IdleCall]
        /\ alone = [c \in Callers |-> own[c].reset]
        /\ causes = [c \in Callers |-> {}]
        /\ locked = FALSE
-----------------------------------------------------------------------------
(* The calls *)

\* A test calls write_csr_field. While the other call runs the two overlap.
Call(c) ==
  \E data \in DataFor(own[c]) :
    /\ ~Running(c)
    /\ call' = [call EXCEPT ![c] = [pc |-> "read", data |-> data, seen |-> {}]]
    /\ causes' = [d \in Callers |-> IF Running(Other(c)) /\ Settles(own[d])
                                   THEN causes[d] \cup {"overlap"} ELSE causes[d]]
    /\ UNCHANGED <<reg, own, value, alone, locked>>

\* await self.read_csr(reg_addr). A status bit that is set now will be written
\* back as a one by this call, whichever field it is about.
ReadCsr(c) ==
  /\ call[c].pc = "read"
  /\ call' = [call EXCEPT ![c].pc = "write", ![c].seen = ReadBack(reg, value)]
  /\ value' = AfterRead(reg, value)
  /\ alone' = [d \in Callers |-> IF own[d].access = "rclr" /\ d = c THEN {} ELSE alone[d]]
  /\ causes' = [causes EXCEPT ![Other(c)] =
                  IF own[Other(c)].access = "w1c" /\ value \cap own[Other(c)].mask # {}
                  THEN @ \cup {"shown"} ELSE @]
  /\ UNCHANGED <<reg, own, locked>>

\* await self.write_csr(reg_addr, ...). The write wins over the hardware in every
\* field of the register: what the fields in events were to be set to is lost.
WriteCsr(c) ==
  \E events \in SUBSET {d \in Callers : own[d].hw} :
    /\ call[c].pc = "write"
    /\ value' = AfterWrite(reg, value, Modified(own[c], call[c].seen, call[c].data))
    /\ call' = [call EXCEPT ![c] = IdleCall]
    /\ alone' = [d \in Callers |->
                   IF d \in events THEN own[d].mask
                   ELSE IF d = c THEN Written(own[c], alone[c], {own[c].low + b : b \in call[c].data})
                   ELSE alone[d]]
    /\ causes' = [d \in Callers |-> (IF d \in events THEN {"hardware"} ELSE {}) \cup
                                    (IF d = c /\ Settles(own[d]) /\ ~locked
                                     THEN {k \in causes[d] : k = "overlap" /\ Running(Other(c))}
                                     ELSE causes[d])]
    /\ UNCHANGED <<reg, own, locked>>
-----------------------------------------------------------------------------
(* The hardware *)

\* The hardware sets the field of c, or clears it; a running call of the other
\* coroutine writes back what it read before.
Hardware(c) ==
  \E bits \in {{}, own[c].mask} :
    /\ own[c].hw
    /\ Access(own[c]) = "w1c" => bits # {}
    /\ value \cap own[c].mask # bits
    /\ value' = (value \ own[c].mask) \cup bits
    /\ alone' = [alone EXCEPT ![c] = bits]
    /\ causes' = [causes EXCEPT ![c] = IF call[Other(c)].pc = "write" /\ Settles(own[c]) THEN @ \cup {"hardware"} ELSE @]
    /\ UNCHANGED <<reg, own, call, locked>>

\* A pulse field goes back to zero in the next cycle.
Pulse(c) ==
  /\ Pulsed(own[c]) /\ value \cap own[c].mask # {}
  /\ value' = value \ own[c].mask
  /\ alone' = [alone EXCEPT ![c] = {}]
  /\ UNCHANGED <<reg, own, call, causes, locked>>

\* Software enables or disables the standby controller, in another register.
Lock == /\ reg.name \in IdRegs
        /\ locked' = ~locked
        /\ UNCHANGED <<reg, own, value, call, alone, causes>>

Next == \/ Lock
        \/ \E c \in Callers : Call(c) \/ ReadCsr(c) \/ WriteCsr(c) \/ Hardware(c) \/ Pulse(c)

Spec == Init /\ [][Next]_csrVars
-----------------------------------------------------------------------------
(* Properties *)

\* The map: the fields of a register do not share a bit, each mask begins at the
\* lowest bit and stays in the word, a field's reset value lies in its mask, a
\* pulse is only written, the fields of the identity registers are plain, and no two
\* registers that are both read or both written have one address.
MapSound ==
  \A r \in WordRegs :
    /\ \A f \in r.fields : f.mask \subseteq 0 .. 31 /\ f.low \in f.mask /\ \A b \in f.mask : b >= f.low
    /\ \A f \in r.fields : f.reset \subseteq f.mask /\ (Pulsed(f) => f.access = "w")
    /\ \A f, g \in r.fields : f # g => f.mask \cap g.mask = {}
    /\ r.name \in IdRegs => \A f \in r.fields : f.access = "rw"
    /\ \A q \in WordRegs : q.addr = r.addr => q = r

ASSUME MapAssumption == MapSound

Differs(c) == value \cap own[c].mask # alone[c]

\* write_csr_field of one field leaves every other field of the register as its
\* own writer and the hardware left it, unless the two calls overlapped, or the
\* hardware wrote the other field after this call had read the register, or in
\* the very cycle of the write. A field that reading clears is put back by the
\* write (bus2csr.py write_csr_field). Fields with write access alone are not
\* among them: they read as zero, so a call of another field clears them.
FieldsApart ==
  \A c \in Callers :
    Access(own[c]) \in {"rw", "rclr", "hwclr"} /\ Differs(c) =>
      \/ "overlap" \in causes[c]
      \/ Access(own[c]) = "rclr" /\ call[Other(c)].pc = "write"
      \/ own[c].hw /\ "hardware" \in causes[c]

\* A status bit that is cleared by writing a one is never set by a call, and is
\* lost to the call of another field only when it was pending as that call read
\* the register, or was raised in the cycle of its write.
StatusKept ==
  \A c \in Callers :
    Access(own[c]) = "w1c" /\ Differs(c) =>
      /\ value \cap own[c].mask \subseteq alone[c]
      /\ causes[c] \cap {"shown", "hardware"} # {}

=============================================================================
