----------------------------- MODULE Csr_proofs -----------------------------
(***************************************************************************)
(* Two calls of the bench on two fields of one register, for every         *)
(* register map that is sound: what MapSound asks of it is all that is     *)
(* assumed of the registers.                                               *)
(***************************************************************************)
EXTENDS CsrInv, TLAPS

-----------------------------------------------------------------------------
(* The callers and their fields. *)

LEMMA TwoCallers ==
    ASSUME NEW c \in Callers
    PROVE  /\ Other(c) \in Callers /\ Other(c) # c /\ Other(Other(c)) = c
           /\ \A d \in Callers : d = c \/ d = Other(c)
  BY CallersAssumption DEF Other

\* What the map says of the two fields.
LEMMA OwnFields ==
    ASSUME OwnTypeOK, NEW c \in Callers
    PROVE  /\ own[c] \in reg.fields /\ own[c].access # "r"
           /\ own[c].mask \subseteq Word /\ own[c].low \in Int
           /\ own[c].reset \subseteq own[c].mask
           /\ Pulsed(own[c]) => own[c].access = "w"
           /\ \A f \in reg.fields : f # own[c] => f.mask \cap own[c].mask = {}
           /\ own[c].mask \cap own[Other(c)].mask = {}
<1>1. own[c] \in reg.fields /\ Writable(own[c]) /\ reg \in WordRegs
  BY DEF OwnTypeOK
<1>2. /\ own[c].mask \subseteq Word /\ own[c].low \in own[c].mask
      /\ own[c].reset \subseteq own[c].mask
      /\ Pulsed(own[c]) => own[c].access = "w"
      /\ \A f \in reg.fields : f # own[c] => f.mask \cap own[c].mask = {}
  BY <1>1, MapAssumption DEF MapSound, Word
<1>3. own[Other(c)] \in reg.fields /\ own[Other(c)] # own[c]
  BY CallersAssumption DEF OwnTypeOK, Other
<1> QED
  BY <1>1, <1>2, <1>3 DEF Writable, Word

\* An access class is the one the map gives, except that of the field that any
\* write sets.
LEMMA ClassOfMap ==
    ASSUME NEW f, Access(f) # "wset"
    PROVE  Access(f) = f.access
  BY DEF Access

-----------------------------------------------------------------------------
(* What the accesses of the register block do to one field. *)

LEMMA WrittenWithin ==
    ASSUME NEW f, NEW v, NEW data
    PROVE  Written(f, v, data) \subseteq f.mask
  BY DEF Written

\* A locked register has plain fields only, and ignores a write.
LEMMA WriteLocked ==
    ASSUME TypeOK, locked, NEW c \in Callers, NEW v, NEW data
    PROVE  /\ Written(own[c], v, data) = v \cap own[c].mask
           /\ Access(own[c]) \notin {"w1c", "rclr"}
<1>1. own[c] \in reg.fields /\ reg \in WordRegs /\ reg.name \in IdRegs
  BY OwnFields DEF TypeOK, OwnTypeOK
<1>2. own[c].access = "rw"
  BY <1>1, MapAssumption DEF MapSound
<1> QED
  BY <1>2 DEF Written, Access

LEMMA WriteOfField ==
    ASSUME OwnTypeOK, NEW c \in Callers, NEW v, NEW data
    PROVE  AfterWrite(reg, v, data) \cap own[c].mask = Written(own[c], v, data)
<1>1. Written(own[c], v, data) \subseteq AfterWrite(reg, v, data) \cap own[c].mask
  BY OwnFields, WrittenWithin DEF AfterWrite
<1>2. ASSUME NEW x \in AfterWrite(reg, v, data) \cap own[c].mask
      PROVE  x \in Written(own[c], v, data)
  <2>1. PICK f \in reg.fields : x \in Written(f, v, data)
    BY <1>2 DEF AfterWrite
  <2>2. x \in f.mask
    BY <2>1, WrittenWithin
  <2>3. f = own[c]
    BY <1>2, <2>2, OwnFields
  <2> QED
    BY <2>1, <2>3
<1> QED
  BY <1>1, <1>2

LEMMA ResetOfField ==
    ASSUME OwnTypeOK, NEW c \in Callers
    PROVE  ResetValue(reg) \cap own[c].mask = own[c].reset
<1>1. own[c].reset \subseteq ResetValue(reg) \cap own[c].mask
  BY OwnFields DEF ResetValue
<1>2. ASSUME NEW x \in ResetValue(reg) \cap own[c].mask PROVE x \in own[c].reset
  <2>1. PICK f \in reg.fields : x \in f.reset
    BY <1>2 DEF ResetValue
  <2>2. x \in f.mask
    BY <2>1, MapAssumption DEF MapSound, OwnTypeOK
  <2>3. f = own[c]
    BY <1>2, <2>2, OwnFields
  <2> QED
    BY <2>1, <2>3
<1> QED
  BY <1>1, <1>2

LEMMA ReadOfField ==
    ASSUME OwnTypeOK, NEW c \in Callers, own[c].access # "w", NEW v
    PROVE  ReadBack(reg, v) \cap own[c].mask = v \cap own[c].mask
<1>1. ASSUME NEW x \in v \cap own[c].mask PROVE x \in ReadBack(reg, v)
  <2>1. ASSUME NEW g \in {g \in reg.fields : g.access = "w"}, x \in g.mask PROVE FALSE
    BY <1>1, <2>1, OwnFields
  <2> QED
    BY <1>1, <2>1 DEF ReadBack
<1> QED
  BY <1>1 DEF ReadBack

\* A read leaves a field as it is, or clears it.
LEMMA ReadLeaves ==
    ASSUME OwnTypeOK, NEW c \in Callers, NEW v
    PROVE  AfterRead(reg, v) \cap own[c].mask
             = IF own[c].access = "rclr" THEN {} ELSE v \cap own[c].mask
<1>1. CASE own[c].access = "rclr"
  <2>1. own[c].mask \subseteq UNION {f.mask : f \in {g \in reg.fields : g.access = "rclr"}}
    BY <1>1, OwnFields
  <2> QED
    BY <1>1, <2>1 DEF AfterRead
<1>2. CASE own[c].access # "rclr"
  <2>1. ASSUME NEW x \in v \cap own[c].mask PROVE x \in AfterRead(reg, v)
    <3>1. ASSUME NEW g \in {g \in reg.fields : g.access = "rclr"}, x \in g.mask PROVE FALSE
      BY <1>2, <2>1, <3>1, OwnFields
    <3> QED
      BY <2>1, <3>1 DEF AfterRead
  <2> QED
    BY <1>2, <2>1 DEF AfterRead
<1> QED
  BY <1>1, <1>2

\* The word a call writes: its data in its own field, what it has read in the other.
LEMMA WordWritten ==
    ASSUME TypeOK, NEW c \in Callers
    PROVE  LET data == {own[c].low + b : b \in call[c].data}
               word == Modified(own[c], call[c].seen, call[c].data)
           IN /\ word \cap own[c].mask = data
              /\ word \cap own[Other(c)].mask = call[c].seen \cap own[Other(c)].mask
<1> DEFINE data == {own[c].low + b : b \in call[c].data}
<1>1. data \subseteq own[c].mask
  <2>1. ASSUME NEW b \in call[c].data PROVE own[c].low + b \in own[c].mask
    <3>1. PICK x \in own[c].mask : b = x - own[c].low
      BY <2>1 DEF TypeOK, DataFor
    <3>2. x \in Int /\ own[c].low \in Int
      BY <3>1, OwnFields DEF TypeOK, Word
    <3>3. own[c].low + b = x
      BY <3>1, <3>2
    <3> QED
      BY <3>3
  <2> QED
    BY <2>1
<1>2. Modified(own[c], call[c].seen, call[c].data) = (call[c].seen \ own[c].mask) \cup data
  BY DEF Modified
<1>3. own[c].mask \cap own[Other(c)].mask = {}
  BY OwnFields DEF TypeOK
<1> HIDE DEF data
<1>4. /\ ((call[c].seen \ own[c].mask) \cup data) \cap own[c].mask = data
      /\ ((call[c].seen \ own[c].mask) \cup data) \cap own[Other(c)].mask
           = call[c].seen \cap own[Other(c)].mask
  BY <1>1, <1>3
<1> QED
  BY <1>2, <1>4 DEF data

-----------------------------------------------------------------------------
(* The steps of one caller. *)

\* A field that a step leaves alone stays as it should be.
LEMMA FieldLeftAlone ==
    ASSUME NEW d \in Callers, FieldInStep(d), StatusInStep(d),
           own' = own,
           value' \cap own[d].mask = value \cap own[d].mask,
           alone'[d] = alone[d], causes[d] \subseteq causes'[d],
           WritesBack(d) <=> WritesBack(d)',
           WritesBack(d) => call'[Other(d)].seen = call[Other(d)].seen
    PROVE  FieldInStep(d)' /\ StatusInStep(d)'
<1>1. /\ Plain(d)' <=> Plain(d)
      /\ Excused(d) => Excused(d)'
      /\ Differs(d)' <=> Differs(d)
      /\ WritesBack(d)' => WriteBack(d)' = WriteBack(d)
  BY DEF Plain, Excused, Differs, WriteBack
<1> QED
  BY <1>1 DEF FieldInStep, StatusInStep

\* A step that changes neither register nor calls' fields keeps these.
LEMMA OwnKept ==
    ASSUME OwnTypeOK, UNCHANGED <<reg, own>>
    PROVE  OwnTypeOK'
  BY DEF OwnTypeOK

LEMMA CallKeeps ==
    ASSUME CsrInvariant, NEW c \in Callers, Call(c)
    PROVE  CsrInvariant'
<1>1. PICK data \in DataFor(own[c]) :
         /\ ~Running(c)
         /\ call' = [call EXCEPT ![c] = [pc |-> "read", data |-> data, seen |-> {}]]
         /\ causes' = [d \in Callers |-> IF Running(Other(c)) /\ Settles(own[d])
                                        THEN causes[d] \cup {"overlap"} ELSE causes[d]]
         /\ UNCHANGED <<reg, own, value, alone, locked>>
  BY DEF Call
<1>2. TypeOK
  BY DEF CsrInvariant
<1>3. call'[c] = [pc |-> "read", data |-> data, seen |-> {}] /\ call'[Other(c)] = call[Other(c)]
  BY <1>1, <1>2, TwoCallers DEF TypeOK
<1>4. TypeOK'
  <2>1. data \subseteq Int
    <3>1. ASSUME NEW b \in own[c].mask PROVE b - own[c].low \in Int
      BY <1>2, OwnFields DEF TypeOK, Word
    <3> QED
      BY <1>1, <3>1 DEF DataFor
  <2>2. [pc |-> "read", data |-> data, seen |-> {}] \in Calls
    BY <2>1 DEF Calls
  <2>3. call' \in [Callers -> Calls]
    BY <1>1, <1>2, <2>2 DEF TypeOK
  <2>4. \A d \in Callers : call'[d].data \in DataFor(own[d])
    BY <1>1, <1>2, <1>3, TwoCallers DEF TypeOK
  <2>5. causes' \in [Callers -> SUBSET Why]
    BY <1>1, <1>2 DEF TypeOK, Why
  <2> QED
    BY <1>1, <1>2, <2>3, <2>4, <2>5, OwnKept DEF TypeOK
<1>5. OverlapNoted'
  <2>1. SUFFICES ASSUME \A d \in Callers : Running(d)', NEW d \in Callers, Settles(own[d])'
                 PROVE  "overlap" \in causes'[d]
    BY DEF OverlapNoted
  <2>2. Running(Other(c)) /\ Settles(own[d])
    BY <1>1, <1>3, <2>1, TwoCallers DEF Running
  <2> QED
    BY <1>1, <2>2
<1>6. ASSUME NEW d \in Callers PROVE FieldInStep(d)' /\ StatusInStep(d)'
  <2>1. WritesBack(d) <=> WritesBack(d)'
    BY <1>1, <1>3, TwoCallers DEF WritesBack, Running
  <2>2. WritesBack(d) => call'[Other(d)].seen = call[Other(d)].seen
    BY <1>1, <1>3, TwoCallers DEF WritesBack, Running
  <2>3. FieldInStep(d) /\ StatusInStep(d)
    BY DEF CsrInvariant, InStep
  <2>4. causes[d] \subseteq causes'[d] /\ own' = own /\ value' = value /\ alone' = alone
    BY <1>1
  <2> QED
    BY <2>1, <2>2, <2>3, <2>4, FieldLeftAlone
<1> QED
  BY <1>4, <1>5, <1>6 DEF CsrInvariant, InStep

\* What a call has read it writes back, whatever its read has cleared.
LEMMA ReadCsrKeeps ==
    ASSUME CsrInvariant, NEW c \in Callers, ReadCsr(c)
    PROVE  CsrInvariant'
<1> DEFINE o == Other(c)
<1>1. /\ TypeOK /\ OwnTypeOK /\ UNCHANGED <<reg, own, locked>>
      /\ call[c].pc = "read" /\ value' = AfterRead(reg, value)
  BY DEF CsrInvariant, TypeOK, ReadCsr
<1>2. /\ call'[c] = [call[c] EXCEPT !.pc = "write", !.seen = ReadBack(reg, value)]
      /\ call'[o] = call[o] /\ call[c] \in Calls
      /\ call' = [call EXCEPT ![c] = call'[c]]
  BY <1>1, TwoCallers DEF ReadCsr, TypeOK
<1>3. /\ call'[c].pc = "write" /\ call'[c].seen = ReadBack(reg, value)
      /\ call'[c].data = call[c].data
  BY <1>2 DEF Calls
<1>4. /\ alone'[o] = alone[o]
      /\ alone'[c] = IF own[c].access = "rclr" THEN {} ELSE alone[c]
      /\ alone' = [d \in Callers |-> alone'[d]]
  BY TwoCallers DEF ReadCsr
<1>5. /\ causes'[c] = causes[c]
      /\ causes'[o] = IF own[o].access = "w1c" /\ value \cap own[o].mask # {}
                      THEN causes[o] \cup {"shown"} ELSE causes[o]
      /\ causes' = [causes EXCEPT ![o] = causes'[o]]
  BY <1>1, TwoCallers DEF ReadCsr, TypeOK
<1>6. TypeOK'
  <2>1. value' \subseteq Word
    BY <1>1 DEF TypeOK, AfterRead
  <2>2. ReadBack(reg, value) \subseteq Word
    BY <1>1 DEF TypeOK, ReadBack
  <2>3. call'[c] \in Calls
    BY <1>2, <2>2 DEF Calls
  <2>4. call' \in [Callers -> Calls]
    BY <1>1, <1>2, <2>3 DEF TypeOK
  <2>5. \A d \in Callers : call'[d].data \in DataFor(own[d])
    BY <1>1, <1>2, <1>3, TwoCallers DEF TypeOK
  <2>6. /\ alone' \in [Callers -> SUBSET Word]
        /\ \A d \in Callers : alone'[d] \subseteq own[d].mask
    <3>1. \A d \in Callers : alone'[d] \subseteq Word /\ alone'[d] \subseteq own[d].mask
      BY <1>1, <1>4, TwoCallers DEF TypeOK
    <3> QED
      BY <1>4, <3>1
  <2>7. causes' \in [Callers -> SUBSET Why]
    BY <1>1, <1>5, TwoCallers DEF TypeOK, Why
  <2> QED
    BY <1>1, <2>1, <2>4, <2>5, <2>6, <2>7, OwnKept DEF TypeOK
<1>7. OverlapNoted'
  <2>1. \A d \in Callers : causes[d] \subseteq causes'[d]
    BY <1>5, TwoCallers
  <2>2. \A d \in Callers : Running(d)' <=> Running(d)
    BY <1>1, <1>2, <1>3, TwoCallers DEF Running
  <2> QED
    BY <1>1, <2>1, <2>2 DEF OverlapNoted, CsrInvariant
<1>8. FieldInStep(c) /\ StatusInStep(c) /\ FieldInStep(o) /\ StatusInStep(o)
  BY TwoCallers DEF CsrInvariant, InStep
<1>9. FieldInStep(c)' /\ StatusInStep(c)'
  <2>1. /\ WritesBack(c) <=> WritesBack(c)'
        /\ WriteBack(c)' = WriteBack(c)
    BY <1>1, <1>2 DEF WritesBack, WriteBack
  <2>2. CASE own[c].access # "rclr"
    <3>1. value' \cap own[c].mask = value \cap own[c].mask
      BY <1>1, <2>2, ReadLeaves
    <3> QED
      BY <1>1, <1>2, <1>4, <1>5, <1>8, <2>1, <2>2, <3>1, FieldLeftAlone
  <2>3. CASE own[c].access = "rclr"
    <3>1. ~Differs(c)'
      BY <1>1, <1>4, <2>3, ReadLeaves DEF Differs
    <3>2. ~(Access(own[c]) = "w1c")
      BY <2>3, ClassOfMap
    <3>3. WritesBack(c) /\ Plain(c) => Excused(c)'
      <4>1. SUFFICES ASSUME WritesBack(c), Plain(c) PROVE Excused(c)'
        OBVIOUS
      <4>2. Running(c) /\ Running(o)
        BY <1>1, <4>1 DEF Running, WritesBack
      <4>3. Settles(own[c])
        BY <4>1 DEF Plain, Settles
      <4>4. "overlap" \in causes[c]
        BY <4>2, <4>3, TwoCallers DEF CsrInvariant, OverlapNoted
      <4> QED
        BY <1>5, <4>4 DEF Excused
    <3> QED
      BY <1>1, <2>1, <3>1, <3>2, <3>3 DEF FieldInStep, StatusInStep, Plain
  <2> QED
    BY <2>2, <2>3
<1>10. FieldInStep(o)' /\ StatusInStep(o)'
  <2>1. WritesBack(o)' /\ WriteBack(o)' = ReadBack(reg, value) \cap own[o].mask /\ ~WritesBack(o)
    BY <1>1, <1>3, TwoCallers DEF WritesBack, WriteBack
  <2>2. own[o].access # "w" => WriteBack(o)' = value \cap own[o].mask
    BY <1>1, <2>1, ReadOfField, TwoCallers
  <2>3. value' \cap own[o].mask
          = IF own[o].access = "rclr" THEN {} ELSE value \cap own[o].mask
    BY <1>1, ReadLeaves, TwoCallers
  <2>4. FieldInStep(o)'
    <3>1. SUFFICES ASSUME Plain(o)', ~Excused(o)'
                   PROVE  /\ Differs(o)' => Access(own[o]) = "rclr" /\ WritesBack(o)'
                          /\ WriteBack(o)' = alone'[o]
      BY <1>1 DEF FieldInStep
    <3>2. Plain(o) /\ ~Excused(o) /\ own[o].access = Access(own[o])
      BY <1>1, <1>5, <3>1, ClassOfMap DEF Plain, Excused
    <3>3. ~Differs(o)
      BY <1>8, <2>1, <3>2 DEF FieldInStep
    <3>4. WriteBack(o)' = alone'[o]
      BY <1>4, <2>2, <3>2, <3>3 DEF Differs, Plain
    <3>5. Access(own[o]) # "rclr" => ~Differs(o)'
      BY <1>1, <1>4, <2>3, <3>2, <3>3 DEF Differs
    <3> QED
      BY <2>1, <3>4, <3>5
  <2>5. StatusInStep(o)'
    <3>1. SUFFICES ASSUME Access(own[o]) = "w1c"
                   PROVE  /\ value' \cap own[o].mask \subseteq alone'[o]
                          /\ Differs(o)' => causes'[o] \cap {"shown", "hardware"} # {}
                          /\ WriteBack(o)' # {} => "shown" \in causes'[o]
      BY <1>1 DEF StatusInStep
    <3>2. own[o].access = "w1c"
      BY <3>1, ClassOfMap
    <3>3. /\ value' \cap own[o].mask = value \cap own[o].mask
          /\ WriteBack(o)' = value \cap own[o].mask
      BY <2>2, <2>3, <3>2
    <3>4. Differs(o)' <=> Differs(o)
      BY <1>1, <1>4, <3>3 DEF Differs
    <3> QED
      BY <1>4, <1>5, <1>8, <3>1, <3>2, <3>3, <3>4 DEF StatusInStep
  <2> QED
    BY <2>4, <2>5
<1> QED
  BY <1>6, <1>7, <1>9, <1>10, TwoCallers DEF CsrInvariant, InStep

\* A write puts the call's own field right and writes the other one back.
LEMMA WriteCsrKeeps ==
    ASSUME CsrInvariant, NEW c \in Callers, WriteCsr(c)
    PROVE  CsrInvariant'
<1> DEFINE o == Other(c)
           data == {own[c].low + b : b \in call[c].data}
           word == Modified(own[c], call[c].seen, call[c].data)
<1>1. PICK events \in SUBSET {d \in Callers : own[d].hw} :
        /\ call[c].pc = "write"
        /\ value' = AfterWrite(reg, value, word)
        /\ call' = [call EXCEPT ![c] = IdleCall]
        /\ alone' = [d \in Callers |->
                       IF d \in events THEN own[d].mask
                       ELSE IF d = c THEN Written(own[c], alone[c], data)
                       ELSE alone[d]]
        /\ causes' = [d \in Callers |-> (IF d \in events THEN {"hardware"} ELSE {}) \cup
                                        (IF d = c /\ Settles(own[d]) /\ ~locked
                                         THEN {k \in causes[d] : k = "overlap" /\ Running(o)}
                                         ELSE causes[d])]
        /\ UNCHANGED <<reg, own, locked>>
  BY DEF WriteCsr
<1>2. TypeOK /\ OwnTypeOK
  BY DEF CsrInvariant, TypeOK
<1>3. call'[c] = IdleCall /\ call'[o] = call[o]
  BY <1>1, <1>2, TwoCallers DEF TypeOK
<1>4. word \cap own[c].mask = data /\ word \cap own[o].mask = call[c].seen \cap own[o].mask
  BY <1>2, WordWritten
<1>5. /\ value' \cap own[c].mask = Written(own[c], value, word)
      /\ value' \cap own[o].mask = Written(own[o], value, word)
  BY <1>1, <1>2, TwoCallers, WriteOfField
<1> HIDE DEF data, word
<1>6. TypeOK'
  <2>1. value' \subseteq Word
    <3>1. ASSUME NEW x \in value' PROVE x \in Word
      <4>1. PICK f \in reg.fields : x \in Written(f, value, word)
        BY <1>1, <3>1 DEF AfterWrite
      <4>2. x \in f.mask /\ f.mask \subseteq Word
        BY <1>2, <4>1, WrittenWithin, MapAssumption DEF MapSound, OwnTypeOK, Word
      <4> QED
        BY <4>2
    <3> QED
      BY <3>1
  <2>2. IdleCall \in Calls
    BY DEF IdleCall, Calls
  <2>3. call' \in [Callers -> Calls]
    BY <1>1, <1>2, <2>2 DEF TypeOK
  <2>4. \A d \in Callers : call'[d].data \in DataFor(own[d])
    BY <1>1, <1>2, <1>3, TwoCallers DEF TypeOK, IdleCall, DataFor
  <2>5. /\ alone' \in [Callers -> SUBSET Word]
        /\ \A d \in Callers : alone'[d] \subseteq own[d].mask
    <3>1. \A d \in Callers : alone'[d] \subseteq own[d].mask
      BY <1>1, <1>2, WrittenWithin DEF TypeOK
    <3>2. \A d \in Callers : own[d].mask \subseteq Word
      BY <1>2, OwnFields
    <3> QED
      BY <1>1, <3>1, <3>2
  <2>6. causes' \in [Callers -> SUBSET Why]
    BY <1>1, <1>2 DEF TypeOK, Why
  <2> QED
    BY <1>1, <1>2, <2>1, <2>3, <2>4, <2>5, <2>6, OwnKept DEF TypeOK
<1>7. OverlapNoted'
  BY <1>3 DEF OverlapNoted, Running, IdleCall
<1>8. FieldInStep(c) /\ StatusInStep(c) /\ FieldInStep(o) /\ StatusInStep(o)
  BY TwoCallers DEF CsrInvariant, InStep
<1>9. FieldInStep(c)' /\ StatusInStep(c)'
  <2>1. alone'[c] = IF c \in events THEN own[c].mask ELSE Written(own[c], alone[c], data)
    BY <1>1
  <2>2. c \in events => "hardware" \in causes'[c] /\ own[c].hw
    BY <1>1
  <2>3. WritesBack(c)' <=> WritesBack(c)
    BY <1>3 DEF WritesBack
  <2>4. FieldInStep(c)'
    <3>1. SUFFICES ASSUME Plain(c), ~Excused(c)'
                   PROVE  ~Differs(c)' /\ ~WritesBack(c)'
      BY <1>1 DEF FieldInStep, Plain
    <3>2. c \notin events
      BY <1>1, <2>2, <3>1 DEF Excused
    <3>3. ASSUME ~locked PROVE ~Differs(c)'
      <4>1. Written(own[c], value, word) = data /\ Written(own[c], alone[c], data) = data
        BY <1>4, <3>1, <3>3 DEF Written, Plain
      <4> QED
        BY <1>1, <1>5, <2>1, <3>2, <4>1 DEF Differs
    <3>4. ASSUME locked PROVE ~Differs(c)'
      <4>1. ~Excused(c) /\ alone[c] \subseteq own[c].mask
        BY <1>1, <1>2, <3>1, <3>4 DEF Excused, TypeOK
      <4>2. ~Differs(c)
        BY <1>2, <1>8, <3>1, <3>4, <4>1, WriteLocked DEF FieldInStep
      <4>3. /\ Written(own[c], value, word) = value \cap own[c].mask
            /\ Written(own[c], alone[c], data) = alone[c]
        BY <1>2, <3>4, <4>1, WriteLocked
      <4> QED
        BY <1>1, <1>5, <2>1, <3>2, <4>2, <4>3 DEF Differs
    <3>5. ASSUME WritesBack(c) PROVE FALSE
      <4>1. Running(c) /\ Running(o)
        BY <1>1, <3>5 DEF Running, WritesBack
      <4>2. Settles(own[c])
        BY <3>1 DEF Plain, Settles
      <4>3. "overlap" \in causes[c]
        BY <4>1, <4>2, TwoCallers DEF CsrInvariant, OverlapNoted
      <4>4. "overlap" \in causes'[c]
        BY <1>1, <4>1, <4>3
      <4> QED
        BY <3>1, <4>4 DEF Excused
    <3> QED
      BY <1>2, <2>3, <3>3, <3>4, <3>5 DEF TypeOK
  <2>5. StatusInStep(c)'
    <3>1. SUFFICES ASSUME Access(own[c]) = "w1c"
                   PROVE  /\ value' \cap own[c].mask \subseteq alone'[c]
                          /\ Differs(c)' => causes'[c] \cap {"shown", "hardware"} # {}
                          /\ WritesBack(c)' /\ WriteBack(c)' # {} => "shown" \in causes'[c]
      BY <1>1 DEF StatusInStep
    <3>2. causes[c] \subseteq causes'[c]
      BY <1>1, <3>1 DEF Settles
    <3>3. /\ Written(own[c], value, word) = (value \cap own[c].mask) \ data
          /\ Written(own[c], alone[c], data) = alone[c] \ data
      BY <1>2, <1>4, <3>1, WriteLocked DEF Written, TypeOK
    <3>4. value' \cap own[c].mask \subseteq alone'[c]
      BY <1>5, <1>8, <2>1, <3>1, <3>3 DEF StatusInStep
    <3>5. Differs(c)' => c \in events \/ Differs(c)
      BY <1>1, <1>5, <2>1, <3>3 DEF Differs
    <3>6. WriteBack(c)' = WriteBack(c)
      BY <1>1, <1>3 DEF WriteBack
    <3> QED
      BY <1>8, <2>2, <2>3, <3>1, <3>2, <3>4, <3>5, <3>6 DEF StatusInStep
  <2> QED
    BY <2>4, <2>5
<1>10. FieldInStep(o)' /\ StatusInStep(o)'
  <2>1. alone'[o] = IF o \in events THEN own[o].mask ELSE alone[o]
    BY <1>1, TwoCallers
  <2>2. o \in events => "hardware" \in causes'[o] /\ own[o].hw
    BY <1>1, TwoCallers
  <2>3. WritesBack(o) /\ ~WritesBack(o)' /\ WriteBack(o) = word \cap own[o].mask
    BY <1>1, <1>3, <1>4, TwoCallers DEF WritesBack, WriteBack, IdleCall
  <2>4. causes[o] \subseteq causes'[o]
    BY <1>1, TwoCallers
  <2>5. FieldInStep(o)'
    <3>1. SUFFICES ASSUME Plain(o), ~Excused(o)' PROVE ~Differs(o)'
      BY <1>1, <2>3 DEF FieldInStep, Plain
    <3>2. o \notin events /\ ~Excused(o)
      BY <1>1, <2>2, <2>4, <3>1 DEF Excused
    <3>3. ASSUME ~locked PROVE ~Differs(o)'
      <4>1. Written(own[o], value, word) = word \cap own[o].mask
        BY <3>1, <3>3 DEF Written, Plain
      <4>2. WriteBack(o) = alone[o]
        BY <1>8, <2>3, <3>1, <3>2 DEF FieldInStep
      <4> QED
        BY <1>1, <1>5, <2>1, <2>3, <3>2, <4>1, <4>2 DEF Differs
    <3>4. ASSUME locked PROVE ~Differs(o)'
      <4>1. /\ Written(own[o], value, word) = value \cap own[o].mask
            /\ Access(own[o]) # "rclr"
        BY <1>2, <3>4, TwoCallers, WriteLocked
      <4>2. ~Differs(o)
        BY <1>8, <3>1, <3>2, <4>1 DEF FieldInStep
      <4> QED
        BY <1>1, <1>5, <2>1, <3>2, <4>1, <4>2 DEF Differs
    <3> QED
      BY <1>2, <3>3, <3>4 DEF TypeOK
  <2>6. StatusInStep(o)'
    <3>1. SUFFICES ASSUME Access(own[o]) = "w1c"
                   PROVE  /\ value' \cap own[o].mask \subseteq alone'[o]
                          /\ Differs(o)' => causes'[o] \cap {"shown", "hardware"} # {}
      BY <1>1, <2>3 DEF StatusInStep
    <3>2. Written(own[o], value, word) = (value \cap own[o].mask) \ WriteBack(o)
      BY <1>2, <2>3, <3>1, TwoCallers, WriteLocked DEF Written
    <3>3. value' \cap own[o].mask \subseteq alone'[o]
      BY <1>5, <1>8, <2>1, <3>1, <3>2 DEF StatusInStep
    <3>4. Differs(o)' => o \in events \/ Differs(o) \/ WriteBack(o) # {}
      BY <1>1, <1>5, <2>1, <3>2 DEF Differs
    <3> QED
      BY <1>8, <2>2, <2>3, <2>4, <3>1, <3>3, <3>4 DEF StatusInStep
  <2> QED
    BY <2>5, <2>6
<1> QED
  BY <1>6, <1>7, <1>9, <1>10, TwoCallers DEF CsrInvariant, InStep

\* The hardware and the pulse change a field and the lone register alike.
LEMMA FieldSet ==
    ASSUME CsrInvariant, NEW c \in Callers, NEW bits \in SUBSET own[c].mask,
           value' = (value \ own[c].mask) \cup bits,
           alone' = [alone EXCEPT ![c] = bits],
           causes' \in [Callers -> SUBSET Why],
           \A d \in Callers : causes[d] \subseteq causes'[d],
           WritesBack(c) /\ Plain(c) => own[c].hw /\ "hardware" \in causes'[c],
           UNCHANGED <<reg, own, call, locked>>
    PROVE  CsrInvariant'
<1>1. TypeOK /\ OwnTypeOK
  BY DEF CsrInvariant, TypeOK
<1>2. own[c].mask \subseteq Word /\ own[c].mask \cap own[Other(c)].mask = {}
  BY <1>1, OwnFields
<1>3. alone'[c] = bits /\ alone'[Other(c)] = alone[Other(c)]
  BY <1>1, TwoCallers DEF TypeOK
<1>4. TypeOK'
  <2>1. value' \subseteq Word /\ alone' \in [Callers -> SUBSET Word]
    BY <1>1, <1>2 DEF TypeOK
  <2>2. \A d \in Callers : alone'[d] \subseteq own[d].mask
    BY <1>1, <1>3, TwoCallers DEF TypeOK
  <2> QED
    BY <1>1, <2>1, <2>2, OwnKept DEF TypeOK
<1>5. OverlapNoted'
  BY DEF OverlapNoted, Running, CsrInvariant
<1>6. FieldInStep(c) /\ StatusInStep(c) /\ FieldInStep(Other(c)) /\ StatusInStep(Other(c))
  BY TwoCallers DEF CsrInvariant, InStep
<1>7. FieldInStep(c)' /\ StatusInStep(c)'
  <2>1. value' \cap own[c].mask = bits
    OBVIOUS
  <2>2. ~Differs(c)' /\ (WritesBack(c)' <=> WritesBack(c)) /\ WriteBack(c)' = WriteBack(c)
    BY <1>3, <2>1 DEF Differs, WritesBack, WriteBack
  <2>3. WritesBack(c) /\ Plain(c) => Excused(c)'
    BY DEF Excused
  <2>4. FieldInStep(c)'
    BY <2>2, <2>3 DEF FieldInStep, Plain
  <2>5. StatusInStep(c)'
    BY <1>3, <1>6, <2>1, <2>2 DEF StatusInStep
  <2> QED
    BY <2>4, <2>5
<1>8. FieldInStep(Other(c))' /\ StatusInStep(Other(c))'
  <2>1. value' \cap own[Other(c)].mask = value \cap own[Other(c)].mask
    BY <1>2
  <2>2. WritesBack(Other(c)) <=> WritesBack(Other(c))'
    BY DEF WritesBack
  <2> QED
    BY <1>3, <1>6, <2>1, <2>2, TwoCallers, FieldLeftAlone
<1> QED
  BY <1>4, <1>5, <1>7, <1>8, TwoCallers DEF CsrInvariant, InStep

LEMMA HardwareKeeps ==
    ASSUME CsrInvariant, NEW c \in Callers, Hardware(c)
    PROVE  CsrInvariant'
<1>1. PICK bits \in {{}, own[c].mask} :
        /\ own[c].hw
        /\ value' = (value \ own[c].mask) \cup bits
        /\ alone' = [alone EXCEPT ![c] = bits]
        /\ causes' = [causes EXCEPT ![c] = IF call[Other(c)].pc = "write" /\ Settles(own[c])
                                           THEN @ \cup {"hardware"} ELSE @]
        /\ UNCHANGED <<reg, own, call, locked>>
  BY DEF Hardware
<1>2. causes' \in [Callers -> SUBSET Why] /\ \A d \in Callers : causes[d] \subseteq causes'[d]
  BY <1>1 DEF CsrInvariant, TypeOK, Why
<1>3. WritesBack(c) /\ Plain(c) => own[c].hw /\ "hardware" \in causes'[c]
  BY <1>1 DEF CsrInvariant, TypeOK, WritesBack, Plain, Settles
<1>4. bits \in SUBSET own[c].mask
  BY <1>1
<1> QED
  BY <1>1, <1>2, <1>3, <1>4, FieldSet

LEMMA PulseKeeps ==
    ASSUME CsrInvariant, NEW c \in Callers, Pulse(c)
    PROVE  CsrInvariant'
<1>1. /\ Pulsed(own[c])
      /\ value' = (value \ own[c].mask) \cup {}
      /\ alone' = [alone EXCEPT ![c] = {}]
      /\ UNCHANGED <<reg, own, call, causes, locked>>
  BY DEF Pulse
<1>2. OwnTypeOK /\ causes' \in [Callers -> SUBSET Why]
  BY <1>1 DEF CsrInvariant, TypeOK
<1>3. ~Plain(c)
  BY <1>1, <1>2, OwnFields, ClassOfMap DEF Plain
<1>4. {} \in SUBSET own[c].mask
  OBVIOUS
<1> QED
  BY <1>1, <1>2, <1>3, <1>4, FieldSet

\* The lock says what later writes do, and nothing of what there is.
LEMMA LockKeeps ==
    ASSUME CsrInvariant, Lock PROVE CsrInvariant'
<1>1. TypeOK'
  BY OwnKept DEF CsrInvariant, TypeOK, Lock
<1>2. (OverlapNoted /\ InStep)'
  BY DEF Lock, CsrInvariant, OverlapNoted, InStep, FieldInStep, StatusInStep, Plain, Excused,
         Differs, WritesBack, WriteBack, Running
<1> QED
  BY <1>1, <1>2 DEF CsrInvariant

-----------------------------------------------------------------------------
(* The theorems. *)

LEMMA CsrInit ==
    ASSUME Init PROVE CsrInvariant
<1>1. OwnTypeOK
  BY DEF Init, Chosen, OwnTypeOK
<1>2. /\ value = ResetValue(reg) /\ call = [c \in Callers |-> IdleCall]
      /\ alone = [c \in Callers |-> own[c].reset] /\ causes = [c \in Callers |-> {}]
      /\ locked = FALSE
  BY DEF Init
<1>3. TypeOK
  <2>1. value \subseteq Word
    BY <1>1, <1>2, MapAssumption DEF ResetValue, MapSound, OwnTypeOK, Word
  <2>2. IdleCall \in Calls /\ \A c \in Callers : IdleCall.data \in DataFor(own[c])
    BY DEF IdleCall, Calls, DataFor
  <2>3. \A c \in Callers : own[c].reset \subseteq own[c].mask /\ own[c].mask \subseteq Word
    BY <1>1, OwnFields
  <2> QED
    BY <1>1, <1>2, <2>1, <2>2, <2>3 DEF TypeOK
<1>4. \A c \in Callers : ~Running(c) /\ ~WritesBack(c) /\ ~Differs(c)
  BY <1>1, <1>2, TwoCallers, ResetOfField DEF Running, WritesBack, Differs, IdleCall
<1>5. OverlapNoted
  BY <1>4, CallersAssumption DEF OverlapNoted
<1>6. InStep
  BY <1>4 DEF InStep, FieldInStep, StatusInStep, Differs
<1> QED
  BY <1>3, <1>5, <1>6 DEF CsrInvariant

LEMMA CsrStep ==
    ASSUME CsrInvariant, [Next]_csrVars PROVE CsrInvariant'
<1>1. CASE UNCHANGED csrVars
  BY <1>1 DEF csrVars, CsrInvariant, TypeOK, OwnTypeOK, OverlapNoted, InStep, FieldInStep,
              StatusInStep, Plain, Excused, Differs, WritesBack, WriteBack, Running
<1>2. CASE Next
  BY <1>2, CallKeeps, ReadCsrKeeps, WriteCsrKeeps, HardwareKeeps, PulseKeeps, LockKeeps DEF Next
<1> QED
  BY <1>1, <1>2

\* Whatever two calls of write_csr_field and the hardware do, what a suspended
\* call has read agrees with the other field, or a cause is known why not.
THEOREM CallsInStep == Spec => []CsrInvariant
<1>1. Init => CsrInvariant
  BY CsrInit
<1>2. CsrInvariant /\ [Next]_csrVars => CsrInvariant'
  BY CsrStep
<1> QED
  BY <1>1, <1>2, PTL DEF Spec

\* Type correctness: the two calls stay on two fields of the register, and no
\* bit leaves its word or its field.
THEOREM TypeCorrect == Spec => []TypeOK
<1>1. CsrInvariant => TypeOK
  BY DEF CsrInvariant
<1> QED
  BY <1>1, CallsInStep, PTL

\* write_csr_field leaves every other field of the register alone, unless the
\* calls overlapped or the hardware raced the call.
THEOREM FieldsStayApart == Spec => []FieldsApart
<1>1. CsrInvariant => FieldsApart
  BY DEF CsrInvariant, InStep, FieldInStep, FieldsApart, Plain, Excused, WritesBack
<1> QED
  BY <1>1, CallsInStep, PTL

\* No call sets a status bit, and only one that saw it set loses it.
THEOREM StatusIsKept == Spec => []StatusKept
<1>1. CsrInvariant => StatusKept
  BY DEF CsrInvariant, InStep, StatusInStep, StatusKept
<1> QED
  BY <1>1, CallsInStep, PTL

=============================================================================
