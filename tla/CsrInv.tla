------------------------------- MODULE CsrInv -------------------------------
(***************************************************************************)
(* The inductive invariant behind the properties of Csr: what the bits a   *)
(* suspended call has read have to do with the field of the other call.    *)
(***************************************************************************)
EXTENDS Csr

Word == 0 .. 31

Why == {"overlap", "shown", "hardware"}

Calls == [pc : {"idle", "read", "write"}, data : SUBSET Int, seen : SUBSET Word]

\* The two fields are different fields of one register that can be written.
OwnTypeOK ==
    /\ reg \in WordRegs
    /\ own \in [Callers -> {f \in reg.fields : Writable(f)}]
    /\ own[1] # own[2]

\* Type correctness.
TypeOK ==
    /\ OwnTypeOK
    /\ value \subseteq Word
    /\ call \in [Callers -> Calls]
    /\ \A c \in Callers : call[c].data \in DataFor(own[c])
    /\ alone \in [Callers -> SUBSET Word]
    /\ \A c \in Callers : alone[c] \subseteq own[c].mask
    /\ causes \in [Callers -> SUBSET Why]
    /\ locked \in BOOLEAN /\ (locked => reg.name \in IdRegs)

\* A field that keeps what was written last.
Plain(c) == Access(own[c]) \in {"rw", "rclr", "hwclr"}

\* The field of c may be anything: the calls overlapped, or the hardware raced one.
Excused(c) == "overlap" \in causes[c] \/ (own[c].hw /\ "hardware" \in causes[c])

\* The bits of c's field that the other call will write back.
WriteBack(c) == call[Other(c)].seen \cap own[c].mask

WritesBack(c) == call[Other(c)].pc = "write"

\* Two calls that run at once are known to overlap.
OverlapNoted ==
    (\A c \in Callers : Running(c)) =>
        \A c \in Callers : Settles(own[c]) => "overlap" \in causes[c]

\* The other call writes the field of c back as it should be, even one that its
\* read has cleared.
FieldInStep(c) ==
    Plain(c) /\ ~Excused(c) =>
        /\ Differs(c) => Access(own[c]) = "rclr" /\ WritesBack(c)
        /\ WritesBack(c) => WriteBack(c) = alone[c]

\* A status bit of c is lost only if the other call saw it set.
StatusInStep(c) ==
    Access(own[c]) = "w1c" =>
        /\ value \cap own[c].mask \subseteq alone[c]
        /\ Differs(c) => causes[c] \cap {"shown", "hardware"} # {}
        /\ WritesBack(c) /\ WriteBack(c) # {} => "shown" \in causes[c]

InStep == \A c \in Callers : FieldInStep(c) /\ StatusInStep(c)

CsrInvariant == TypeOK /\ OverlapNoted /\ InStep

=============================================================================
