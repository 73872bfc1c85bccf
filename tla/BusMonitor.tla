----------------------------- MODULE BusMonitor -----------------------------
(***************************************************************************)
(* The protocol monitor the test bench runs beside the target              *)
(* (lib_i3c_top/i3c_bus_monitor.py).  It follows the bus from SDA and SCL  *)
(* alone and judges from its own phase how the target may drive SDA.  The  *)
(* model steps by START, STOP, address byte, acknowledge bit, data byte    *)
(* and T-bit.  The checks of one phase on the target's output enable and   *)
(* mode become one expectation per phase; the three checks timed in        *)
(* nanoseconds after an SCL edge are kept where they depend on the phase   *)
(* (the takeover after an IBI), and left out where they only measure the   *)
(* delay of an output.                                                     *)
(***************************************************************************)
EXTENDS Naturals

VARIABLES
    phase,      \* _phase
    repeated,   \* _is_repeated_start
    active,     \* _bus_active
    seen,       \* _addr_accum and _rnw
    code,       \* _active_ccc_code, "none" for None
    daa,        \* _is_entdaa
    nth,        \* _byte_in_msg, up to two
    inRead,     \* _in_ccc_read_phase
    inWrite,    \* _in_ccc_write_phase
    aborts,     \* _abort_count, up to one
    alarm       \* the first violation recorded: the exception ends the monitor

monVars == <<phase, repeated, active, seen, code, daa, nth, inRead, inWrite, aborts, alarm>>

Phases == { "IDLE", "ADDR_BITS", "ADDR_ACK", "WRITE_DATA", "WRITE_TBIT",
            "READ_DATA", "READ_TBIT", "IBI_ADDR_ACK", "IBI_MDB", "IBI_DATA",
            "IBI_DATA_TBIT", "CCC_BYTE", "CCC_TBIT", "ENTDAA", "HDR_MODE" }

\* Address bytes by what they mean to the target: 7E/W, 7E/R, the dynamic
\* addresses of the main and of the virtual target, any other address.
Broadcast == {"rsvdW", "rsvdR"}
ToDut == {"mainW", "mainR", "virtW", "virtR"}
ReadAddr == {"rsvdR", "mainR", "virtR", "otherR"}

CccCodes == {"ENTDAA", "ENTHDR", "SET", "GET", "BCAST"}

\* How the target drives SDA: not at all, open drain or push-pull.
Drives == {"off", "od", "pp"}

-----------------------------------------------------------------------------
(* Judging the target. *)

Expected ==
    CASE phase = "ADDR_BITS" -> IF repeated THEN {"off"} ELSE {"off", "od"}
      [] phase \in {"ADDR_ACK", "IBI_ADDR_ACK"} -> {"off", "od"}
      [] phase = "ENTDAA" -> {"off", "od"}
      [] phase \in {"IDLE", "HDR_MODE"} -> Drives
      [] OTHER -> {"off", "pp"}

\* Judge how the target drives the byte or bit under way, then move on.
Judge(drive) ==
    alarm' = IF alarm # "none" \/ drive \in Expected THEN alarm ELSE phase

\* A violation is raised before the phase moves, and ends the monitor.
Live == alarm' = "none"

Goto(p) == phase' = p

-----------------------------------------------------------------------------

\* In HDR mode every edge but the STOP at the end is ignored, START-like
\* patterns included.
Suspended == phase = "HDR_MODE" \/ alarm # "none"

EnterAddrPhase(sr) ==
    /\ Goto("ADDR_BITS")
    /\ repeated' = sr
    /\ nth' = 0

\* want is the number of bytes the GET under way should return, got the number
\* it has returned.
MonStart(got, want) ==
    \/ Suspended /\ UNCHANGED monVars
    \/ /\ ~Suspended
       /\ EnterAddrPhase(active)
       /\ active' = TRUE
       /\ inRead' = FALSE
       /\ aborts' = IF active /\ inRead /\ phase \in {"READ_DATA", "READ_TBIT"} /\ got < want
                    THEN 1 ELSE aborts
       /\ code' = IF active THEN code ELSE "none"
       /\ inWrite' = (active /\ inWrite)
       /\ UNCHANGED <<seen, daa, alarm>>

MonStop ==
    /\ IF alarm # "none"
       THEN UNCHANGED <<phase, active, daa, code, inRead, inWrite>>
       ELSE /\ Goto("IDLE")
            /\ active' = FALSE
            /\ daa' = FALSE
            /\ IF phase = "HDR_MODE"
               THEN UNCHANGED <<code, inRead, inWrite>>
               ELSE code' = "none" /\ inRead' = FALSE /\ inWrite' = FALSE
    /\ UNCHANGED <<repeated, seen, nth, aborts, alarm>>

-----------------------------------------------------------------------------
(* Addresses. *)

\* An IBI is a read from the target's address after a START (not a repeated
\* one) during which the target drove a bit.
\* Slip: that the target drove is not looked at.
MutIsIbi(h, drive) == ~repeated /\ h \in ToDut \cap ReadAddr

IsIbi(h, drive) == ~repeated /\ h \in ToDut \cap ReadAddr /\ drive # "off"

MonAddress(h, drive) ==
    /\ Judge(drive)
    /\ IF phase = "ADDR_BITS" /\ Live
       THEN seen' = h /\ Goto(IF IsIbi(h, drive) THEN "IBI_ADDR_ACK" ELSE "ADDR_ACK")
       ELSE UNCHANGED <<seen, phase>>
    /\ UNCHANGED <<repeated, active, code, daa, nth, inRead, inWrite, aborts>>

\* Slip: a broadcast header is followed as a private write.
MutAfterAck ==
    CASE seen = "rsvdR" -> IF daa THEN "ENTDAA" ELSE "READ_DATA"
      [] seen \in ReadAddr \cap ToDut -> "READ_DATA"
      [] seen \in (ToDut \ ReadAddr) \cup {"rsvdW"} -> "WRITE_DATA"
      [] OTHER -> "IDLE"

\* Where an acknowledged address leads.
AfterAck ==
    CASE seen = "rsvdW" -> "CCC_BYTE"
      [] seen = "rsvdR" -> IF daa THEN "ENTDAA" ELSE "READ_DATA"
      [] seen \in ToDut -> IF seen \in ReadAddr THEN "READ_DATA" ELSE "WRITE_DATA"
      [] OTHER -> "IDLE"

\* An address within a CCC opens the phase of a direct one.
DirectPhase == code # "none" /\ repeated

AddrAcked ==
    /\ Goto(AfterAck)
    /\ IF AfterAck = "CCC_BYTE"
       THEN code' = "none" /\ nth' = 0 /\ inRead' = FALSE /\ inWrite' = FALSE
       ELSE /\ inRead' = (inRead \/ (AfterAck = "READ_DATA" /\ DirectPhase))
            /\ inWrite' = (inWrite \/ (AfterAck = "WRITE_DATA" /\ DirectPhase))
            /\ UNCHANGED <<code, nth>>

\* pp: the target drives push-pull once the acknowledge bit has been clocked,
\* as it must to take the bus over for the data of its IBI.
TakenOver(acked, pp) == phase = "IBI_ADDR_ACK" /\ acked => pp

MonAck(acked, drive, pp) ==
    /\ alarm' = IF alarm # "none" \/ (drive \in Expected /\ TakenOver(acked, pp))
                THEN alarm ELSE phase
    /\ IF Live /\ phase = "ADDR_ACK" /\ acked
       THEN AddrAcked
       ELSE /\ phase' = IF Live /\ phase = "IBI_ADDR_ACK" /\ acked THEN "IBI_MDB"
                        ELSE IF Live /\ phase \in {"ADDR_ACK", "IBI_ADDR_ACK"} THEN "IDLE"
                        ELSE phase
            /\ UNCHANGED <<code, nth, inRead, inWrite>>
    /\ UNCHANGED <<repeated, active, seen, daa, aborts>>

-----------------------------------------------------------------------------
(* Data. *)

\* The T-bit that follows eight bits of data, in either direction.
TbitOf(p) ==
    CASE p = "WRITE_DATA" -> "WRITE_TBIT"
      [] p = "READ_DATA" -> "READ_TBIT"
      [] p = "CCC_BYTE" -> "CCC_TBIT"
      [] p \in {"IBI_MDB", "IBI_DATA"} -> "IBI_DATA_TBIT"
      [] OTHER -> p

DataAfter(p) ==
    CASE p = "WRITE_TBIT" -> "WRITE_DATA"
      [] p = "READ_TBIT" -> "READ_DATA"
      [] p = "CCC_TBIT" -> "CCC_BYTE"
      [] p = "IBI_DATA_TBIT" -> "IBI_DATA"
      [] OTHER -> p

MonByte(drive) ==
    /\ Judge(drive)
    /\ phase' = IF Live THEN TbitOf(phase) ELSE phase
    /\ UNCHANGED <<repeated, active, seen, code, daa, nth, inRead, inWrite, aborts>>

\* The command code: ENTDAA changes the meaning of 7E/R, ENTHDR suspends the
\* monitor.
MonCommand(c) ==
    /\ code' = IF c = "ENTHDR" THEN "none" ELSE c
    /\ daa' = (daa \/ c = "ENTDAA")
    /\ active' = (active /\ c # "ENTHDR")
    /\ nth' = IF c = "ENTHDR" THEN nth ELSE 1
    /\ Goto(IF c = "ENTHDR" THEN "HDR_MODE" ELSE "CCC_BYTE")

\* Slip: the count is capped one byte later.
MutCounted(p) == p \in {"WRITE_TBIT", "READ_TBIT", "CCC_TBIT"} /\ nth <= 2

Counted(p) == p \in {"WRITE_TBIT", "READ_TBIT", "CCC_TBIT"} /\ nth < 2

\* c is the command code the byte was, if it was one.
MonTbit(c, drive) ==
    /\ Judge(drive)
    /\ IF phase = "CCC_TBIT" /\ nth = 0 /\ Live
       THEN MonCommand(c)
       ELSE /\ phase' = IF Live THEN DataAfter(phase) ELSE phase
            /\ nth' = IF Live /\ Counted(phase) THEN nth + 1 ELSE nth
            /\ UNCHANGED <<code, daa, active>>
    /\ UNCHANGED <<repeated, seen, inRead, inWrite, aborts>>

\* The 64 identity bits of ENTDAA, which the target drives open drain.
MonIdentity(drive) ==
    /\ Judge(drive)
    /\ UNCHANGED <<phase, repeated, active, seen, code, daa, nth, inRead, inWrite, aborts>>

\* The address after them, in which the target must not drive.
MonAssigned(drive) ==
    /\ alarm' = IF alarm = "none" /\ phase = "ENTDAA" /\ drive # "off" THEN phase ELSE alarm
    /\ phase' = IF Live /\ phase = "ENTDAA" THEN "IDLE" ELSE phase
    /\ UNCHANGED <<repeated, active, seen, code, daa, nth, inRead, inWrite, aborts>>

-----------------------------------------------------------------------------

MonInit ==
    /\ phase = "IDLE"
    /\ repeated = FALSE
    /\ active = FALSE
    /\ seen = "none"
    /\ code = "none"
    /\ daa = FALSE
    /\ nth = 0
    /\ inRead = FALSE
    /\ inWrite = FALSE
    /\ aborts = 0
    /\ alarm = "none"

MonTypeOK ==
    /\ phase \in Phases
    /\ repeated \in BOOLEAN /\ active \in BOOLEAN
    /\ seen \in Broadcast \cup ToDut \cup {"otherW", "otherR", "none"}
    /\ code \in CccCodes \cup {"none"}
    /\ daa \in BOOLEAN
    /\ nth \in 0..2
    /\ inRead \in BOOLEAN /\ inWrite \in BOOLEAN
    /\ aborts \in 0..1
    /\ alarm \in Phases \cup {"none"}

=============================================================================
