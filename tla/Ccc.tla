--------------------------------- MODULE Ccc ---------------------------------
(***************************************************************************)
(* The common command codes: the machine of the target that follows them   *)
(* (ctrl/ccc.sv), its dynamic address assignment (ctrl/ccc_entdaa.sv) and  *)
(* the registers they set, one action per event of the bus.  main is what  *)
(* i3c_target_fsm.sv does around a command; a private transfer is one      *)
(* state here (TargetFsm has them in full), and no IBI is pending.         *)
(*                                                                         *)
(* All detection enables are set and both static addresses are valid.      *)
(* Addresses and codes are names.  A data byte is a number for a length,   *)
(* an address name, or "pad" for an address whose bit 0 is set.  A target  *)
(* that takes an address byte for data takes the acknowledge for its       *)
(* T-bit, whose parity may then be either.                                 *)
(***************************************************************************)
EXTENDS Naturals, Sequences

VARIABLES
    main,       \* state_q of i3c_target_fsm
    state,      \* state_q of ccc
    daa,        \* state_q of ccc_entdaa
    code,       \* command_code, "none" while not valid
    db,         \* defining_byte, "none" while not valid
    addr,       \* target_addr, or bus_addr_q, the two never being in use at once
    rnw,        \* target_rnw, or bus_rnw_q
    num,        \* rx_byte_num, tx_byte_num: cleared together, one counts at a time
    complete,   \* tx_data_complete
    data,       \* rx_data
    dyn,        \* the dynamic address of each target, "none" while not valid
    shadow,     \* mwl_o, mrl_o, ibil_o of ccc
    lens,       \* get_mwl_o, get_mrl_o, get_ibil_o of configuration
    ibiOn,      \* TTI.CONTROL.IBI_EN, the event ENEC and DISEC are shown on
    err,        \* err_o, the protocol error that GETSTATUS tells
    armed,      \* rst_action_q while rstact_armed_q, else "no"
    escalate,   \* escalate_rst_arm_q
    vtFlag,     \* vt_detect_flag_q
    reset       \* the reset the last pattern led to

busVars == <<main, state, daa>>
frameVars == <<code, db, addr, rnw, num, complete, data>>
deviceVars == <<dyn, shadow, lens, ibiOn, err>>
resetVars == <<armed, escalate, vtFlag, reset>>
cccVars == <<busVars, frameVars, deviceVars, resetVars>>

Targets == {"main", "virt"}
Static == [main |-> "ms", virt |-> "vs"]

CccStates ==
    { "WaitCCC", "RxCmdTbit", "RxDefByte", "RxDefByteOrBusCond", "RxDefByteTbit",
      "WaitDirectRstart", "RxDirectDefByteTbit", "RxTargetAddr", "TxTargetAddrAck",
      "RxData", "RxDataTbit", "TxData", "TxDataTbitCont", "TxDataTbitEnd",
      "WaitForBusCond", "WaitForENTDAAEnd", "NextCCC", "DoneCCC",
      "HandleTargetENTDAA", "HandleVirtualTargetENTDAA" }

DaaStates ==
    { "Idle", "WaitStart", "ReceiveRsvdByte", "AckRsvdByte", "SendNackTe3",
      "SendNackTe4", "SendIDBit", "ReceiveAddr", "AckAddr", "WaitStop" }

MainStates ==
    { "Idle", "RxFByte", "TxAckFByte", "RxSByte", "RxSByteRepeated", "TxAckSByte",
      "WaitRestart", "DoCCC", "InHDRMode" }

\* is_direct_cmd, bit 7 of the code.
Direct ==
    { "SETDASA", "SETNEWDA", "dSETMWL", "dSETMRL", "dENEC", "dDISEC", "dRSTACT",
      "GETBCR", "GETDCR", "GETSTATUS", "GETMWL", "GETMRL", "GETPID", "GETCAPS" }

HaveDefiningByte == {"RSTACT", "dRSTACT", "GETCAPS"}
RequiresRead == {"GETBCR", "GETDCR", "GETSTATUS", "GETMWL", "GETMRL", "GETPID", "GETCAPS"}
RequiresWrite == {"SETDASA", "SETNEWDA", "dSETMWL", "dSETMRL", "dENEC", "dDISEC"}
SupportedDb ==
    [dRSTACT |-> {"00", "01", "02", "04", "81", "82", "84"}, GETCAPS |-> {"00", "93"}]

InEntdaa == state \in {"HandleTargetENTDAA", "HandleVirtualTargetENTDAA"}

Processed == IF state = "HandleVirtualTargetENTDAA" THEN "virt" ELSE "main"

Settled == state \notin {"NextCCC", "DoneCCC"}

-----------------------------------------------------------------------------
(* What the machine reads off the address and the code. *)

\* A target that has a dynamic address no longer answers to its static one.
Own(t) == IF dyn[t] # "none" THEN dyn[t] ELSE Static[t]

Matches(t) == addr = Own(t)

\* Slip: SETDASA is taken with a dynamic address, too.
MutMatchesStatic(t) == addr = Static[t]

MatchesStatic(t) == dyn[t] = "none" /\ addr = Static[t]

MatchesAny == \E t \in Targets : Matches(t)

Addressed == IF Matches("virt") THEN "virt" ELSE "main"

UnsupportedDefiningByte ==
    code \in {"dRSTACT", "GETCAPS"} /\ db # "none" /\ db \notin SupportedDb[code]

Supported ==
    code \in RequiresRead \cup RequiresWrite \cup {"dRSTACT"} /\ ~UnsupportedDefiningByte

DirectionValid ==
    \/ code \in RequiresRead /\ rnw
    \/ code \in RequiresWrite /\ ~rnw
    \/ code = "dRSTACT"

AddrAck ==
    \/ code = "SETDASA" /\ \E t \in Targets : MatchesStatic(t)
    \/ code # "SETDASA" /\ MatchesAny /\ Supported /\ DirectionValid
    \/ addr = "7E" /\ ~rnw

Te0Error(a, r) == a = "7E" /\ r /\ \E t \in Targets : dyn[t] # "none"

-----------------------------------------------------------------------------
(* What it answers, and how many bytes it expects. *)

Length(w) == <<"len", w>>

\* tx_data for tx_byte_num = 0, 1, ..; the length is tx_byte_total.
Response(t) ==
    CASE code \in {"GETBCR", "GETDCR"} -> <<<<code, t>>>>
      [] code = "GETSTATUS" -> <<<<"vendor", "any">>, <<"status", IF err THEN "err" ELSE "ok">>>>
      [] code = "GETMWL" -> <<Length(lens.mwl[1]), Length(lens.mwl[2])>>
      [] code = "GETMRL" ->
           <<Length(lens.mrl[1]), Length(lens.mrl[2]),
             Length(IF t = "virt" THEN "0" ELSE lens.ibil)>>
      [] code = "GETPID" -> [i \in 1..6 |-> <<code, t>>]
      [] code = "GETCAPS" /\ db \in {"none", "00"} -> <<<<code, "any">>, <<code, "any">>, <<code, t>>>>
      [] code = "GETCAPS" /\ db = "93" -> <<<<"testcap", "any">>>>
      [] code = "dRSTACT" /\ db \in {"81", "82"} -> <<<<"time", "any">>>>
      [] code = "dRSTACT" /\ db = "84" -> <<<<"indication", "any">>>>
      [] code = "dRSTACT" /\ db = "04" -> <<<<"vt", IF vtFlag THEN "set" ELSE "clear">>>>
      [] code = "dRSTACT" /\ db \in {"00", "01", "02"} -> <<<<"action", armed>>>>

RxTotal ==
    CASE code \in {"SETMWL", "dSETMWL"} -> 2
      [] code \in {"SETMRL", "dSETMRL"} -> 3
      [] OTHER -> 1

-----------------------------------------------------------------------------
(* START, repeated START, STOP.  The bus monitor hides them in HDR mode. *)

\* Slip: a repeated START clears the reset action like a START.
MutStart(repeated) ==
    /\ Settled
    /\ main' = IF main = (IF repeated THEN "WaitRestart" ELSE "Idle") THEN "RxFByte" ELSE main
    /\ state' = IF state \in {"WaitDirectRstart", "RxDefByteOrBusCond", "WaitForBusCond"}
                THEN "RxTargetAddr" ELSE state
    /\ db' = IF state = "RxDefByteOrBusCond" THEN "none" ELSE db
    /\ daa' = IF daa = "WaitStart" THEN "ReceiveRsvdByte" ELSE daa
    /\ armed' = "no"
    /\ UNCHANGED <<code, addr, rnw, num, complete, data, deviceVars, escalate, vtFlag, reset>>

Start(repeated) ==
    /\ Settled
    /\ main' = IF main = (IF repeated THEN "WaitRestart" ELSE "Idle") THEN "RxFByte" ELSE main
    /\ state' = IF state \in {"WaitDirectRstart", "RxDefByteOrBusCond", "WaitForBusCond"}
                THEN "RxTargetAddr" ELSE state
    /\ db' = IF state = "RxDefByteOrBusCond" THEN "none" ELSE db
    /\ daa' = IF daa = "WaitStart" THEN "ReceiveRsvdByte" ELSE daa
    /\ armed' = IF repeated THEN armed ELSE "no"
    /\ UNCHANGED <<code, addr, rnw, num, complete, data, deviceVars, escalate, vtFlag, reset>>

StopSeen ==
    /\ Settled
    /\ main' = "Idle" /\ state' = "DoneCCC" /\ daa' = "Idle"
    /\ UNCHANGED <<frameVars, deviceVars>>

Stop == StopSeen /\ UNCHANGED resetVars

\* The STOP that ends a target reset pattern.  Slip: an armed reset escalates too.
MutResetPattern ==
    /\ IF main = "InHDRMode" THEN UNCHANGED <<busVars, frameVars, deviceVars>> ELSE StopSeen
    /\ reset' = CASE armed = "01" \/ (armed = "no" /\ ~escalate) -> "peripheral"
                  [] armed = "02" \/ (armed = "no" /\ escalate)  -> "escalated"
                  [] OTHER -> "none"
    /\ escalate' = (code # "RSTACT")
    /\ UNCHANGED <<armed, vtFlag>>

ResetPattern ==
    /\ IF main = "InHDRMode" THEN UNCHANGED <<busVars, frameVars, deviceVars>> ELSE StopSeen
    /\ reset' = CASE armed = "01" \/ (armed = "no" /\ ~escalate) -> "peripheral"
                  [] armed = "02" \/ (armed = "no" /\ escalate)  -> "escalated"
                  [] OTHER -> "none"
    /\ escalate' = (code # "RSTACT" /\ (escalate \/ armed = "no"))
    /\ UNCHANGED <<armed, vtFlag>>

HdrExit ==
    /\ main = "InHDRMode" /\ Settled
    /\ main' = "Idle"
    /\ UNCHANGED <<state, daa, frameVars, deviceVars, resetVars>>

\* The cycle after a command, in which the target machine is told.  Without a
\* STOP it still presents the command, so that the code stays.
Finish ==
    /\ ~Settled
    /\ state' = "WaitCCC"
    /\ main' = CASE state = "NextCCC" -> "RxSByte"
                 [] main = "DoCCC" -> "Idle"
                 [] OTHER -> main
    /\ code' = IF main = "Idle" THEN "none" ELSE code
    /\ db' = IF state = "DoneCCC" THEN "none" ELSE db
    /\ err' = (err /\ ~(state = "DoneCCC" /\ code = "GETSTATUS" /\ complete))
    /\ UNCHANGED <<daa, addr, rnw, num, complete, data, dyn, shadow, lens, ibiOn, resetVars>>

-----------------------------------------------------------------------------
(* The command code, its defining byte, the data of a SET. *)

Shift(to) == state' = to /\ UNCHANGED <<main, daa>>

ByteSeen(v) ==
    \/ /\ main = "RxSByte"
       /\ main' = "DoCCC" /\ state' = "RxCmdTbit"
       /\ code' = v /\ num' = 0 /\ complete' = FALSE
       /\ escalate' = (escalate /\ v # "RSTACT")
       /\ UNCHANGED <<daa, db, addr, rnw, data, deviceVars, armed, vtFlag, reset>>
    \/ /\ state \in {"RxDefByte", "RxDefByteOrBusCond"}
       /\ Shift("RxDefByteTbit")
       /\ db' = v
       /\ UNCHANGED <<code, addr, rnw, num, complete, data, deviceVars, resetVars>>
    \/ /\ state = "WaitDirectRstart"
       /\ Shift("RxDirectDefByteTbit")
       /\ UNCHANGED <<frameVars, deviceVars, resetVars>>
    \/ /\ state = "RxData"
       /\ Shift("RxDataTbit")
       /\ data' = v
       /\ UNCHANGED <<code, db, addr, rnw, num, complete, deviceVars, resetVars>>

ListensToBytes ==
    main = "RxSByte"
    \/ state \in {"RxDefByte", "RxDefByteOrBusCond", "WaitDirectRstart", "RxData"}

\* TE1: whether the bus is in HDR mode now cannot be known, so stay out of it.
CmdTbitBad ==
    /\ state = "RxCmdTbit"
    /\ state' = "DoneCCC" /\ main' = "InHDRMode" /\ err' = TRUE
    /\ UNCHANGED <<daa, frameVars, dyn, shadow, lens, ibiOn, resetVars>>

AfterCmd ==
    CASE code = "GETCAPS" -> "RxDefByteOrBusCond"
      [] code \in HaveDefiningByte \ {"GETCAPS"} -> "RxDefByte"
      [] code = "ENTDAA" -> IF dyn["main"] = "none" THEN "HandleTargetENTDAA"
                            ELSE IF dyn["virt"] = "none" THEN "HandleVirtualTargetENTDAA"
                            ELSE "WaitForENTDAAEnd"
      [] code = "ENTHDR" -> "DoneCCC"
      [] code \in Direct -> "WaitDirectRstart"
      [] OTHER -> "RxData"

CmdTbitGood ==
    /\ state = "RxCmdTbit"
    /\ state' = AfterCmd
    /\ main' = IF code = "ENTHDR" THEN "InHDRMode" ELSE main
    /\ daa' = IF AfterCmd \in {"HandleTargetENTDAA", "HandleVirtualTargetENTDAA"}
              THEN "WaitStart" ELSE daa
    /\ dyn' = [t \in Targets |->
                 CASE code = "RSTDAA" -> "none"
                   [] code = "SETAASA" /\ dyn[t] = "none" -> Static[t]
                   [] OTHER -> dyn[t]]
    /\ UNCHANGED <<frameVars, shadow, lens, ibiOn, err, resetVars>>

\* TE2, on a defining byte or on data: the command ends here.
TbitBad ==
    /\ state \in {"RxDefByteTbit", "RxDirectDefByteTbit", "RxDataTbit"}
    /\ Shift("DoneCCC") /\ err' = TRUE
    /\ UNCHANGED <<frameVars, dyn, shadow, lens, ibiOn, resetVars>>

Arms == {"00", "01", "02"}

DefTbitGood ==
    /\ \/ /\ state = "RxDefByteTbit"
          /\ Shift(IF code \in Direct THEN "WaitDirectRstart" ELSE "RxData")
          /\ armed' = IF code = "RSTACT" /\ db \in Arms THEN db ELSE armed
          /\ vtFlag' = (vtFlag /\ ~(code = "RSTACT" /\ db = "00"))
       \/ /\ state = "RxDirectDefByteTbit"
          /\ Shift("WaitDirectRstart") /\ UNCHANGED <<armed, vtFlag>>
    /\ UNCHANGED <<frameVars, deviceVars, escalate, reset>>

Padding == code \in {"SETDASA", "SETNEWDA"} /\ num = 0 /\ data = "pad"

\* Which target an address is given to.
Assigned ==
    IF code = "SETDASA" THEN Addressed
    ELSE IF dyn["virt"] # "none" /\ addr = dyn["virt"] THEN "virt" ELSE "main"

\* What a byte of a SET does, num bytes of it having been received before.
\* Slip: the bytes of a read length are taken in the wrong order.
MutNewLens ==
    CASE code \in {"SETMWL", "dSETMWL"} -> [shadow EXCEPT !.mwl[num + 1] = data]
      [] code \in {"SETMRL", "dSETMRL"} /\ num < 2 -> [shadow EXCEPT !.mrl[2 - num] = data]
      [] code \in {"SETMRL", "dSETMRL"} -> [shadow EXCEPT !.ibil = data]
      [] OTHER -> shadow

NewLens ==
    CASE code \in {"SETMWL", "dSETMWL"} -> [shadow EXCEPT !.mwl[num + 1] = data]
      [] code \in {"SETMRL", "dSETMRL"} /\ num < 2 -> [shadow EXCEPT !.mrl[num + 1] = data]
      [] code \in {"SETMRL", "dSETMRL"} -> [shadow EXCEPT !.ibil = data]
      [] OTHER -> shadow

\* configuration takes a length once its last byte is there.
Taken ==
    CASE code \in {"SETMWL", "dSETMWL"} /\ num = 1 -> [lens EXCEPT !.mwl = NewLens.mwl]
      [] code \in {"SETMRL", "dSETMRL"} /\ num = 1 -> [lens EXCEPT !.mrl = NewLens.mrl]
      [] code \in {"SETMRL", "dSETMRL"} /\ num = 2 -> [lens EXCEPT !.ibil = NewLens.ibil]
      [] OTHER -> lens

DataTbitGood ==
    /\ state = "RxDataTbit"
    /\ Shift(IF num = RxTotal - 1 THEN "WaitForBusCond" ELSE "RxData")
    /\ num' = num + 1
    /\ IF Padding
       THEN err' = TRUE /\ UNCHANGED <<dyn, shadow, lens, ibiOn>>
       ELSE /\ dyn' = IF code \in {"SETDASA", "SETNEWDA"} /\ num = 0
                      THEN [dyn EXCEPT ![Assigned] = data] ELSE dyn
            /\ shadow' = NewLens /\ lens' = Taken
            /\ ibiOn' = CASE code \in {"ENEC", "dENEC"} /\ num = 0 -> TRUE
                          [] code \in {"DISEC", "dDISEC"} /\ num = 0 -> FALSE
                          [] OTHER -> ibiOn
            /\ UNCHANGED err
    /\ UNCHANGED <<code, db, addr, rnw, complete, data, resetVars>>

Tbit(good) ==
    IF good THEN CmdTbitGood \/ DefTbitGood \/ DataTbitGood ELSE CmdTbitBad \/ TbitBad

ListensToTbit ==
    state \in {"RxCmdTbit", "RxDefByteTbit", "RxDirectDefByteTbit", "RxDataTbit"}

-----------------------------------------------------------------------------
(* Addresses and their acknowledge. *)

ListensToAddress ==
    main = "RxFByte" \/ state \in {"RxTargetAddr", "RxData"} \/ daa = "ReceiveRsvdByte"

AddressSeen(a, r) ==
    \/ /\ main = "RxFByte"
       /\ addr' = a /\ rnw' = r
       /\ main' = CASE Te0Error(a, r) -> "InHDRMode"
                    [] ~Te0Error(a, r) /\ ((a = "7E" /\ ~r) \/ \E t \in Targets : a = Own(t)) -> "TxAckFByte"
                    [] OTHER -> "WaitRestart"
       /\ UNCHANGED <<state, daa, code, db, num, complete, data>>
    \/ /\ state = "RxTargetAddr"
       /\ Shift("TxTargetAddrAck")
       /\ addr' = a /\ rnw' = r
       /\ UNCHANGED <<code, db, num, complete, data>>
    \/ /\ state = "RxData"         \* no repeated START is looked for here
       /\ Shift("RxDataTbit")
       /\ data' = a
       /\ UNCHANGED <<code, db, addr, rnw, num, complete>>
    \/ /\ daa = "ReceiveRsvdByte"
       /\ daa' = IF a = "7E" /\ r THEN "AckRsvdByte" ELSE "SendNackTe4"
       /\ UNCHANGED <<main, state, frameVars>>

Acks ==
    \/ main = "TxAckFByte"
    \/ state = "TxTargetAddrAck" /\ AddrAck
    \/ daa \in {"AckRsvdByte", "AckAddr"}

HeaderAcked ==
    /\ main = "TxAckFByte"
    /\ main' = IF addr = "7E" THEN "RxSByte" ELSE "WaitRestart"
    /\ UNCHANGED <<state, daa, frameVars, deviceVars, resetVars>>

\* Where the acknowledge of a direct command leads.
AfterAddress ==
    CASE Te0Error(addr, rnw) -> "DoneCCC"
      [] ~Te0Error(addr, rnw) /\ addr = "7E" -> "NextCCC"
      [] addr # "7E" /\ ~AddrAck -> "WaitForBusCond"
      [] OTHER -> IF code \in RequiresRead \/ (code = "dRSTACT" /\ rnw) THEN "TxData"
                  ELSE IF code = "dRSTACT" THEN "WaitForBusCond" ELSE "RxData"

TargetAddressAnswered ==
    /\ state = "TxTargetAddrAck"
    /\ state' = AfterAddress
    /\ main' = IF Te0Error(addr, rnw) THEN "InHDRMode" ELSE main
    /\ num' = 0 /\ complete' = FALSE
    /\ LET written == code = "dRSTACT" /\ AddrAck /\ ~rnw IN
       /\ armed' = IF written /\ db \in Arms THEN db ELSE armed
       /\ vtFlag' = IF written /\ db = "04" THEN TRUE
                    ELSE vtFlag /\ ~(written /\ db = "00")
    /\ escalate' = (escalate /\ ~(MatchesAny /\ code \in {"dRSTACT", "GETSTATUS"}))
    /\ UNCHANGED <<daa, code, db, addr, rnw, data, deviceVars, reset>>

AfterDaa ==
    IF Processed = "main" /\ dyn["virt"] = "none"
    THEN "HandleVirtualTargetENTDAA" ELSE "WaitForENTDAAEnd"

DaaAnswered ==
    /\ \/ /\ daa = "AckRsvdByte" /\ daa' = "SendIDBit" /\ UNCHANGED state
       \/ /\ daa = "SendNackTe4" /\ daa' = "WaitStop"  /\ UNCHANGED state
       \/ /\ daa = "SendNackTe3" /\ daa' = "WaitStart" /\ UNCHANGED state
       \/ /\ daa = "AckAddr"
          /\ state' = AfterDaa
          /\ daa' = IF AfterDaa = "WaitForENTDAAEnd" THEN "Idle" ELSE "WaitStart"
    /\ UNCHANGED <<main, frameVars, deviceVars, resetVars>>

\* A target that took the address for data takes the acknowledge for its T-bit.
AckSlot ==
    \/ HeaderAcked \/ TargetAddressAnswered \/ DaaAnswered
    \/ state = "RxDataTbit" /\ \E good \in BOOLEAN : Tbit(good)

Answers ==
    main = "TxAckFByte" \/ state \in {"TxTargetAddrAck", "RxDataTbit"}
    \/ daa \in {"AckRsvdByte", "SendNackTe3", "SendNackTe4", "AckAddr"}

-----------------------------------------------------------------------------
(* Dynamic address assignment: 64 bits of identity, then an address. *)

IdBits(wins) ==
    /\ daa = "SendIDBit"
    /\ daa' = IF wins THEN "ReceiveAddr" ELSE "WaitStart"
    /\ UNCHANGED <<main, state, frameVars, deviceVars, resetVars>>

\* Slip: the address is taken before its parity is looked at.
MutAssignAddress(a, good) ==
    /\ daa = "ReceiveAddr"
    /\ daa' = IF good THEN "AckAddr" ELSE "SendNackTe3"
    /\ dyn' = [dyn EXCEPT ![Processed] = a]
    /\ UNCHANGED <<main, state, frameVars, shadow, lens, ibiOn, err, resetVars>>

AssignAddress(a, good) ==
    /\ daa = "ReceiveAddr"
    /\ daa' = IF good THEN "AckAddr" ELSE "SendNackTe3"
    /\ dyn' = IF good THEN [dyn EXCEPT ![Processed] = a] ELSE dyn
    /\ UNCHANGED <<main, state, frameVars, shadow, lens, ibiOn, err, resetVars>>

-----------------------------------------------------------------------------
(* The answer to a GET. *)

TxByte == Response(Addressed)[num + 1]

\* Slip: the answer ends one byte early.
MutSendByte ==
    /\ state = "TxData"
    /\ Shift(IF num = Len(Response(Addressed)) - 2 THEN "TxDataTbitEnd" ELSE "TxDataTbitCont")
    /\ num' = num + 1
    /\ UNCHANGED <<code, db, addr, rnw, complete, data, deviceVars, resetVars>>

SendByte ==
    /\ state = "TxData"
    /\ Shift(IF num = Len(Response(Addressed)) - 1 THEN "TxDataTbitEnd" ELSE "TxDataTbitCont")
    /\ num' = num + 1
    /\ UNCHANGED <<code, db, addr, rnw, complete, data, deviceVars, resetVars>>

SendTbitEnd ==
    /\ state = "TxDataTbitEnd"
    /\ Shift("WaitForBusCond")
    /\ complete' = TRUE
    /\ UNCHANGED <<code, db, addr, rnw, num, data, deviceVars, resetVars>>

SendTbitCont ==
    /\ state = "TxDataTbitCont"
    /\ Shift("TxData")
    /\ UNCHANGED <<frameVars, deviceVars, resetVars>>

\* The controller makes a repeated START of the T-bit.  Slip: what it has not
\* read counts as read.
MutAborted ==
    /\ state = "TxDataTbitCont"
    /\ Shift("RxTargetAddr")
    /\ complete' = TRUE
    /\ UNCHANGED <<code, db, addr, rnw, num, data, deviceVars, resetVars>>

Aborted ==
    /\ state = "TxDataTbitCont"
    /\ Shift("RxTargetAddr")
    /\ UNCHANGED <<frameVars, deviceVars, resetVars>>

-----------------------------------------------------------------------------

CccInit ==
    /\ main = "Idle" /\ state = "WaitCCC" /\ daa = "Idle"
    /\ code = "none" /\ db = "none" /\ addr = "none" /\ rnw = FALSE
    /\ num = 0 /\ complete = FALSE /\ data = "none"
    /\ shadow = [mwl |-> <<"0", "0">>, mrl |-> <<"0", "0">>, ibil |-> "FF"]
    /\ lens = [mwl |-> <<"1", "0">>, mrl |-> <<"1", "0">>, ibil |-> "16"]
    /\ ibiOn = TRUE /\ err = FALSE
    /\ armed = "no" /\ escalate = FALSE /\ vtFlag = FALSE /\ reset = "none"

CccTypeOK ==
    /\ main \in MainStates /\ state \in CccStates /\ daa \in DaaStates
    /\ num \in 0..6
    /\ {rnw, complete, ibiOn, err, escalate, vtFlag} \subseteq BOOLEAN
    /\ DOMAIN dyn = Targets
    /\ daa # "Idle" <=> InEntdaa
    /\ Settled => (main = "DoCCC" <=> state # "WaitCCC")
    /\ armed \in Arms \cup {"no"}
    /\ reset \in {"none", "peripheral", "escalated"}
=============================================================================
