-------------------------------- MODULE CccBus --------------------------------
(***************************************************************************)
(* The bench controller's command calls (i3c_controller_fixed.py:          *)
(* i3c_ccc_write, i3c_ccc_read, i3c_entdaa, send_te0_error to              *)
(* send_te2_error; their callers in common.py) against the target of Ccc.  A call is a     *)
(* sequence of bus steps, and a bus step is one of both.  A call may leave *)
(* the bus held (stop=False), so that the next one begins with a repeated  *)
(* START.  One more device, the rival, may lack an address.                *)
(*                                                                         *)
(* known is what the controller may conclude of the target from what it    *)
(* sent and what was acknowledged: the specification of the commands.      *)
(***************************************************************************)
EXTENDS Ccc, SequencesExt

CONSTANTS
    Cmds,       \* the calls
    MaxCmds,    \* how many of them one behaviour has
    Corners     \* the uses the target is known not to bear, of which see Cornered

ASSUME MaxCmdsAssumption == MaxCmds \in Nat

ASSUME CornersAssumption == Corners \subseteq {"heldShort", "resetOther", "newStatic"}

VARIABLES
    cmd,        \* the call under way
    todo,       \* its steps left
    calls,      \* calls made
    held,       \* the bus has not been stopped
    acked,      \* the answer to the last address
    heard,      \* the bytes read from the target addressed last
    ended,      \* the target ended that read
    rival,      \* the other device lacks an address
    winner,     \* who sent its identity
    known,      \* what the controller has told the target (ghost)
    toldErr     \* it has read the present protocol error (ghost)

callVars == <<cmd, calls>>
readVars == <<acked, heard, ended>>
daaVars == <<rival, winner>>
ghosts == <<known, toldErr>>
vars == <<cccVars, callVars, todo, held, readVars, daaVars, ghosts>>

NoCmd == [kind |-> "none"]

-----------------------------------------------------------------------------
(* Calls as steps.  A step that completes an effect names it. *)

NoEffect == [f |-> "none"]
Step(do) == <<[do |-> do]>>
Ack(a, r, eff) == <<[do |-> "ack", a |-> a, r |-> r, eff |-> eff]>>
Header(a, r, eff) == <<[do |-> "addr", a |-> a, r |-> r]>> \o Ack(a, r, eff)
Byte(v, good, eff) == <<[do |-> "byte", v |-> v], [do |-> "tbit", good |-> good, eff |-> eff]>>

\* The devices are called by the address they have been given, if any.
Address(to) ==
    IF to \in Targets THEN (IF known.dyn[to] # "none" THEN known.dyn[to] ELSE Static[to]) ELSE to

Who(to) == IF to \in {"main", "ms"} THEN "main" ELSE IF to \in {"virt", "vs"} THEN "virt" ELSE "none"

\* What the i-th byte of the data d completes.
DataEffect(c, to, d, i) ==
    CASE c \in {"SETMWL", "dSETMWL"} /\ i = 2 -> [f |-> "mwl", v |-> <<d[1], d[2]>>]
      [] c \in {"SETMRL", "dSETMRL"} /\ i = 2 -> [f |-> "mrl", v |-> <<d[1], d[2]>>]
      [] c \in {"SETMRL", "dSETMRL"} /\ i = 3 -> [f |-> "ibil", v |-> d[3]]
      [] c \in {"ENEC", "dENEC", "DISEC", "dDISEC"} -> [f |-> "ibiOn", v |-> c \in {"ENEC", "dENEC"}]
      [] c \in {"SETDASA", "SETNEWDA"} /\ d[1] # "pad" -> [f |-> "dyn", t |-> Who(to), v |-> d[1]]
      [] OTHER -> NoEffect

CodeEffect(c) ==
    CASE c \in {"RSTDAA", "SETAASA"} -> [f |-> c]
      [] c = "RSTACT" -> [f |-> "unescalate"]
      [] OTHER -> NoEffect

WriteData(c, to, d, bad) ==
    FlattenSeq([i \in 1..Len(d) |-> Byte(d[i], ~(bad /\ i = Len(d)), DataEffect(c, to, d, i))])

\* What addressing a target means to it, acknowledged (eff) or not.
SegmentEffect(op, to) ==
    IF Who(to) = "none" THEN NoEffect
    ELSE CASE op.code = "dRSTACT" /\ op.kind = "write" -> [f |-> "arm", v |-> op.db]
           [] op.code \in {"dRSTACT", "GETSTATUS"} /\ op.kind = "read" -> [f |-> "unescalate"]
           [] OTHER -> NoEffect

Reserved == Step("start") \o Header("7E", FALSE, NoEffect)

Opening(op) ==
    Reserved \o Byte(op.code, op.bad # "code", CodeEffect(op.code))
    \o (IF op.db = "none" THEN <<>>
        ELSE Byte(op.db, op.bad # "db",
                  IF op.code = "RSTACT" THEN [f |-> "arm", v |-> op.db] ELSE NoEffect))

StopIf(yes) == IF yes THEN Step("stop") ELSE <<>>

I3cCccWrite(op) ==
    LET Segment(i) == Step("start") \o Header(Address(op.to[i]), FALSE, SegmentEffect(op, op.to[i]))
                      \o WriteData(op.code, op.to[i], op.data, op.bad = "data")
    IN  Opening(op)
        \o (IF op.code \in Direct THEN FlattenSeq([i \in 1..Len(op.to) |-> Segment(i)])
            ELSE WriteData(op.code, "all", op.data, op.bad = "data"))
        \o StopIf(op.stop)

I3cCccRead(op) ==
    Opening(op)
    \o FlattenSeq([i \in 1..Len(op.to) |->
         Step("start") \o Header(Address(op.to[i]), TRUE, SegmentEffect(op, op.to[i]))
         \o <<[do |-> "read", n |-> op.n]>>])
    \o StopIf(op.stop)

\* The errors leave the bus to the test, which ends them as it must.
SendTe0Error(op) == Step("start") \o Header("7E", TRUE, NoEffect) \o Step("hdrExit") \o Step("stop")

SendTe1Error(op) == Opening(op) \o Step("hdrExit") \o Step("stop")

SendTe2Error(op) == Opening(op) \o Step("stop")

I3cEntdaa(op) ==
    Opening(op)
    \o FlattenSeq([i \in 1..Len(op.addrs) |->
         Step("start") \o Header("7E", ~op.te4, [f |-> "goOn"]) \o Step("id")
         \o <<[do |-> "daaByte", a |-> op.addrs[i], good |-> ~op.te3]>>
         \o Ack("none", FALSE, [f |-> "given", v |-> op.addrs[i]])])
    \o Step("stop")

\* A target reset pattern: its last edges are a (repeated) START and a STOP.
TargetReset == Step("start") \o Step("pattern")

Script(op) ==
    CASE op.kind = "write" -> I3cCccWrite(op)
      [] op.kind = "read" -> I3cCccRead(op)
      [] op.kind = "te0" -> SendTe0Error(op)
      [] op.kind = "te1" -> SendTe1Error(op)
      [] op.kind = "te2" -> SendTe2Error(op)
      [] op.kind = "entdaa" -> I3cEntdaa(op)
      [] op.kind = "reset" -> TargetReset

-----------------------------------------------------------------------------
(* The specification of the commands: what they tell the target. *)

Disarmed == [known EXCEPT !.armed = "no"]

Told(eff) ==
    CASE eff.f \in {"mwl", "mrl", "ibil", "ibiOn"} -> [known EXCEPT ![eff.f] = eff.v]
      [] eff.f = "dyn" -> [known EXCEPT !.dyn[eff.t] = eff.v]
      [] eff.f = "RSTDAA" -> [known EXCEPT !.dyn = [t \in Targets |-> "none"]]
      [] eff.f = "SETAASA" ->
           [known EXCEPT !.dyn = [t \in Targets |-> IF @[t] = "none" THEN Static[t] ELSE @[t]]]
      [] eff.f = "given" /\ winner \in Targets -> [known EXCEPT !.dyn[winner] = eff.v]
      [] eff.f = "unescalate" -> [known EXCEPT !.escalate = FALSE]
      [] eff.f = "arm" ->
           [known EXCEPT !.armed = IF eff.v \in Arms THEN eff.v ELSE @, !.escalate = FALSE]
      [] OTHER -> known

AfterPattern ==
    [known EXCEPT
       !.reset = CASE known.armed = "01" \/ (known.armed = "no" /\ ~known.escalate) -> "peripheral"
                   [] known.armed = "02" \/ (known.armed = "no" /\ known.escalate) -> "escalated"
                   [] OTHER -> "none",
       !.escalate = @ \/ known.armed = "no",
       !.deaf = FALSE]

-----------------------------------------------------------------------------
(* The steps. *)

At(do) == todo # <<>> /\ Head(todo).do = do /\ Settled

Go == todo' = Tail(todo)

This == Head(todo)

Quiet == UNCHANGED cccVars

\* No address is given twice.
Gives(op) ==
    CASE op.kind = "entdaa" -> Range(op.addrs)
      [] op.kind = "write" /\ op.code \in {"SETDASA", "SETNEWDA"} -> Range(op.data)
      [] OTHER -> {}

\* The uses a call makes that the target does not bear: a repeated START while
\* it still waits for data (a pattern is none), which it would take for data
\* (README), a direct RSTACT to another device that is chained, and SETNEWDA to
\* the static address of the virtual target, which would rename the main one.
Cornered(op) ==
    {c \in {"heldShort", "resetOther", "newStatic"} :
       \/ c = "heldShort" /\ state = "RxData" /\ op.kind # "reset"
       \/ /\ c = "resetOther" /\ op.kind = "write" /\ op.code = "dRSTACT" /\ ~op.stop
          /\ \E to \in Range(op.to) : Who(to) = "none"
       \/ /\ c = "newStatic" /\ op.kind = "write" /\ op.code = "SETNEWDA"
          /\ known.dyn["virt"] = "none" /\ \E to \in Range(op.to) : Who(to) = "virt"}

Call(op) ==
    /\ todo = <<>> /\ Settled /\ calls < MaxCmds
    /\ Cornered(op) \subseteq Corners
    /\ Gives(op) \cap Range(known.dyn) = {}
    /\ cmd' = op /\ todo' = Script(op) /\ calls' = calls + 1
    /\ heard' = <<>> /\ ended' = FALSE /\ acked' = FALSE
    /\ UNCHANGED <<cccVars, held, daaVars, ghosts>>

SendStart ==
    /\ At("start") /\ Go
    /\ IF main = "InHDRMode" THEN Quiet ELSE Start(held)
    /\ held' = TRUE
    /\ heard' = <<>> /\ ended' = FALSE /\ acked' = FALSE
    /\ known' = IF held \/ main = "InHDRMode" THEN known ELSE Disarmed
    /\ UNCHANGED <<callVars, daaVars, toldErr>>

SendStop ==
    /\ At("stop") /\ Go
    /\ IF main = "InHDRMode" THEN Quiet ELSE Stop
    /\ held' = FALSE /\ known' = [known EXCEPT !.deaf = FALSE]
    /\ UNCHANGED <<callVars, readVars, daaVars, toldErr>>

SendPattern ==
    /\ At("pattern") /\ Go
    /\ ResetPattern
    /\ held' = FALSE /\ known' = AfterPattern
    /\ UNCHANGED <<callVars, readVars, daaVars, toldErr>>

SendHdrExit ==
    /\ At("hdrExit") /\ Go
    /\ IF main = "InHDRMode" THEN HdrExit ELSE Quiet
    /\ UNCHANGED <<callVars, held, readVars, daaVars, ghosts>>

SendAddress ==
    /\ At("addr") /\ Go
    /\ IF ListensToAddress
       THEN AddressSeen(This.a, This.r) /\ UNCHANGED <<deviceVars, resetVars>>
       ELSE Quiet
    /\ UNCHANGED <<callVars, held, readVars, daaVars, ghosts>>

\* An address of the rival's is its own business; in ENTDAA it answers 7E/R,
\* and takes an address of good parity if it has won.
RivalAcks ==
    /\ rival /\ cmd.kind = "entdaa" /\ ~cmd.te4
    /\ \/ This.eff.f = "goOn"
       \/ This.eff.f = "given" /\ winner = "rival" /\ ~cmd.te3

ReceiveAck ==
    /\ At("ack")
    /\ LET ack == Acks \/ RivalAcks IN
       /\ acked' = ack
       /\ todo' = IF This.eff.f = "goOn" /\ ~ack THEN Step("stop") ELSE Tail(todo)
       /\ known' = CASE ack -> Told(This.eff)
                     [] ~ack /\ This.eff.f \in {"arm", "unescalate"} /\ main = "DoCCC" ->
                          [known EXCEPT !.escalate = FALSE]
                     [] OTHER -> known
       /\ rival' = (rival /\ ~(This.eff.f = "given" /\ winner = "rival" /\ ack))
       /\ winner' = IF This.eff.f = "given" THEN "nobody" ELSE winner
    /\ IF Answers THEN AckSlot ELSE Quiet
    /\ UNCHANGED <<callVars, held, heard, ended, toldErr>>

SendDataByte ==
    /\ At("byte") /\ Go
    /\ IF ListensToBytes THEN ByteSeen(This.v) ELSE Quiet
    /\ UNCHANGED <<callVars, held, readVars, daaVars, ghosts>>

SendTbit ==
    /\ At("tbit") /\ Go
    /\ IF ListensToTbit THEN Tbit(This.good) ELSE Quiet
    /\ known' = CASE acked /\ This.good -> Told(This.eff)
                  [] acked /\ ~This.good -> [known EXCEPT !.deaf = TRUE]
                  [] ~acked -> known
    /\ rival' = (rival \/ (acked /\ This.good /\ This.eff.f = "RSTDAA"))
    /\ toldErr' = (toldErr /\ ~(err' /\ ~err))
    /\ UNCHANGED <<callVars, held, readVars, winner>>

\* Nobody drives the bytes after a refused address.
ReceiveByte ==
    /\ At("read")
    /\ todo' = <<[do |-> "readTbit", n |-> This.n]>> \o Tail(todo)
    /\ IF state = "TxData"
       THEN /\ SendByte
            /\ heard' = Append(heard, TxByte)
            /\ toldErr' = (toldErr \/ TxByte = <<"status", "err">>)
       ELSE Quiet /\ heard' = Append(heard, <<"high", "any">>) /\ UNCHANGED toldErr
    /\ UNCHANGED <<callVars, held, acked, ended, daaVars, known>>

ReceiveTbit ==
    /\ At("readTbit")
    /\ \/ /\ state = "TxDataTbitEnd" /\ SendTbitEnd
          /\ Go /\ ended' = TRUE
       \/ /\ state # "TxDataTbitEnd" /\ This.n > 1
          /\ todo' = <<[do |-> "read", n |-> This.n - 1]>> \o Tail(todo)
          /\ IF state = "TxDataTbitCont" THEN SendTbitCont ELSE Quiet
          /\ UNCHANGED ended
       \/ /\ state # "TxDataTbitEnd" /\ This.n = 1
          /\ Go
          /\ IF state = "TxDataTbitCont" THEN Aborted ELSE Quiet
          /\ UNCHANGED ended
    /\ UNCHANGED <<callVars, held, acked, heard, daaVars, ghosts>>

\* The 64 bits of identity: with two devices sending, either may lose.
ReceiveId ==
    /\ At("id") /\ Go
    /\ \/ /\ daa = "SendIDBit" /\ IdBits(TRUE) /\ winner' = Processed
       \/ /\ rival /\ winner' = "rival"
          /\ IF daa = "SendIDBit" THEN IdBits(FALSE) ELSE Quiet
    /\ UNCHANGED <<callVars, held, readVars, rival, ghosts>>

SendDaaByte ==
    /\ At("daaByte") /\ Go
    /\ IF daa = "ReceiveAddr" THEN AssignAddress(This.a, This.good) ELSE Quiet
    /\ UNCHANGED <<callVars, held, readVars, daaVars, ghosts>>

TargetFinishes ==
    /\ Finish
    /\ UNCHANGED <<callVars, todo, held, readVars, daaVars, known>>
    /\ toldErr' = (toldErr /\ err')

Init ==
    /\ CccInit /\ dyn \in [main : {"none", "a"}, virt : {"none", "b"}]
    /\ cmd = NoCmd /\ todo = <<>> /\ calls = 0 /\ held = FALSE
    /\ acked = FALSE /\ heard = <<>> /\ ended = FALSE
    /\ rival \in BOOLEAN /\ winner = "nobody"
    /\ known = [dyn |-> dyn, mwl |-> lens.mwl, mrl |-> lens.mrl, ibil |-> lens.ibil,
                ibiOn |-> ibiOn, armed |-> "no", escalate |-> FALSE, reset |-> "none",
                deaf |-> FALSE]
    /\ toldErr = FALSE

Next ==
    \/ \E op \in Cmds : Call(op)
    \/ SendStart \/ SendStop \/ SendPattern \/ SendHdrExit
    \/ SendAddress \/ ReceiveAck \/ SendDataByte \/ SendTbit
    \/ ReceiveByte \/ ReceiveTbit
    \/ ReceiveId \/ SendDaaByte
    \/ TargetFinishes

Spec == Init /\ [][Next]_vars

-----------------------------------------------------------------------------
(* Properties. *)

\* Types; the assignment machine runs exactly while the command machine has
\* handed it the bus, and the target machine is in DoCCC exactly during a command.
TypeOK ==
    /\ CccTypeOK
    /\ calls \in 0..MaxCmds
    /\ {held, acked, ended, rival, toldErr} \subseteq BOOLEAN
    /\ winner \in Targets \cup {"rival", "nobody"}

AtRest == todo = <<>> /\ Settled

\* Between calls the target is what the controller has made it: the addresses
\* assigned one by one, by ENTDAA among others or all at once, the lengths,
\* the event enable, whatever was cut short, refused or of bad parity.
DeviceAsTold ==
    AtRest =>
        /\ dyn = known.dyn
        /\ lens = [mwl |-> known.mwl, mrl |-> known.mrl, ibil |-> known.ibil]
        /\ ibiOn = known.ibiOn

\* The reset action is armed by a command to this target alone, lasts until
\* the next START, and decides with the escalation what a pattern does.
ResetAsArmed ==
    AtRest =>
        /\ armed = known.armed
        /\ reset = known.reset /\ escalate = known.escalate

\* What a GET answers, by the sizes the protocol monitor expects, from what the
\* controller has set.
Reference(t) ==
    CASE cmd.code \in {"GETBCR", "GETDCR"} -> <<<<cmd.code, t>>>>
      [] cmd.code = "GETSTATUS" ->
           <<<<"vendor", "any">>, <<"status", IF err THEN "err" ELSE "ok">>>>
      [] cmd.code = "GETMWL" -> <<Length(known.mwl[1]), Length(known.mwl[2])>>
      [] cmd.code = "GETMRL" ->
           <<Length(known.mrl[1]), Length(known.mrl[2]),
             Length(IF t = "virt" THEN "0" ELSE known.ibil)>>
      [] cmd.code = "GETPID" -> [i \in 1..6 |-> <<cmd.code, t>>]
      [] cmd.code = "GETCAPS" ->
           IF cmd.db = "93" THEN <<<<"testcap", "any">>>>
           ELSE <<<<cmd.code, "any">>, <<cmd.code, "any">>, <<cmd.code, t>>>>
      [] cmd.code = "dRSTACT" ->
           CASE cmd.db = "04" -> <<<<"vt", IF vtFlag THEN "set" ELSE "clear">>>>
             [] cmd.db = "84" -> <<<<"indication", "any">>>>
             [] cmd.db \in {"81", "82"} -> <<<<"time", "any">>>>
             [] OTHER -> <<<<"action", known.armed>>>>

\* A target that has acknowledged a GET sends the whole answer, of the device
\* addressed, or what the controller had patience for.
AnswerRight ==
    cmd.kind = "read" /\ held /\ acked /\ heard # <<>> =>
        LET whole == Reference(Addressed) IN
        /\ IsPrefix(heard, whole)
        /\ ended => heard = whole

\* A protocol error is not forgotten before the controller has read it.
ErrorTold == [][err /\ ~err' => toldErr]_vars

\* Whom a header of a command calls, by what the controller has assigned.
Meant(a, r) ==
    \/ a = "7E" /\ ~r
    \/ /\ cmd.code = "SETDASA" /\ ~r
       /\ \E t \in Targets : known.dyn[t] = "none" /\ a = Static[t]
    \/ /\ cmd.code # "SETDASA"
       /\ cmd.code \in (IF r THEN RequiresRead ELSE RequiresWrite) \cup {"dRSTACT"}
       /\ \E t \in Targets : a = Address(t)

\* A target answers the headers that call it and no others, whatever came
\* before in the frame: it knows its new address at once and its old one no
\* more, SETDASA finds it only while it has none, and after a bad T-bit it
\* answers nothing until the STOP.
HeadersAnswered ==
    At("ack") /\ cmd.kind \in {"write", "read"} =>
        (Acks <=> ~known.deaf /\ Meant(This.a, This.r))
=============================================================================
