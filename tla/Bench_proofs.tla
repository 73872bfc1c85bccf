----------------------------- MODULE Bench_proofs -----------------------------
(***************************************************************************)
(* For any calls, chains, limits and IBI lengths a test may use: the       *)
(* caller and the background monitor of the bench are never both on the    *)
(* bus; the protocol monitor stays in step with the target's state         *)
(* machine and raises no alarm, unless an address byte that nobody watched *)
(* met an IBI in the frame; and, if enough retries are allowed, the        *)
(* acknowledge a write returns tells what the target has taken.            *)
(***************************************************************************)
EXTENDS BenchInv, SequenceTheorems, FiniteSetTheorems, NaturalsInduction,
        WellFoundedInduction, TLAPS

-----------------------------------------------------------------------------
(* Scripts. *)

LEMMA StepFacts ==
    /\ start \in Steps /\ stop \in Steps
    /\ \A h \in Addresses : addr(h) \in Steps
    /\ \A h \in Addresses, b \in BOOLEAN : ack(h, b) \in Steps
    /\ \A c \in Bytes : byte(c) \in Steps
    /\ \A c \in Bytes, g \in BOOLEAN : tbit(c, g) \in Steps
    /\ \A k \in Nat : read(k) \in Steps /\ readTbit(k) \in Steps
    /\ \A d \in {"ibiAck", "retry", "hdrExit", "take"} : [do |-> d] \in Steps
    /\ \A d \in {"give", "hold"} : [do |-> d] \in Ends
  BY DEF Steps, Ends, start, stop, byte, addr, ack, tbit, read, readTbit

\* A step is not the end of a call.
LEMMA StepIsNoEnd == ASSUME NEW s \in Steps PROVE s.do \notin {"give", "hold"}
  BY DEF Steps

\* What a step of either kind carries.
LEMMA ReadCarries ==
    ASSUME NEW s \in Steps \cup Ends, s.do \in {"read", "readTbit"} PROVE s.k \in Nat
  BY DEF Steps, Ends

\* Steps before a script that ends leave it one.
LEMMA StepsBefore ==
    ASSUME NEW b \in Seq(Steps), NEW s \in Endings PROVE b \o s \in Endings
<1>1. b \o s \in Seq(Steps \cup Ends)
  BY DEF Endings
<1>2. ASSUME NEW i \in 1..(Len(b \o s) - 1) PROVE (b \o s)[i] \in Steps
  BY <1>2 DEF Endings
<1> QED
  BY <1>1, <1>2 DEF Endings

LEMMA StepsEnd == Seq(Steps) \subseteq Endings
  BY DEF Endings

LEMMA EndAlone == ASSUME NEW e \in Ends PROVE <<e>> \in Endings
  BY DEF Endings

\* A call, then its end.
LEMMA StepsThenEnd ==
    ASSUME NEW b \in Seq(Steps), NEW e \in Ends PROVE b \o <<e>> \in Endings
  BY StepsBefore, EndAlone

\* What is left of a script after its first steps.
LEMMA TailEnds ==
    ASSUME NEW s \in Endings, s # <<>>
    PROVE  /\ Tail(s) \in Endings
           /\ Head(s) \in Steps \cup Ends
           /\ Head(s) \in Ends => Tail(s) = <<>>
<1> s \in Seq(Steps \cup Ends) /\ Len(s) \in Nat /\ Len(s) > 0
  BY DEF Endings
<1>1. /\ Head(s) \in Steps \cup Ends /\ Head(s) = s[1]
      /\ Tail(s) \in Seq(Steps \cup Ends) /\ Len(Tail(s)) = Len(s) - 1
      /\ \A i \in 1..Len(Tail(s)) : Tail(s)[i] = s[i + 1]
  OBVIOUS
<1>2. ASSUME NEW i \in 1..(Len(Tail(s)) - 1) PROVE Tail(s)[i] \in Steps
  BY <1>1 DEF Endings
<1>3. ASSUME Head(s) \in Ends PROVE Tail(s) = <<>>
  <2>1. s[1] \notin Steps
    BY <1>1, <1>3, StepIsNoEnd DEF Ends
  <2>2. ~(Len(s) > 1)
    BY <2>1 DEF Endings
  <2> QED
    BY <1>1, <2>2
<1> QED
  BY <1>1, <1>2, <1>3 DEF Endings

LEMMA DataStepsBounded ==
    ASSUME NEW S, NEW s \in Seq(S) PROVE DataSteps(s) \in 0..Len(s)
<1> DEFINE D == {i \in 1..Len(s) : \A j \in 1..i : s[j].do \in Data}
<1>1. IsFiniteSet(1..Len(s)) /\ Cardinality(1..Len(s)) = Len(s)
  <2>1. 1 \in Int /\ Len(s) \in Int /\ Len(s) >= 0
    OBVIOUS
  <2>2. IsFiniteSet(1..Len(s))
        /\ Cardinality(1..Len(s)) = IF 1 > Len(s) THEN 0 ELSE Len(s) - 1 + 1
    BY <2>1, FS_Interval
  <2> QED
    BY <2>1, <2>2
<1>2. IsFiniteSet(D) /\ Cardinality(D) <= Cardinality(1..Len(s))
  BY <1>1, FS_Subset
<1>3. Cardinality(D) \in Nat
  BY <1>2, FS_CardinalityType
<1> QED
  BY <1>1, <1>2, <1>3 DEF DataSteps

LEMMA SkipTyped ==
    ASSUME NEW S, NEW s \in Seq(S)
    PROVE  /\ SkipData(s) \in Seq(S)
           /\ Len(SkipData(s)) = Len(s) - DataSteps(s)
           /\ \A i \in 1..Len(SkipData(s)) : SkipData(s)[i] = s[i + DataSteps(s)]
  BY DataStepsBounded, SubSeqProperties DEF SkipData

LEMMA SkipEnds == ASSUME NEW s \in Endings PROVE SkipData(s) \in Endings
<1>1. s \in Seq(Steps \cup Ends)
  BY DEF Endings
<1>2. DataSteps(s) \in Nat
  BY <1>1, DataStepsBounded
<1> QED
  BY <1>1, <1>2, SkipTyped DEF Endings

-----------------------------------------------------------------------------
(* What the controller's methods do on the bus. *)

LEMMA JoinTyped ==
    ASSUME NEW a \in Seq(Steps), NEW b \in Seq(Steps) PROVE a \o b \in Seq(Steps)
  OBVIOUS

LEMMA OneTyped == ASSUME NEW s \in Steps PROVE <<s>> \in Seq(Steps)
  OBVIOUS

LEMMA WriteBytesTyped ==
    ASSUME NEW n \in Nat, NEW c \in Bytes, NEW g \in BOOLEAN
    PROVE  WriteBytes(n, c, g) \in Seq(Steps)
<1>1. byte(c) \in Steps /\ tbit(c, g) \in Steps
  BY StepFacts
<1>2. 2 * n \in Nat
  OBVIOUS
<1>3. WriteBytes(n, c, g) \in [1..(2 * n) -> Steps]
  BY <1>1 DEF WriteBytes
<1> QED
  BY <1>2, <1>3

LEMMA HeaderTyped ==
    ASSUME NEW h \in Addresses, NEW b \in BOOLEAN PROVE Header(h, b) \in Seq(Steps)
<1>1. addr(h) \in Steps /\ ack(h, b) \in Steps
  BY StepFacts
<1> QED
  BY <1>1 DEF Header

LEMMA StartTyped == <<start>> \in Seq(Steps) /\ Reserved \in Seq(Steps)
<1>1. start \in Steps /\ Header("rsvdW", FALSE) \in Seq(Steps)
  BY StepFacts, HeaderTyped DEF Addresses
<1>2. <<start>> \in Seq(Steps)
  BY <1>1, OneTyped
<1> QED
  BY <1>1, <1>2, JoinTyped, Zenon DEF Reserved

LEMMA StopIfTyped == ASSUME NEW b \in BOOLEAN PROVE StopIf(b) \in Seq(Steps)
<1>1. stop \in Steps
  BY StepFacts
<1> QED
  BY <1>1 DEF StopIf

LEMMA WriteByteTyped ==
    ASSUME NEW c \in Bytes, NEW g \in BOOLEAN PROVE WriteByte(c, g) \in Seq(Steps)
  BY WriteBytesTyped DEF WriteByte

\* Every call is a series of bus steps.
LEMMA ScriptTyped == ASSUME NEW o \in Ops PROVE Script(o) \in Seq(Steps)
<1> o \in Calls
  BY OpsAssumption
<1>1. CASE o.kind \in {"write", "read"}
  <2>1. /\ o.to \in Addresses /\ o.n \in Nat
        /\ o.stop \in BOOLEAN /\ o.rsvd \in BOOLEAN
        /\ o.kind = "write" => o.good \in BOOLEAN
    BY <1>1 DEF Calls, Addresses
  <2>2. (IF o.rsvd THEN Reserved ELSE <<>>) \in Seq(Steps)
    BY StartTyped
  <2>3. Header(o.to, TRUE) \in Seq(Steps) /\ StopIf(o.stop) \in Seq(Steps)
    BY <2>1, HeaderTyped, StopIfTyped
  <2>4. CASE o.kind = "write"
    <3>1. WriteBytes(o.n, "data", o.good) \in Seq(Steps)
      BY <2>1, <2>4, WriteBytesTyped DEF Bytes
    <3>2. I3cWrite(o) \in Seq(Steps)
      BY <2>2, <2>3, <3>1, StartTyped, JoinTyped, Zenon DEF I3cWrite
    <3> QED
      BY <2>4, <3>2 DEF Script
  <2>5. CASE o.kind = "read"
    <3>1. <<read(o.n)>> \in Seq(Steps)
      BY <2>1, StepFacts
    <3>2. I3cRead(o) \in Seq(Steps)
      BY <2>2, <2>3, <3>1, StartTyped, JoinTyped, Zenon DEF I3cRead
    <3> QED
      BY <2>5, <3>2 DEF Script
  <2> QED
    BY <1>1, <2>4, <2>5
<1>2. CASE o.kind = "ccc"
  <2>1. o.c \in Bytes /\ o.stop \in BOOLEAN
    BY <1>2 DEF Calls, Bytes
  <2>2. /\ WriteByte("BCAST", TRUE) \in Seq(Steps) /\ WriteByte(o.c, TRUE) \in Seq(Steps)
        /\ StopIf(o.stop) \in Seq(Steps)
    BY <2>1, WriteByteTyped, StopIfTyped DEF Bytes
  <2>3. I3cCccWrite(o) \in Seq(Steps)
    BY <2>2, StartTyped, JoinTyped, Zenon DEF I3cCccWrite
  <2> QED
    BY <1>2, <2>3 DEF Script
<1>3. CASE o.kind = "te0"
  <2>1. Header("rsvdR", FALSE) \in Seq(Steps)
    BY HeaderTyped DEF Addresses
  <2>2. SendTe0Error \in Seq(Steps)
    BY <2>1, StartTyped, JoinTyped, Zenon DEF SendTe0Error
  <2> QED
    BY <1>3, <2>2 DEF Script
<1>4. CASE o.kind = "te1"
  <2>1. WriteByte("ENTHDR", FALSE) \in Seq(Steps)
    BY WriteByteTyped DEF Bytes
  <2>2. SendTe1Error \in Seq(Steps)
    BY <2>1, StartTyped, JoinTyped, Zenon DEF SendTe1Error
  <2> QED
    BY <1>4, <2>2 DEF Script
<1> QED
  BY <1>1, <1>2, <1>3, <1>4 DEF Calls

\* So is what answers an IBI.
LEMMA InlineTyped ==
    ASSUME NEW c \in Chains \cup {"none"}, NEW l \in Limits, NEW b \in BOOLEAN
    PROVE  HandleIbiInline(c, l, b) \in Seq(Steps)
<1>1. l \in Nat /\ c \in {"none", "write", "enec", "disec", "BCAST"}
  BY ChainsAssumption, LimitsAssumption
<1>2. [do |-> "ibiAck"] \in Steps /\ read(l + 1) \in Steps /\ <<stop>> \in Seq(Steps)
  BY <1>1, StepFacts
<1>3. StopIf(b) \in Seq(Steps)
  BY StopIfTyped
<1>4. ExecuteChainWrite("mainW") \in Seq(Steps)
  <2>1. Header("mainW", TRUE) \in Seq(Steps) /\ WriteByte("chained", TRUE) \in Seq(Steps)
    BY HeaderTyped, WriteByteTyped DEF Addresses, Bytes
  <2> QED
    BY <1>2, <2>1, StartTyped, JoinTyped, Zenon DEF ExecuteChainWrite
<1>5. ASSUME c \notin {"none", "write"} PROVE ExecuteChainCcc(c) \in Seq(Steps)
  <2>1. WriteByte(c, TRUE) \in Seq(Steps) /\ WriteByte("BCAST", TRUE) \in Seq(Steps)
    BY <1>1, <1>5, WriteByteTyped DEF Bytes
  <2> QED
    BY <1>2, <2>1, StartTyped, JoinTyped, Zenon DEF ExecuteChainCcc
<1>6. HandleIbiInline(c, l, b) =
        <<[do |-> "ibiAck"], read(l + 1)>>
        \o IF c = "none" THEN StopIf(b)
           ELSE IF c = "write" THEN ExecuteChainWrite("mainW") ELSE ExecuteChainCcc(c)
  BY DEF HandleIbiInline
<1>7. <<[do |-> "ibiAck"], read(l + 1)>> \in Seq(Steps)
  BY <1>2
<1> QED
  BY <1>3, <1>4, <1>5, <1>6, <1>7

-----------------------------------------------------------------------------
(* Steps of a coroutine that is on the bus. *)

\* The scripts of either coroutine may lose steps at their beginning and get
\* new ones there.
LEMMA ScriptsClosed ==
    ASSUME NEW who \in {"fg", "bg"}, NEW s \in ScriptsOf(who)
    PROVE  /\ SkipData(s) \in ScriptsOf(who)
           /\ s # <<>> => Tail(s) \in ScriptsOf(who) /\ Head(s) \in Steps \cup Ends
           /\ \A b \in Seq(Steps) : b \o s \in ScriptsOf(who)
<1>1. CASE who = "fg"
  BY <1>1, SkipEnds, TailEnds, StepsBefore DEF ScriptsOf
<1>2. CASE who = "bg"
  <2>1. s \in Seq(Steps)
    BY <1>2 DEF ScriptsOf
  <2>2. \A b \in Seq(Steps) : b \o s \in Seq(Steps)
    BY <2>1, JoinTyped
  <2>3. SkipData(s) \in Seq(Steps)
    BY <2>1, SkipTyped
  <2>4. s # <<>> => Tail(s) \in Seq(Steps) /\ Head(s) \in Steps
    BY <2>1
  <2> QED
    BY <1>2, <2>2, <2>3, <2>4 DEF ScriptsOf
<1> QED
  BY <1>1, <1>2

LEMMA StepsScripts ==
    ASSUME NEW who \in {"fg", "bg"} PROVE Seq(Steps) \subseteq ScriptsOf(who)
  BY StepsEnd DEF ScriptsOf

\* The steps left to who are s, and the other goes on where it was.
LEMMA GotoTyped ==
    ASSUME ScriptTypeOK, NEW who \in {"fg", "bg"}, NEW s \in ScriptsOf(who), Goto(who, s)
    PROVE  /\ ScriptTypeOK'
           /\ script'[who] = s
           /\ \A w \in {"fg", "bg"} \ {who} : script'[w] = script[w]
<1>1. s \in Seq(Steps \cup Ends)
  BY DEF ScriptsOf, Endings
<1> QED
  BY <1>1 DEF ScriptTypeOK, Goto

\* A step of a coroutine that has the bus keeps the invariant.
LEMMA OnBusKeeps ==
    ASSUME BenchInvariant, NEW who \in {"fg", "bg"}, NEW do, At(who, do), do # "take",
           NEW s \in ScriptsOf(who), Goto(who, s), UNCHANGED <<enable, bg, op>>,
           chain' \in Chains \cup {"none"}, limit' \in Limits
    PROVE  BenchInvariant'
<1>1. /\ ScriptTypeOK'
      /\ \A w \in {"fg", "bg"} \ {who} : script'[w] = script[w]
  BY GotoTyped DEF BenchInvariant
<1>2. KnobTypeOK'
  BY DEF BenchInvariant, KnobTypeOK
<1>3. ServesAlone'
  BY <1>1 DEF BenchInvariant, ServesAlone, Busy, At
<1>4. DisabledInCall'
  BY <1>1 DEF BenchInvariant, DisabledInCall, Busy, At
<1>5. MonitorWaits'
  BY <1>1 DEF BenchInvariant, MonitorWaits, DisabledInCall, Busy, At
<1> QED
  BY <1>1, <1>2, <1>3, <1>4, <1>5 DEF BenchInvariant

\* The limit of a new IBI is one a test may set.
LEMMA DefaultIsALimit == DefaultLimit \in Limits
  BY LimitsAssumption DEF DefaultLimit

\* What a coroutine on the bus does next is a script again.
LEMMA RestTyped ==
    ASSUME BenchInvariant, NEW who \in {"fg", "bg"}, Busy(who)
    PROVE  /\ Tail(script[who]) \in ScriptsOf(who)
           /\ SkipData(Tail(script[who])) \in ScriptsOf(who)
           /\ Head(script[who]) \in Steps \cup Ends
           /\ \A b \in Seq(Steps) : b \o Tail(script[who]) \in ScriptsOf(who)
  BY ScriptsClosed DEF BenchInvariant, ScriptTypeOK, Busy

\* A lost arbitration: the IBI is served, then the attempt is made again.
LEMMA InlineRetryTyped ==
    ASSUME KnobTypeOK, NEW who \in {"fg", "bg"}
    PROVE  HandleIbiInline(chain, limit, FALSE) \o <<[do |-> "retry"]>> \in ScriptsOf(who)
<1>1. HandleIbiInline(chain, limit, FALSE) \in Seq(Steps)
  BY InlineTyped DEF KnobTypeOK
<1>2. <<[do |-> "retry"]>> \in Seq(Steps)
  BY StepFacts, OneTyped
<1> QED
  BY <1>1, <1>2, JoinTyped, StepsScripts

\* A step on the bus that leaves chain and limit alone.
LEMMA PlainKeeps ==
    ASSUME BenchInvariant, NEW who \in {"fg", "bg"}, NEW do, At(who, do), do # "take",
           NEW s \in ScriptsOf(who), Goto(who, s), UNCHANGED <<enable, bg, op, ibiVars>>
    PROVE  BenchInvariant'
  BY OnBusKeeps DEF ibiVars, BenchInvariant, KnobTypeOK

\* Each step on the bus keeps the invariant.
LEMMA BusKeeps ==
    ASSUME BenchInvariant, NEW who \in {"fg", "bg"}, Bus(who)
    PROVE  BenchInvariant'
<1> USE RestTyped, PlainKeeps
<1>1. CASE SendStart(who)
  BY <1>1 DEF SendStart, Go, Quiet, At
<1>2. CASE SendStop(who)
  BY <1>2 DEF SendStop, Go, Quiet, At
<1>3. CASE SendReserved(who)
  <2>1. CASE Contends
    BY <1>3, <2>1, InlineRetryTyped, OnBusKeeps, DefaultIsALimit
       DEF SendReserved, ArbitrationLost, callVars, BenchInvariant
  <2>2. CASE ~Contends
    BY <1>3, <2>2 DEF SendReserved, Go, callVars, At
  <2> QED
    BY <2>1, <2>2
<1>4. CASE SendAddress(who)
  BY <1>4 DEF SendAddress, Go, Quiet, At
<1>5. CASE ReceiveAck(who)
  BY <1>5 DEF ReceiveAck, Quiet, At
<1>6. CASE SendByte(who)
  BY <1>6 DEF SendByte, Go, Quiet, At
<1>7. CASE SendTbit(who)
  BY <1>7 DEF SendTbit, Go, Quiet, At
<1>8. CASE ReadByte(who)
  <2>1. Head(script[who]).k \in Nat
    BY <1>8, ReadCarries DEF ReadByte, At
  <2>2. <<readTbit(Head(script[who]).k)>> \in Seq(Steps)
    BY <2>1, StepFacts, OneTyped
  <2> QED
    BY <1>8, <2>2 DEF ReadByte, callVars, At
<1>9. CASE ReadTbit(who)
  <2>1. Head(script[who]).k \in Nat
    BY <1>9, ReadCarries DEF ReadTbit, At
  <2>2. CASE Goto(who, Tail(script[who]))
    BY <1>9, <2>2 DEF ReadTbit, callVars, At
  <2>3. CASE /\ Head(script[who]).k > 1
             /\ Goto(who, <<read(Head(script[who]).k - 1)>> \o Tail(script[who]))
    <3>1. <<read(Head(script[who]).k - 1)>> \in Seq(Steps)
      BY <2>1, <2>3, StepFacts, OneTyped
    <3> QED
      BY <1>9, <2>3, <3>1 DEF ReadTbit, callVars, At
  <2> QED
    BY <1>9, <2>2, <2>3 DEF ReadTbit
<1>10. CASE AnswerIbi(who)
  BY <1>10 DEF AnswerIbi, callVars, At
<1> QED
  BY <1>1, <1>2, <1>3, <1>4, <1>5, <1>6, <1>7, <1>8, <1>9, <1>10 DEF Bus

-----------------------------------------------------------------------------
(* The other steps. *)

\* Nothing of what the invariant is about changes.
LEMMA UntouchedKeeps ==
    ASSUME BenchInvariant, UNCHANGED <<script, op, enable, bg, chain, limit>>
    PROVE  BenchInvariant'
  BY DEF BenchInvariant, ScriptTypeOK, KnobTypeOK, ServesAlone, DisabledInCall, MonitorWaits,
         Busy, At

\* The caller's other steps on the bus: the HDR exit, another attempt.
LEMMA HdrExitKeeps == ASSUME BenchInvariant, SendHdrExit PROVE BenchInvariant'
  BY RestTyped, PlainKeeps DEF SendHdrExit, Go, Quiet, At

LEMMA RetryKeeps == ASSUME BenchInvariant, Retry PROVE BenchInvariant'
<1>1. ASSUME op.kind \in {"write", "read", "ccc"} PROVE op \in Ops
  BY <1>1 DEF BenchInvariant, KnobTypeOK, NoOp
<1>2. \A d \in {"give", "hold"} : <<[do |-> d]>> \in Endings
  BY StepFacts, EndAlone
<1>3. op \in Ops => Script(op) \o <<[do |-> "give"]>> \in Endings
  BY StepFacts, ScriptTyped, StepsThenEnd
<1>4. \E s \in Endings : Goto("fg", s)
  BY <1>1, <1>2, <1>3 DEF Retry
<1> QED
  BY <1>4, PlainKeeps DEF Retry, ScriptsOf

\* The background monitor is woken, gives way, serves and waits again.
LEMMA MonitorKeeps ==
    ASSUME BenchInvariant,
           MonitorWakes \/ MonitorLeaves \/ MonitorSeesStart \/ MonitorLoops
    PROVE  BenchInvariant'
<1>1. CASE MonitorWakes
  BY <1>1 DEF MonitorWakes, BenchInvariant, ScriptTypeOK, KnobTypeOK, ServesAlone,
              DisabledInCall, MonitorWaits, Busy, At, callVars, ibiVars
<1>2. CASE MonitorLeaves
  BY <1>2 DEF MonitorLeaves, BenchInvariant, ScriptTypeOK, KnobTypeOK, ServesAlone,
              DisabledInCall, MonitorWaits, Busy, At, callVars, ibiVars
<1>3. CASE MonitorSeesStart
  <2>1. HandleIbiInline(chain, limit, TRUE) \in ScriptsOf("bg")
    BY InlineTyped, StepsScripts DEF BenchInvariant, KnobTypeOK
  <2>2. ScriptTypeOK' /\ script'["fg"] = script["fg"]
    BY <1>3, <2>1, GotoTyped DEF MonitorSeesStart, BenchInvariant
  <2>3. KnobTypeOK'
    BY <1>3, DefaultIsALimit DEF MonitorSeesStart, BenchInvariant, KnobTypeOK, callVars
  <2> QED
    BY <1>3, <2>2, <2>3
       DEF MonitorSeesStart, BenchInvariant, ServesAlone, DisabledInCall, MonitorWaits, Busy, At
<1>4. CASE MonitorLoops
  BY <1>4 DEF MonitorLoops, BenchInvariant, ScriptTypeOK, KnobTypeOK, ServesAlone,
              DisabledInCall, MonitorWaits, Busy, At, callVars, ibiVars
<1> QED
  BY <1>1, <1>2, <1>3, <1>4

\* A call that begins asks for the bus first.
LEMMA BeginCallKeeps == ASSUME BenchInvariant, BeginCall PROVE BenchInvariant'
<1> PICK o \in Ops :
      /\ op' = o
      /\ Goto("fg", <<[do |-> "take"]>> \o Script(o)
                    \o <<[do |-> IF o.kind \in {"te0", "te1"} THEN "hold" ELSE "give"]>>)
  BY DEF BeginCall
<1> DEFINE e == [do |-> IF o.kind \in {"te0", "te1"} THEN "hold" ELSE "give"]
           s == <<[do |-> "take"]>> \o Script(o) \o <<e>>
<1>1. e \in Ends
  BY StepFacts
<1>2. <<[do |-> "take"]>> \in Seq(Steps) /\ Script(o) \in Seq(Steps)
  BY StepFacts, OneTyped, ScriptTyped
<1>3. s \in Endings
  BY <1>1, <1>2, JoinTyped, StepsThenEnd
<1>4. Head(s).do = "take" /\ s # <<>>
  BY <1>1, <1>2
<1>5. ScriptTypeOK' /\ script'["fg"] = s /\ script'["bg"] = script["bg"]
  BY <1>3, GotoTyped DEF BenchInvariant, ScriptsOf
<1>6. KnobTypeOK'
  BY DEF BeginCall, BenchInvariant, KnobTypeOK, ibiVars
<1> QED
  BY <1>4, <1>5, <1>6
     DEF BeginCall, BenchInvariant, ServesAlone, DisabledInCall, MonitorWaits, Busy, At

\* A test that recovers from an injected error holds the bus already.
LEMMA RecoverKeeps == ASSUME BenchInvariant, Recover PROVE BenchInvariant'
<1>1. PICK b \in {<<[do |-> "hdrExit"], stop>>, <<>>} : Goto("fg", b \o <<[do |-> "give"]>>)
  BY DEF Recover
<1>2. b \in Seq(Steps)
  <2>1. [do |-> "hdrExit"] \in Steps /\ stop \in Steps
    BY StepFacts
  <2>2. <<[do |-> "hdrExit"], stop>> \in Seq(Steps) /\ <<>> \in Seq(Steps)
    BY <2>1
  <2> QED
    BY <1>1, <2>2, Zenon
<1>3. b \o <<[do |-> "give"]>> \in Endings
  BY <1>2, StepFacts, StepsThenEnd
<1>4. ScriptTypeOK' /\ script'["bg"] = script["bg"]
  BY <1>1, <1>3, GotoTyped DEF BenchInvariant, ScriptsOf
<1>5. KnobTypeOK'
  BY DEF Recover, BenchInvariant, KnobTypeOK, ibiVars
<1> QED
  BY <1>4, <1>5
     DEF Recover, Held, BenchInvariant, ServesAlone, DisabledInCall, MonitorWaits, Busy, At

\* Taking the bus waits for the monitor to be out of the way.
LEMMA TakeKeeps == ASSUME BenchInvariant, TakeBusControl PROVE BenchInvariant'
<1>1. ScriptTypeOK' /\ script'["bg"] = script["bg"]
  BY RestTyped, GotoTyped DEF TakeBusControl, Go, At, BenchInvariant
<1>2. KnobTypeOK'
  BY DEF TakeBusControl, BenchInvariant, KnobTypeOK, callVars, ibiVars
<1> QED
  BY <1>1, <1>2
     DEF TakeBusControl, BenchInvariant, ServesAlone, DisabledInCall, MonitorWaits, Busy, At

\* Nothing of a call is left once it has given the bus back.
LEMMA EndCallKeeps == ASSUME BenchInvariant, EndCall PROVE BenchInvariant'
<1>1. Busy("fg") /\ Head(script["fg"]).do \in {"give", "hold"}
  BY DEF EndCall, At
<1>2. Head(script["fg"]) \in Ends
  BY <1>1, RestTyped, StepIsNoEnd
<1>3. Tail(script["fg"]) = <<>>
  BY <1>1, <1>2, TailEnds DEF BenchInvariant, ScriptTypeOK, ScriptsOf, Busy
<1>4. ScriptTypeOK' /\ script'["fg"] = <<>> /\ script'["bg"] = script["bg"]
  BY <1>1, <1>3, RestTyped, GotoTyped DEF EndCall, Go, BenchInvariant
<1>5. KnobTypeOK'
  BY DEF EndCall, BenchInvariant, KnobTypeOK, ibiVars
<1> QED
  BY <1>1, <1>4, <1>5
     DEF EndCall, BenchInvariant, ServesAlone, DisabledInCall, MonitorWaits, Busy, At

LEMMA SetKnobsKeeps == ASSUME BenchInvariant, SetKnobs PROVE BenchInvariant'
<1>1. KnobTypeOK'
  BY DEF SetKnobs, BenchInvariant, KnobTypeOK, callVars
<1> QED
  BY <1>1 DEF SetKnobs, BenchInvariant, ScriptTypeOK, ServesAlone, DisabledInCall,
              MonitorWaits, Busy, At

-----------------------------------------------------------------------------
(* The invariant, and what follows from it. *)

LEMMA BenchInit == ASSUME Init PROVE BenchInvariant
<1>1. <<>> \in Seq(Steps) /\ <<>> \in Endings /\ <<>> \in Seq(Steps \cup Ends)
  <2>1. <<>> \in Seq(Steps) /\ <<>> \in Seq(Steps \cup Ends)
    OBVIOUS
  <2> QED
    BY <2>1, StepsEnd
<1>2. ScriptTypeOK
  BY <1>1 DEF Init, ScriptTypeOK, ScriptsOf
<1>3. KnobTypeOK
  BY DefaultIsALimit DEF Init, KnobTypeOK
<1> QED
  BY <1>2, <1>3
     DEF Init, BenchInvariant, ServesAlone, DisabledInCall, MonitorWaits, Busy, At

LEMMA BenchNext == ASSUME BenchInvariant, [Next]_vars PROVE BenchInvariant'
<1>1. CASE Test
  BY <1>1, BeginCallKeeps, RecoverKeeps, SetKnobsKeeps DEF Test
<1>2. CASE Coroutines
  BY <1>2, BusKeeps, HdrExitKeeps, RetryKeeps, MonitorKeeps, TakeKeeps, EndCallKeeps
     DEF Coroutines
<1>3. CASE OfferIbi \/ BeginIbi \/ TargetMoves \/ UNCHANGED vars
  BY <1>3, UntouchedKeeps DEF OfferIbi, BeginIbi, TargetMoves, vars, callVars, ibiVars
<1> QED
  BY <1>1, <1>2, <1>3 DEF Next

\* The invariant holds of the bench: the monitor waits while a caller has the
\* bus, and a caller gives the bus back in its last step.
THEOREM WhoHasTheBus == Spec => []BenchInvariant
<1>1. Init => BenchInvariant
  BY BenchInit
<1>2. BenchInvariant /\ [Next]_vars => BenchInvariant'
  BY BenchNext
<1> QED
  BY <1>1, <1>2, PTL DEF Spec

\* The caller and the background monitor never both run on the bus, whatever
\* the calls, the chained commands, the limits and the retries
\* (take_bus_control, _run).
THEOREM NeverBoth == Spec => []OneDriver
<1>1. BenchInvariant => OneDriver
  BY DEF BenchInvariant, ServesAlone, DisabledInCall, MonitorWaits, OneDriver
<1> QED
  BY <1>1, WhoHasTheBus, PTL

-----------------------------------------------------------------------------
(* The target and the protocol monitor, event by event. *)

\* A target that is where the monitor believes it drives as the monitor expects.
LEMMA DrivesAsExpected ==
    ASSUME Watched, Together
    PROVE  /\ Drive \in Mon!Expected
           /\ Contends <=> fsm \in {"RxFByteArb", "IbiDriveAddr"}
           /\ Contends => Drive = "od"
           /\ fsm \in {"TxAckFByte", "TxAckSByte"} => Drive = "od"
           /\ ~Contends /\ fsm \in {"RxFByte", "RxSByteRepeated", "Idle", "InHDRMode", "DoCCC"}
                 => Drive = "off"
<1>1. CanRetry
  BY DEF CanRetry, Together
<1>2. Contends <=> fsm \in {"RxFByteArb", "IbiDriveAddr"}
  BY <1>1 DEF Contends
<1>3. Drive = IF Contends \/ fsm \in {"TxAckFByte", "TxAckSByte"} THEN "od"
              ELSE IF fsm \in ReadStates \cup IbiDataStates THEN "pp" ELSE "off"
  BY <1>2 DEF Drive, ReadStates, IbiDataStates
<1>4. fsm \in FsmStates \ {"DoneCCC"}
  BY DEF Together, SamePlace, PhaseFollowsState
<1>5. CASE Contends \/ fsm \in {"TxAckFByte", "TxAckSByte"}
  BY <1>2, <1>3, <1>5 DEF Together, SamePlace, PhaseFollowsState, Mon!Expected
<1>6. CASE fsm \in ReadStates \cup IbiDataStates
  BY <1>2, <1>3, <1>6 DEF Together, SamePlace, PhaseFollowsState, Mon!Expected, ReadStates, IbiDataStates
<1>7. CASE Drive = "off"
  BY <1>2, <1>3, <1>4, <1>7 DEF Together, SamePlace, PhaseFollowsState, Mon!Expected, Mon!Drives, FsmStates
<1> QED
  BY <1>2, <1>3, <1>5, <1>6, <1>7 DEF ReadStates, IbiDataStates

\* START.
LEMMA StartMeets ==
    ASSUME NEW who, Together, SendStart(who)
    PROVE  /\ Together' /\ alarm' = alarm
           /\ Watched' => Watched /\ phase' \in {"ADDR_BITS", "HDR_MODE"} /\ bus' = "active"
<1>1. alarm' = alarm /\ clash' = clash
  BY DEF SendStart, ghosts, monVars, Mon!MonStart, Mon!monVars
<1>2. CASE fsm = "IbiDriveAddr"
  <2>1. UNCHANGED <<fsmVars, monVars>>
    BY <1>2 DEF SendStart
  <2> QED
    BY <1>1, <1>2, <2>1
       DEF Together, SamePlace, BetweenFrames, PhaseFollowsState, Watched, fsmVars, selVars,
           csrVars, monVars, FsmHeader
<1>3. CASE fsm # "IbiDriveAddr"
  <2>1. StartSeen /\ Mon!MonStart(0, 0)
    BY <1>3 DEF SendStart
  <2>2. retryNum' = retryNum
    BY <2>1 DEF StartSeen, Start, RepeatedStart, fsmVars, csrVars
  <2>3. CASE bus # "active"
    <3>1. Start(Pending)
      BY <2>1, <2>3 DEF StartSeen
    <3>2. bus' = "active" /\ (fsm # "Idle" => fsm' = fsm)
          /\ (fsm = "Idle" => fsm' \in {"RxFByteArb", "RxFByte"})
      BY <3>1 DEF Start, To
    <3>3. alarm = "none" => phase' = "ADDR_BITS" /\ ~repeated' /\ ~clash
      BY <1>1, <2>1, <2>3 DEF Together, BetweenFrames, Mon!MonStart, Mon!Suspended, Mon!EnterAddrPhase, Mon!Goto
    <3> QED
      BY <1>1, <2>2, <2>3, <3>2, <3>3
         DEF Together, BetweenFrames, SamePlace, PhaseFollowsState, Watched, FsmStates, AddressStates
  <2>4. CASE bus = "active"
    <3>1. bus' = "active"
      BY <2>1, <2>4 DEF StartSeen, RepeatedStart, fsmVars
    <3>2. ASSUME Watched PROVE SamePlace' /\ phase' \in {"ADDR_BITS", "HDR_MODE"}
      <4>1. fsm' \in {"Idle", "InHDRMode", "RxFByte", "RxSByteRepeated", "DoCCC"}
        BY <2>1, <2>4 DEF StartSeen, RepeatedStart, fsmVars, To, RestartTarget, ControllerHasSda
      <4>2. CASE phase = "HDR_MODE"
        <5>1. fsm \in {"Idle", "InHDRMode"}
          BY <3>2, <4>2 DEF Together, SamePlace, PhaseFollowsState, FsmStates
        <5>2. fsm' = fsm
          BY <5>1, <2>1, <2>4 DEF StartSeen, RepeatedStart, fsmVars, To, RestartTarget
        <5>3. phase' = phase
          BY <4>2, <2>1 DEF Mon!MonStart, Mon!Suspended, Mon!monVars
        <5> QED
          BY <5>1, <5>2, <5>3, <4>2 DEF SamePlace, PhaseFollowsState, FsmStates, AddressStates
      <4>3. CASE phase # "HDR_MODE"
        <5>1. phase' = "ADDR_BITS"
          BY <4>3, <3>2, <2>1 DEF Mon!MonStart, Mon!Suspended, Mon!EnterAddrPhase, Mon!Goto, Watched
        <5> QED
          BY <4>1, <5>1 DEF SamePlace, PhaseFollowsState, FsmStates, AddressStates
      <4> QED
        BY <4>2, <4>3
    <3> QED
      BY <1>1, <2>2, <3>1, <3>2 DEF Together, BetweenFrames, SamePlace, Watched
  <2> QED
    BY <2>3, <2>4
<1> QED
  BY <1>2, <1>3

\* STOP, which also ends a frame in which the two had lost each other.
LEMMA StopMeets ==
    ASSUME NEW who, Together, SendStop(who)
    PROVE  Together' /\ alarm' = alarm
<1>1. alarm' = alarm /\ clash' = FALSE
  BY DEF SendStop, monVars, Mon!MonStop
<1>2. CASE bus = "active"
  <2>1. Stop /\ Mon!MonStop
    BY <1>2 DEF SendStop
  <2>2. fsm' \in {"Idle", "InHDRMode"} /\ retryNum' = retryNum
    BY <2>1 DEF Stop, To, csrVars
  <2>3. alarm = "none" => phase' = "IDLE" /\ active' = FALSE
    BY <2>1 DEF Mon!MonStop, Mon!Goto
  <2> QED
    BY <1>1, <2>2, <2>3
       DEF Together, SamePlace, BetweenFrames, PhaseFollowsState, Watched, FsmStates, AddressStates
<1>3. CASE bus # "active"
  <2>1. UNCHANGED <<fsmVars, monVars>>
    BY <1>3 DEF SendStop
  <2> QED
    BY <1>1, <1>3, <2>1
       DEF Together, SamePlace, BetweenFrames, PhaseFollowsState, Watched, fsmVars, selVars,
           csrVars, monVars, FsmHeader
<1> QED
  BY <1>2, <1>3

\* The exit pattern takes the target out of HDR mode.
LEMMA HdrExitMeets ==
    ASSUME Together, SendHdrExit
    PROVE  Together' /\ alarm' = alarm
<1>1. UNCHANGED <<monVars, clash>>
  BY DEF SendHdrExit, ghosts
<1>2. fsm' = fsm \/ (fsm = "InHDRMode" /\ fsm' = "Idle")
  BY DEF SendHdrExit, HdrExit, Move, To, fsmVars
<1>3. UNCHANGED <<bus, retryNum>> /\ (fsm' = fsm => header' = header)
  BY DEF SendHdrExit, HdrExit, Move, To, fsmVars, csrVars, selVars
<1> QED
  BY <1>1, <1>2, <1>3
     DEF Together, SamePlace, BetweenFrames, PhaseFollowsState, Watched, FsmStates, AddressStates,
         monVars, FsmHeader

\* The target's IBI wins the address byte.
LEMMA IbiAddressMeets ==
    ASSUME Together, Contends, IbiAddrSent, Mon!MonAddress("mainR", Drive)
    PROVE  /\ bus' = bus /\ retryNum' = retryNum /\ active' = active
           /\ alarm' = "none" => alarm = "none"
           /\ Watched => alarm' = alarm
           /\ Watched => (PhaseFollowsState' /\ phase' = "IBI_ADDR_ACK" /\ fsm' = "IbiReadAck")
<1>1. fsm' = "IbiReadAck" /\ bus' = bus /\ retryNum' = retryNum /\ active' = active
  BY DEF IbiAddrSent, Move, To, csrVars, Mon!MonAddress
<1>2. alarm # "none" => alarm' = alarm
  BY DEF Mon!MonAddress, Mon!Judge
<1>3. ASSUME Watched PROVE alarm' = alarm /\ phase' = "IBI_ADDR_ACK"
  <2>1. alarm' = alarm
    BY <1>3, DrivesAsExpected DEF Mon!MonAddress, Mon!Judge
  <2>2. phase = "ADDR_BITS" /\ ~repeated /\ Drive = "od"
    BY <1>3, DrivesAsExpected DEF Together, SamePlace, PhaseFollowsState
  <2>3. Mon!IsIbi("mainR", Drive)
    BY <2>2 DEF Mon!IsIbi, Mon!ToDut, Mon!ReadAddr
  <2> QED
    BY <1>3, <2>1, <2>2, <2>3 DEF Mon!MonAddress, Mon!Live, Mon!Goto, Watched
<1> QED
  BY <1>1, <1>2, <1>3 DEF PhaseFollowsState, FsmStates

\* An address byte the target does not contend.
LEMMA AddressMeets ==
    ASSUME Together, ~Contends, NEW h \in Addresses,
           AddressHeard(h), Mon!MonAddress(h, Drive), clash' = clash,
           Watched => phase \in {"ADDR_BITS", "HDR_MODE"} /\ bus = "active"
    PROVE  /\ Together' /\ (Watched => alarm' = alarm)
           /\ alarm' = "none" => alarm = "none"
           /\ Watched' => /\ phase' \in {"ADDR_ACK", "HDR_MODE"} /\ bus' = "active"
                          /\ fsm' \in AddressStates => header' = FsmHeader(h)
<1>1. alarm' = "none" => alarm = "none"
  BY DEF Mon!MonAddress, Mon!Judge
<1>2. bus' = bus /\ retryNum' = retryNum /\ active' = active
  BY DEF AddressHeard, FByteReceived, SByteReceived, Receive, fsmVars, csrVars, Mon!MonAddress
<1>3. ASSUME Watched
      PROVE /\ SamePlace' /\ phase' \in {"ADDR_ACK", "HDR_MODE"} /\ alarm' = alarm
            /\ fsm' \in AddressStates => header' = FsmHeader(h)
  <2>1. alarm' = alarm
    BY <1>3, DrivesAsExpected DEF Mon!MonAddress, Mon!Judge
  <2>2. CASE phase = "HDR_MODE"
    <3>1. fsm \in {"Idle", "InHDRMode"}
      BY <1>3, <2>2 DEF Together, SamePlace, PhaseFollowsState, FsmStates
    <3>2. fsm' = fsm
      BY <3>1 DEF AddressHeard, fsmVars
    <3>3. phase' = phase
      BY <2>2 DEF Mon!MonAddress
    <3> QED
      BY <2>1, <2>2, <3>1, <3>2, <3>3 DEF SamePlace, PhaseFollowsState, FsmStates, AddressStates
  <2>3. CASE phase = "ADDR_BITS"
    <3>1. fsm \in {"RxFByte", "RxSByteRepeated", "Idle", "InHDRMode", "DoCCC"} /\ Drive = "off"
      BY <1>3, <2>3, DrivesAsExpected DEF Together, SamePlace, PhaseFollowsState, FsmStates
    <3>2. phase' = "ADDR_ACK" /\ seen' = h
      BY <1>3, <2>1, <2>3, <3>1 DEF Mon!MonAddress, Mon!Live, Mon!Goto, Mon!IsIbi, Watched
    <3>3. \/ fsm' \in {"CheckFByte", "CheckSByte"} /\ header' = FsmHeader(h)
          \/ fsm' = fsm /\ fsm \in {"Idle", "InHDRMode", "DoCCC"}
      BY <3>1 DEF AddressHeard, FByteReceived, SByteReceived, Receive, fsmVars
    <3>4. FsmHeader(seen') = FsmHeader(h)
      BY <3>2
    <3> QED
      BY <3>2, <3>3, <3>4, <2>1
         DEF SamePlace, PhaseFollowsState, FsmStates, AddressStates, FsmHeader
  <2> QED
    BY <1>3, <2>2, <2>3
<1> QED
  BY <1>1, <1>2, <1>3 DEF Together, BetweenFrames, SamePlace, Watched

\* The acknowledge of an address.
LEMMA AckMeets ==
    ASSUME NEW who, Together, ReceiveAck(who), Head(script[who]).h \in Addresses,
           Watched => Expects(script[who])
    PROVE  /\ Together' /\ (Watched => alarm' = alarm) /\ clash' = clash
           /\ alarm' = "none" => alarm = "none"
           /\ Watched' => bus' = "active"
           /\ Watched' /\ fsm \notin {"TxAckFByte", "TxAckSByte"} => phase' \in {"IDLE", "HDR_MODE"}
           /\ Watched' /\ fsm \in {"TxAckFByte", "TxAckSByte"} =>
                 /\ Head(script[who]).h \notin Mon!ReadAddr => phase' \in {"CCC_BYTE", "WRITE_DATA"}
                 /\ phase' = "CCC_BYTE" => Head(script[who]).h = "rsvdW" /\ fsm' = "RxSByte"
<1> DEFINE yes == fsm \in {"TxAckFByte", "TxAckSByte"}
           h == Head(script[who]).h
<1> HIDE DEF h
<1>0. h \in Addresses
  BY DEF h
<1>1. alarm' = "none" => alarm = "none"
  BY DEF ReceiveAck, Mon!MonAck
<1>2. bus' = bus /\ retryNum' = retryNum /\ active' = active /\ clash' = clash
  BY DEF ReceiveAck, AckSent, IbiNacked, Move, fsmVars, csrVars, Mon!MonAck, Mon!AddrAcked, ghosts
<1>3. ASSUME Watched PROVE phase \in {"ADDR_ACK", "HDR_MODE"} /\ bus = "active"
                          /\ (fsm \in AddressStates => header = FsmHeader(h))
  BY <1>3 DEF Expects, ReceiveAck, At, h
<1>4. ASSUME Watched PROVE alarm' = alarm
  BY <1>3, <1>4, DrivesAsExpected DEF ReceiveAck, Mon!MonAck, Mon!TakenOver
<1>5. ASSUME Watched, ~yes
      PROVE  SamePlace' /\ phase' \in {"IDLE", "HDR_MODE"}
  <2>1. fsm # "IbiReadAck"
    BY <1>3, <1>5 DEF Together, SamePlace, PhaseFollowsState
  <2>2. UNCHANGED fsmVars
    BY <2>1, <1>5 DEF ReceiveAck
  <2>3. phase' = IF phase = "ADDR_ACK" THEN "IDLE" ELSE phase
    BY <1>3, <1>4, <1>5 DEF ReceiveAck, Mon!MonAck, Mon!Live, Watched
  <2>4. seen' = seen /\ nth' = nth /\ repeated' = repeated
    BY <1>3, <1>4, <1>5 DEF ReceiveAck, Mon!MonAck, Mon!Live, Watched
  <2>5. fsm \notin {"CheckFByte", "CheckSByte"}
    BY DEF ReceiveAck, Settled
  <2>6. CASE phase = "HDR_MODE"
    BY <1>4, <1>5, <2>2, <2>3, <2>4, <2>6 DEF Together, SamePlace, PhaseFollowsState, FsmStates, AddressStates, fsmVars
  <2>7. CASE phase = "ADDR_ACK"
    BY <1>4, <1>5, <2>2, <2>3, <2>4, <2>5, <2>7
       DEF Together, SamePlace, PhaseFollowsState, FsmStates, AddressStates, fsmVars
  <2> QED
    BY <1>3, <1>5, <2>3, <2>6, <2>7
<1>6. ASSUME Watched, yes
      PROVE  /\ SamePlace' /\ (h \notin Mon!ReadAddr => phase' \in {"CCC_BYTE", "WRITE_DATA"})
             /\ phase' = "CCC_BYTE" => h = "rsvdW" /\ fsm' = "RxSByte"
  <2>1. /\ phase = "ADDR_ACK" /\ header = FsmHeader(h) /\ header = FsmHeader(seen)
        /\ seen \in Addresses /\ header \in Ours \cup {"rsvdW"}
    BY <1>3, <1>6 DEF Together, SamePlace, PhaseFollowsState, AddressStates
  <2>2. AckSent /\ Mon!MonAck(TRUE, Drive, FALSE)
    BY <1>6 DEF ReceiveAck
  <2>3. Mon!AddrAcked
    BY <1>4, <1>6, <2>1, <2>2 DEF Mon!MonAck, Mon!Live, Watched
  <2>4. header = h /\ header = seen
    BY <1>0, <2>1 DEF FsmHeader, Ours, Virtual, Addresses
  <2>5. CASE seen = "rsvdW"
    <3>1. fsm' = "RxSByte"
      BY <2>2, <2>4, <2>5 DEF AckSent, Move, To, Reads
    <3>2. phase' = "CCC_BYTE" /\ nth' = 0
      BY <2>3, <2>5 DEF Mon!AddrAcked, Mon!AfterAck, Mon!Goto, Mon!ToDut
    <3> QED
      BY <2>4, <2>5, <3>1, <3>2 DEF SamePlace, PhaseFollowsState, FsmStates, AddressStates
  <2>6. CASE seen \in {"mainR", "virtR"}
    <3>1. fsm' = "TxPReadData"
      BY <2>2, <2>4, <2>6 DEF AckSent, Move, To, Reads
    <3>2. Mon!AfterAck = "READ_DATA" /\ h \in Mon!ReadAddr
      BY <2>4, <2>6 DEF Mon!AfterAck, Mon!ToDut, Mon!ReadAddr
    <3>3. phase' = "READ_DATA"
      BY <2>3, <3>2 DEF Mon!AddrAcked, Mon!Goto
    <3> QED
      BY <3>1, <3>2, <3>3 DEF SamePlace, PhaseFollowsState, FsmStates, AddressStates
  <2>7. CASE seen \in {"mainW", "virtW"}
    <3>1. fsm' = "RxPWriteData"
      BY <2>2, <2>4, <2>7 DEF AckSent, Move, To, Reads
    <3>2. Mon!AfterAck = "WRITE_DATA"
      BY <2>7 DEF Mon!AfterAck, Mon!ToDut, Mon!ReadAddr
    <3>3. phase' = "WRITE_DATA"
      BY <2>3, <3>2 DEF Mon!AddrAcked, Mon!Goto
    <3> QED
      BY <3>1, <3>3 DEF SamePlace, PhaseFollowsState, FsmStates, AddressStates
  <2> QED
    BY <2>1, <2>4, <2>5, <2>6, <2>7 DEF Ours, Virtual
<1> QED
  BY <1>1, <1>2, <1>3, <1>4, <1>5, <1>6 DEF Together, BetweenFrames, SamePlace, Watched, h

\* A byte the controller sends.
LEMMA ByteMeets ==
    ASSUME NEW who, Together, SendByte(who), Watched => Expects(script[who])
    PROVE  /\ Together' /\ (Watched => alarm' = alarm) /\ clash' = clash
           /\ alarm' = "none" => alarm = "none"
           /\ Watched' => /\ bus' = "active"
                          /\ phase' \in {"IDLE", "HDR_MODE", "WRITE_TBIT", "CCC_TBIT"}
                          /\ phase' = "CCC_TBIT" =>
                                /\ Head(script[who]).c \in Commands
                                /\ Head(script[who]).c = "ENTHDR" => nth' = 0
<1> DEFINE c == Head(script[who]).c
<1> HIDE DEF c
<1>1. alarm' = "none" => alarm = "none"
  BY DEF SendByte, Mon!MonByte, Mon!Judge
<1>2. /\ bus' = bus /\ retryNum' = retryNum /\ active' = active /\ clash' = clash
      /\ nth' = nth /\ seen' = seen /\ repeated' = repeated
  BY DEF SendByte, WriteByteReceived, CccReceived, Move, fsmVars, csrVars, Mon!MonByte, ghosts
<1>3. ASSUME Watched
      PROVE  /\ bus = "active" /\ phase \in {"IDLE", "HDR_MODE", "WRITE_DATA", "CCC_BYTE"}
             /\ phase = "CCC_BYTE" => c \in Commands /\ (c = "ENTHDR" => fsm = "RxSByte")
  BY <1>3 DEF Expects, SendByte, At, c
<1>4. ASSUME Watched PROVE alarm' = alarm /\ phase' = Mon!TbitOf(phase)
  BY <1>4, DrivesAsExpected DEF SendByte, Mon!MonByte, Mon!Judge, Mon!Live, Watched
<1>5. CASE Watched /\ phase = "WRITE_DATA"
  <2>1. fsm = "RxPWriteData"
    BY <1>5 DEF Together, SamePlace, PhaseFollowsState, FsmStates
  <2>2. fsm' = "RxPWriteTbit"
    BY <2>1 DEF SendByte, WriteByteReceived, Move, To
  <2>3. phase' = "WRITE_TBIT"
    BY <1>4, <1>5 DEF Mon!TbitOf
  <2> QED
    BY <1>1, <1>2, <1>3, <1>4, <1>5, <2>2, <2>3
       DEF Together, BetweenFrames, SamePlace, PhaseFollowsState, FsmStates, AddressStates, Watched
<1>6. CASE Watched /\ phase = "CCC_BYTE"
  <2>1. fsm \in {"RxSByte", "DoCCC"} /\ (fsm = "RxSByte" => nth = 0)
    BY <1>6 DEF Together, SamePlace, PhaseFollowsState, FsmStates
  <2>2. fsm' = "DoCCC"
    BY <2>1 DEF SendByte, CccReceived, Move, To, fsmVars
  <2>3. phase' = "CCC_TBIT"
    BY <1>4, <1>6 DEF Mon!TbitOf
  <2> QED
    BY <1>1, <1>2, <1>3, <1>4, <1>6, <2>1, <2>2, <2>3
       DEF Together, BetweenFrames, SamePlace, PhaseFollowsState, FsmStates, AddressStates, Watched, c
<1>7. CASE Watched /\ phase \in {"IDLE", "HDR_MODE"}
  <2>1. fsm \in {"Idle", "InHDRMode", "DoCCC", "WaitRestart"}
    BY <1>7 DEF Together, SamePlace, PhaseFollowsState, FsmStates
  <2>2. fsm' = fsm
    BY <2>1 DEF SendByte, fsmVars
  <2>3. phase' = phase
    BY <1>4, <1>7 DEF Mon!TbitOf
  <2> QED
    BY <1>1, <1>2, <1>3, <1>4, <1>7, <2>1, <2>2, <2>3
       DEF Together, BetweenFrames, SamePlace, PhaseFollowsState, FsmStates, AddressStates, Watched
<1>8. CASE ~Watched
  BY <1>1, <1>2, <1>8 DEF Together, BetweenFrames, SamePlace, Watched
<1> QED
  BY <1>3, <1>5, <1>6, <1>7, <1>8

\* Its T-bit.
LEMMA TbitMeets ==
    ASSUME NEW who, Together, SendTbit(who), Watched => Expects(script[who]),
           Fits(Head(script[who]))
    PROVE  /\ Together' /\ (Watched => alarm' = alarm) /\ clash' = clash
           /\ alarm' = "none" => alarm = "none"
           /\ Watched' => /\ bus' = "active"
                          /\ phase' \in {"IDLE", "HDR_MODE", "WRITE_DATA", "CCC_BYTE"}
                          /\ phase' = "CCC_BYTE" => Head(script[who]).c \in Commands
<1> DEFINE c == Head(script[who]).c
           good == Head(script[who]).good
           code2 == IF c \in Mon!CccCodes THEN c ELSE "BCAST"
<1>0. SendTbit(who) /\ Mon!MonTbit(code2, Drive)
      /\ (CASE fsm = "RxPWriteTbit" -> WriteTbitReceived(good, TRUE)
             [] fsm = "DoCCC" -> CccTbit(c, good)
             [] OTHER -> UNCHANGED fsmVars)
      /\ (c \in Commands => good = (c # "ENTHDR"))
  BY DEF SendTbit, Fits, At
<1> HIDE DEF c, good, code2
<1>1. alarm' = "none" => alarm = "none"
  BY <1>0 DEF Mon!MonTbit, Mon!Judge
<1>2. bus' = bus /\ retryNum' = retryNum /\ clash' = clash
  BY <1>0 DEF SendTbit, WriteTbitReceived, CccTbit, CccEntersHdr, SetIbiOn, Move, fsmVars, csrVars, ghosts
<1>3. ASSUME Watched
      PROVE  /\ bus = "active" /\ phase \in {"IDLE", "HDR_MODE", "WRITE_TBIT", "CCC_TBIT"}
             /\ phase = "CCC_TBIT" => c \in Commands /\ (c = "ENTHDR" => nth = 0)
  BY <1>3 DEF Expects, SendTbit, At, c
<1>4. ASSUME Watched PROVE alarm' = alarm /\ Mon!Live
  BY <1>0, <1>4, DrivesAsExpected DEF Mon!MonTbit, Mon!Judge, Mon!Live, Watched
<1>5. CASE Watched /\ phase = "WRITE_TBIT"
  <2>1. fsm = "RxPWriteTbit"
    BY <1>5 DEF Together, SamePlace, PhaseFollowsState, FsmStates
  <2>2. fsm' = "RxPWriteData"
    BY <1>0, <2>1 DEF WriteTbitReceived
  <2>3. phase' = "WRITE_DATA"
    BY <1>0, <1>4, <1>5 DEF Mon!DataAfter, Mon!MonTbit
  <2> QED
    BY <1>1, <1>2, <1>3, <1>4, <1>5, <2>2, <2>3
       DEF Together, BetweenFrames, SamePlace, PhaseFollowsState, FsmStates, AddressStates, Watched
<1>6. CASE Watched /\ phase = "CCC_TBIT"
  <2>1. fsm = "DoCCC"
    BY <1>6 DEF Together, SamePlace, PhaseFollowsState, FsmStates
  <2>2. CASE c = "ENTHDR"
    <3>1. fsm' = "InHDRMode"
      BY <1>0, <2>1, <2>2 DEF CccTbit, CccEntersHdr, Move, To, Commands
    <3>2. code2 = "ENTHDR" /\ nth = 0
      BY <1>3, <1>6, <2>2 DEF code2, Mon!CccCodes
    <3>3. phase' = "HDR_MODE"
      BY <1>0, <1>4, <1>6, <3>2 DEF Mon!MonTbit, Mon!MonCommand, Mon!Goto
    <3> QED
      BY <1>1, <1>2, <1>3, <1>4, <1>6, <3>1, <3>3
         DEF Together, BetweenFrames, SamePlace, PhaseFollowsState, FsmStates, AddressStates, Watched
  <2>3. CASE c # "ENTHDR"
    <3>1. good
      BY <1>0, <1>3, <1>6, <2>3
    <3>2. fsm' = "DoCCC"
      BY <1>0, <2>1, <3>1 DEF CccTbit, SetIbiOn, fsmVars
    <3>3. code2 # "ENTHDR"
      BY <2>3 DEF code2
    <3>4. phase' = "CCC_BYTE"
      BY <1>0, <1>4, <1>6, <3>3 DEF Mon!MonTbit, Mon!MonCommand, Mon!Goto, Mon!DataAfter
    <3> QED
      BY <1>1, <1>2, <1>3, <1>4, <1>6, <3>2, <3>4
         DEF Together, BetweenFrames, SamePlace, PhaseFollowsState, FsmStates, AddressStates, Watched, c
  <2> QED
    BY <2>2, <2>3
<1>7. CASE Watched /\ phase \in {"IDLE", "HDR_MODE"}
  <2>1. fsm \in {"Idle", "InHDRMode", "DoCCC", "WaitRestart"}
    BY <1>7 DEF Together, SamePlace, PhaseFollowsState, FsmStates
  <2>2. phase = "HDR_MODE" => fsm # "DoCCC"
    BY <1>7 DEF Together, SamePlace, PhaseFollowsState
  <2>3. \/ fsm' = fsm \/ (fsm = "DoCCC" /\ fsm' = "InHDRMode")
    BY <1>0, <2>1 DEF CccTbit, CccEntersHdr, SetIbiOn, Move, To, fsmVars
  <2>4. phase' = phase
    BY <1>0, <1>4, <1>7 DEF Mon!MonTbit, Mon!DataAfter
  <2> QED
    BY <1>1, <1>2, <1>3, <1>4, <1>7, <2>1, <2>2, <2>3, <2>4
       DEF Together, BetweenFrames, SamePlace, PhaseFollowsState, FsmStates, AddressStates, Watched
<1>8. CASE ~Watched
  BY <1>1, <1>2, <1>8 DEF Together, BetweenFrames, SamePlace, Watched
<1> QED
  BY <1>3, <1>5, <1>6, <1>7, <1>8

\* An address byte that goes out unwatched: if the target contends it, what
\* either side makes of the frame is lost until the STOP.
LEMMA OtherAddressMeets ==
    ASSUME NEW who, Together, SendAddress(who), Head(script[who]).h \in Addresses,
           Watched => Expects(script[who])
    PROVE  /\ Together' /\ (Watched => alarm' = alarm)
           /\ alarm' = "none" => alarm = "none"
           /\ clash => clash'
           /\ Watched' => /\ phase' \in {"ADDR_ACK", "HDR_MODE"} /\ bus' = "active"
                          /\ fsm' \in AddressStates => header' = FsmHeader(Head(script[who]).h)
<1> DEFINE h == Head(script[who]).h
<1> HIDE DEF h
<1>0. h \in Addresses
  BY DEF h
<1>1. CASE ~Contends /\ AddressHeard(h) /\ Mon!MonAddress(h, Drive) /\ UNCHANGED clash
  <2>1. Watched => phase \in {"ADDR_BITS", "HDR_MODE"} /\ bus = "active"
    BY DEF Expects, SendAddress, At
  <2> QED
    BY <1>0, <1>1, <2>1, AddressMeets DEF h
<1>2. CASE /\ Contends
           /\ \/ IbiAddrSent /\ Mon!MonAddress("mainR", Drive)
              \/ (DriveAddrLost \/ HeaderArbLostLate(FsmHeader(h))) /\ Mon!MonAddress(h, Drive)
           /\ clash' = TRUE
  <2>1. bus' = bus /\ retryNum' = retryNum /\ active' = active
    BY <1>2 DEF IbiAddrSent, DriveAddrLost, HeaderArbLostLate, Move, csrVars, Mon!MonAddress
  <2>2. alarm' = "none" => alarm = "none"
    BY <1>2 DEF Mon!MonAddress, Mon!Judge
  <2>3. Watched => alarm' = alarm
    BY <1>2, DrivesAsExpected DEF Mon!MonAddress, Mon!Judge
  <2>4. Watched => bus = "active"
    BY <1>2, DrivesAsExpected DEF Together, SamePlace
  <2> QED
    BY <1>2, <2>1, <2>2, <2>3, <2>4 DEF Together, BetweenFrames, SamePlace, Watched
<1> QED
  BY <1>1, <1>2 DEF SendAddress, h

\* A byte and a T-bit of a target that sends.
LEMMA ReadMeets ==
    ASSUME NEW who, Together, ReadByte(who) \/ ReadTbit(who)
    PROVE  Together' /\ (Watched => alarm' = alarm) /\ clash' = clash
           /\ (alarm' = "none" => alarm = "none")
<1>1. alarm' = "none" => alarm = "none"
  BY DEF ReadByte, ReadTbit, Mon!MonByte, Mon!MonTbit, Mon!MonStart, Mon!monVars, Mon!Judge
<1>2. bus' = bus /\ retryNum' = retryNum /\ clash' = clash
  BY DEF ReadByte, ReadTbit, ReadByteSent, IbiByteSent, ReadEnded, IbiEnded, ReadAborted,
         IbiAborted, ReadContinued, IbiContinued, Move, csrVars, ghosts
<1>3. CASE ~Watched
  <2>1. alarm = "none" /\ bus # "active" => FALSE
    BY <1>3
       DEF Together, BetweenFrames, Watched, ReadByte, ReadTbit, ReadByteSent, IbiByteSent,
           ReadEnded, IbiEnded, ReadAborted, IbiAborted, ReadContinued, IbiContinued, Move
  <2> QED
    BY <1>1, <1>2, <1>3, <2>1 DEF Together, BetweenFrames, SamePlace, Watched
<1>4. CASE Watched
  <2>0. Drive \in Mon!Expected /\ alarm = "none" /\ bus = "active"
    BY <1>4, DrivesAsExpected
       DEF Together, BetweenFrames, Watched, ReadByte, ReadTbit, ReadByteSent, IbiByteSent,
           ReadEnded, IbiEnded, ReadAborted, IbiAborted, ReadContinued, IbiContinued, Move
  <2>1. ASSUME fsm' = "TxPReadTbitSel" \/ fsm' \in {"IbiTbitCont", "IbiTbitEnd"},
               fsm \in {"TxPReadData", "IbiSendData"},
               fsm = "TxPReadData" <=> fsm' = "TxPReadTbitSel",
               Mon!MonByte(Drive)
        PROVE  SamePlace' /\ alarm' = alarm
    BY <1>4, <2>0, <2>1
       DEF Mon!MonByte, Mon!Judge, Mon!Live, Mon!TbitOf, Together, SamePlace, PhaseFollowsState,
           FsmStates, AddressStates
  <2>2. ASSUME fsm \in {"TxPReadTbitCont", "TxPReadTbitEnd", "IbiTbitCont", "IbiTbitEnd"},
               Mon!MonTbit("none", Drive),
               fsm' = CASE fsm = "TxPReadTbitCont" -> "TxPReadData"
                        [] fsm = "IbiTbitCont" -> "IbiSendData"
                        [] OTHER -> "WaitRestart"
        PROVE  SamePlace' /\ alarm' = alarm
    BY <1>4, <2>0, <2>2
       DEF Mon!MonTbit, Mon!Judge, Mon!Live, Mon!DataAfter, Together, SamePlace, PhaseFollowsState,
           FsmStates, AddressStates
  <2>3. ASSUME fsm \in {"TxPReadTbitCont", "IbiTbitCont"}, fsm' = "RxFByte", Mon!MonStart(0, 0)
        PROVE  SamePlace' /\ alarm' = alarm
    BY <1>4, <2>0, <2>3
       DEF Mon!MonStart, Mon!Suspended, Mon!EnterAddrPhase, Mon!Goto, Mon!monVars, Together,
           SamePlace, PhaseFollowsState, FsmStates, AddressStates, Watched
  <2>4. ASSUME ReadByte(who) PROVE SamePlace' /\ alarm' = alarm
    <3>1. Mon!MonByte(Drive)
      BY <2>4 DEF ReadByte
    <3>2. \/ fsm = "TxPReadData" /\ fsm' = "TxPReadTbitSel"
          \/ fsm = "IbiSendData" /\ fsm' \in {"IbiTbitCont", "IbiTbitEnd"}
      BY <2>4 DEF ReadByte, ReadByteSent, IbiByteSent, Move, To
    <3> QED
      BY <2>1, <3>1, <3>2
  <2>5. ASSUME ReadTbit(who) PROVE SamePlace' /\ alarm' = alarm
    <3>1. CASE Mon!MonStart(0, 0) /\ (ReadAborted \/ IbiAborted)
      BY <2>3, <3>1 DEF ReadAborted, IbiAborted, Move, To
    <3>2. CASE /\ Mon!MonTbit("none", Drive)
               /\ ReadEnded \/ IbiEnded \/ ReadContinued \/ IbiContinued
      BY <2>2, <3>2 DEF ReadEnded, IbiEnded, ReadContinued, IbiContinued, Move, To
    <3> QED
      BY <2>5, <3>1, <3>2 DEF ReadTbit
  <2>6. SamePlace' /\ alarm' = alarm
    BY <2>4, <2>5
  <2> QED
    BY <1>2, <2>0, <2>6 DEF Together, BetweenFrames
<1> QED
  BY <1>1, <1>2, <1>3, <1>4

\* The answer to an IBI.
LEMMA AnswerMeets ==
    ASSUME NEW who, Together, AnswerIbi(who)
    PROVE  Together' /\ (Watched => alarm' = alarm) /\ clash' = clash
           /\ (alarm' = "none" => alarm = "none")
<1>1. alarm' = "none" => alarm = "none"
  BY DEF AnswerIbi, Mon!MonAck
<1>2. /\ bus' = bus /\ retryNum' = retryNum /\ clash' = clash /\ fsm = "IbiReadAck"
      /\ fsm' \in {"IbiSendData", "WaitRestart"}
  BY DEF AnswerIbi, IbiAcked, IbiNacked, Move, To, csrVars, ghosts
<1>3. alarm = "none" => bus = "active"
  BY <1>2 DEF Together, BetweenFrames
<1>4. ASSUME Watched PROVE SamePlace' /\ alarm' = alarm
  <2>1. PICK yes \in BOOLEAN :
          (IF yes THEN IbiAcked ELSE IbiNacked) /\ Mon!MonAck(yes, Drive, yes)
    BY DEF AnswerIbi
  <2>2. alarm' = alarm
    BY <1>4, <2>1, DrivesAsExpected DEF Mon!MonAck, Mon!TakenOver
  <2>3. phase = "IBI_ADDR_ACK"
    BY <1>2, <1>4 DEF Together, SamePlace, PhaseFollowsState
  <2>4. fsm' = IF yes THEN "IbiSendData" ELSE "WaitRestart"
    BY <2>1 DEF IbiAcked, IbiNacked, Move, To
  <2>5. phase' = IF yes THEN "IBI_MDB" ELSE "IDLE"
    BY <1>4, <2>1, <2>2, <2>3 DEF Mon!MonAck, Mon!Live, Watched
  <2> QED
    BY <2>2, <2>4, <2>5 DEF SamePlace, PhaseFollowsState, FsmStates, AddressStates
<1> QED
  BY <1>1, <1>2, <1>3, <1>4 DEF Together, BetweenFrames, SamePlace, Watched

\* The target begins an IBI.
LEMMA BeginIbiMeets ==
    ASSUME Together, BeginIbi
    PROVE  Together' /\ alarm' = alarm /\ clash' = clash /\ bus # "active"
<1>1. alarm' = alarm /\ clash' = clash
  BY DEF BeginIbi, Mon!MonStart, Mon!monVars, ghosts
<1>2. bus # "active" /\ bus' = "active" /\ fsm' = "IbiDriveAddr" /\ retryNum' = retryNum
  BY DEF BeginIbi, InitiateIbi, To, csrVars
<1>3. ASSUME alarm = "none" PROVE ~clash /\ phase' = "ADDR_BITS" /\ ~repeated'
  BY <1>2, <1>3
     DEF Together, BetweenFrames, BeginIbi, Mon!MonStart, Mon!Suspended, Mon!EnterAddrPhase, Mon!Goto
<1> QED
  BY <1>1, <1>2, <1>3
     DEF Together, BetweenFrames, SamePlace, PhaseFollowsState, FsmStates, AddressStates, Watched

\* What the target does between two events keeps to the phase.
LEMMA TargetMeets ==
    ASSUME Together, TargetMoves
    PROVE  /\ Together' /\ UNCHANGED monVars /\ clash' = clash
           /\ bus = "active" => bus' = "active"
           /\ fsm = "RxSByte" => fsm' = "RxSByte"
           /\ Watched /\ fsm' \in AddressStates => fsm \in AddressStates /\ header' = header
<1>1. UNCHANGED monVars /\ clash' = clash
  BY DEF TargetMoves, ghosts
<1>2. CASE BusAvailable
  BY <1>1, <1>2
     DEF BusAvailable, Together, BetweenFrames, SamePlace, PhaseFollowsState, Watched, selVars,
         csrVars, monVars, FsmHeader
<1>3. CASE ReleaseInhibit \/ ByteAccepted
  BY <1>1, <1>3
     DEF ReleaseInhibit, ByteAccepted, Together, BetweenFrames, SamePlace, PhaseFollowsState,
         Watched, selVars, csrVars, monVars, FsmHeader
<1>4. CASE \E avail \in BOOLEAN : CheckFByte(avail) \/ CheckSByte(avail)
  <2>1. /\ bus' = bus /\ header' = header /\ retryNum' = retryNum
        /\ fsm \in {"CheckFByte", "CheckSByte"}
        /\ fsm' \in {"InHDRMode", "WaitRestart", "TxAckFByte", "TxAckSByte"}
    BY <1>4 DEF CheckFByte, CheckSByte, Check, Verdict, csrVars
  <2>2. fsm' \in {"TxAckFByte", "TxAckSByte"} => header \in Ours \cup {"rsvdW"}
    BY <1>4 DEF CheckFByte, CheckSByte, Check, Verdict
  <2> QED
    BY <1>1, <2>1, <2>2
       DEF Together, BetweenFrames, SamePlace, PhaseFollowsState, Watched, monVars, FsmHeader,
           FsmStates, AddressStates
<1>5. CASE TbitSelected(TRUE)
  <2>1. /\ bus' = bus /\ retryNum' = retryNum /\ fsm = "TxPReadTbitSel"
        /\ fsm' \in {"TxPReadTbitCont", "TxPReadTbitEnd"}
    BY <1>5 DEF TbitSelected, To, csrVars
  <2> QED
    BY <1>1, <2>1
       DEF Together, BetweenFrames, SamePlace, PhaseFollowsState, Watched, monVars,
           FsmStates, AddressStates
<1> QED
  BY <1>2, <1>3, <1>4, <1>5 DEF TargetMoves

-----------------------------------------------------------------------------
(* Scripts in the order of a frame. *)

All == Steps \cup Ends

\* Scripts that may be put one after the other.
Piece(s) ==
    /\ s \in Seq(All) /\ InOrder(s)
    /\ s # <<>> => s[1].do \in Opens /\ s[Len(s)].do \in Closes

LEMMA InOrderTail ==
    ASSUME NEW s \in Seq(All), s # <<>>, InOrder(s)
    PROVE  /\ InOrder(Tail(s)) /\ Fits(Head(s))
           /\ Tail(s) # <<>> => Follows(Head(s), Head(Tail(s)))
<1>1. /\ Tail(s) \in Seq(All) /\ Len(Tail(s)) = Len(s) - 1 /\ Len(s) \in Nat /\ Len(s) > 0
      /\ \A i \in 1..Len(Tail(s)) : Tail(s)[i] = s[i + 1]
      /\ Head(s) = s[1]
  OBVIOUS
<1>2. ASSUME NEW i \in 1..Len(Tail(s)) PROVE Fits(Tail(s)[i])
  BY <1>1 DEF InOrder
<1>3. ASSUME NEW i \in 1..(Len(Tail(s)) - 1) PROVE Follows(Tail(s)[i], Tail(s)[i + 1])
  <2>1. i + 1 \in 1..(Len(s) - 1) /\ Tail(s)[i] = s[i + 1] /\ Tail(s)[i + 1] = s[(i + 1) + 1]
    BY <1>1
  <2>2. Follows(s[i + 1], s[(i + 1) + 1])
    BY <2>1 DEF InOrder
  <2> QED
    BY <2>1, <2>2
<1>4. ASSUME Tail(s) # <<>> PROVE Follows(Head(s), Head(Tail(s)))
  <2>1. 1 \in 1..(Len(s) - 1) /\ Head(Tail(s)) = s[1 + 1]
    BY <1>1, <1>4
  <2>2. Follows(s[1], s[1 + 1])
    BY <2>1 DEF InOrder
  <2> QED
    BY <1>1, <2>1, <2>2
<1>5. Fits(Head(s))
  <2>1. 1 \in 1..Len(s)
    BY <1>1
  <2> QED
    BY <1>1, <2>1 DEF InOrder
<1> QED
  BY <1>2, <1>3, <1>4, <1>5 DEF InOrder

LEMMA InOrderJoin ==
    ASSUME NEW a \in Seq(All), NEW b \in Seq(All), InOrder(a), InOrder(b),
           a # <<>> /\ b # <<>> => Follows(a[Len(a)], b[1])
    PROVE  a \o b \in Seq(All) /\ InOrder(a \o b)
<1> DEFINE c == a \o b
<1>1. /\ c \in Seq(All) /\ Len(c) = Len(a) + Len(b) /\ Len(a) \in Nat /\ Len(b) \in Nat
      /\ \A i \in 1..Len(a) : c[i] = a[i]
      /\ \A i \in 1..Len(b) : c[Len(a) + i] = b[i]
  OBVIOUS
<1> HIDE DEF c
<1>2. ASSUME NEW i \in 1..Len(c) PROVE Fits(c[i])
  <2>1. CASE i <= Len(a)
    BY <1>1, <2>1 DEF InOrder
  <2>2. CASE i > Len(a)
    <3>1. i - Len(a) \in 1..Len(b) /\ c[i] = b[i - Len(a)]
      BY <1>1, <2>2
    <3> QED
      BY <3>1 DEF InOrder
  <2> QED
    BY <1>1, <2>1, <2>2
<1>3. ASSUME NEW i \in 1..(Len(c) - 1) PROVE Follows(c[i], c[i + 1])
  <2>1. CASE i < Len(a)
    <3>1. i \in 1..(Len(a) - 1) /\ c[i] = a[i] /\ c[i + 1] = a[i + 1]
      BY <1>1, <2>1
    <3>2. Follows(a[i], a[i + 1])
      BY <3>1 DEF InOrder
    <3> QED
      BY <3>1, <3>2
  <2>2. CASE i = Len(a)
    <3>1. a # <<>> /\ b # <<>> /\ c[i] = a[Len(a)] /\ c[i + 1] = b[1]
      BY <1>1, <2>2
    <3> QED
      BY <3>1
  <2>3. CASE i > Len(a)
    <3> DEFINE j == i - Len(a)
    <3>1. j \in 1..(Len(b) - 1) /\ c[i] = b[j] /\ c[i + 1] = b[j + 1]
      <4>1. j \in 1..Len(b) /\ j + 1 \in 1..Len(b) /\ j \in 1..(Len(b) - 1)
        BY <1>1, <2>3
      <4>2. i = Len(a) + j /\ i + 1 = Len(a) + (j + 1)
        BY <1>1
      <4>3. c[Len(a) + j] = b[j] /\ c[Len(a) + (j + 1)] = b[j + 1]
        BY <1>1, <4>1
      <4> QED
        BY <4>1, <4>2, <4>3
    <3>2. Follows(b[j], b[j + 1])
      BY <3>1 DEF InOrder
    <3> QED
      BY <3>1, <3>2
  <2> QED
    BY <1>1, <2>1, <2>2, <2>3
<1> QED
  BY <1>1, <1>2, <1>3 DEF InOrder, c

LEMMA ClosedThenOpen ==
    ASSUME NEW a, NEW b, a.do \in Closes, b.do \in Opens PROVE Follows(a, b)
  BY DEF Follows

LEMMA PieceJoin == ASSUME NEW a, NEW b, Piece(a), Piece(b) PROVE Piece(a \o b)
<1>1. a \in Seq(All) /\ b \in Seq(All) /\ InOrder(a) /\ InOrder(b)
  BY DEF Piece
<1>2. a # <<>> /\ b # <<>> => Follows(a[Len(a)], b[1])
  BY ClosedThenOpen DEF Piece
<1>3. a \o b \in Seq(All) /\ InOrder(a \o b)
  BY <1>1, <1>2, InOrderJoin
<1>4. a # <<>> => (a \o b)[1] = a[1]
  BY <1>1
<1>5. a = <<>> => a \o b = b
  BY <1>1
<1>6. b # <<>> => (a \o b)[Len(a \o b)] = b[Len(b)]
  BY <1>1
<1>7. b = <<>> => a \o b = a
  BY <1>1
<1>8. CASE a # <<>> /\ b # <<>>
  BY <1>3, <1>4, <1>6, <1>8 DEF Piece
<1> QED
  BY <1>5, <1>7, <1>8

LEMMA NoSteps == Piece(<<>>)
  BY DEF Piece, InOrder

LEMMA StopIfPiece == ASSUME NEW b \in BOOLEAN PROVE Piece(StopIf(b))
<1>1. stop \in All /\ stop.do = "stop"
  BY StepFacts DEF All, stop
<1>2. <<stop>> \in Seq(All) /\ Len(<<stop>>) = 1 /\ <<stop>>[1] = stop
  BY <1>1
<1>3. Fits(stop)
  BY <1>1 DEF Fits
<1>4. Piece(<<stop>>)
  BY <1>1, <1>2, <1>3 DEF Piece, InOrder, Opens, Closes
<1> QED
  BY <1>4, NoSteps DEF StopIf

\* The bytes of one transfer, before which stands the acknowledge of an address
\* they go with.
LEMMA BytesInOrder ==
    ASSUME NEW n \in Nat, NEW c \in Bytes, NEW g \in BOOLEAN,
           c \in Commands => n = 1 /\ g = (c # "ENTHDR")
    PROVE  /\ InOrder(WriteBytes(n, c, g)) /\ WriteBytes(n, c, g) \in Seq(All)
           /\ Len(WriteBytes(n, c, g)) = 2 * n
           /\ n > 0 => /\ WriteBytes(n, c, g)[1] = byte(c)
                       /\ WriteBytes(n, c, g)[2 * n] = tbit(c, g)
<1> DEFINE s == WriteBytes(n, c, g)
<1>0. s \in Seq(Steps)
  BY WriteBytesTyped
<1>1. /\ s = [i \in 1..(2 * n) |-> IF i % 2 = 1 THEN byte(c) ELSE tbit(c, g)]
      /\ 2 * n \in Nat
  BY DEF WriteBytes
<1>2. Len(s) = 2 * n /\ s \in Seq(All)
  <2>1. s \in Seq(All)
    BY <1>0 DEF All
  <2>2. DOMAIN s = 1..Len(s) /\ Len(s) \in Nat
    BY <1>0
  <2>3. DOMAIN s = 1..(2 * n)
    BY <1>1
  <2> QED
    BY <1>1, <2>1, <2>2, <2>3
<1>3. \A i \in 1..(2 * n) : s[i] = IF i % 2 = 1 THEN byte(c) ELSE tbit(c, g)
  BY <1>1
<1> HIDE DEF s
<1>4. Fits(byte(c)) /\ Fits(tbit(c, g))
  BY DEF Fits, byte, tbit
<1>5. Follows(byte(c), tbit(c, g))
  BY DEF Follows, byte, tbit
<1>6. n > 1 => Follows(tbit(c, g), byte(c))
  BY DEF Follows, byte, tbit, PrivateBytes
<1>7. ASSUME NEW i \in 1..(2 * n) PROVE Fits(s[i])
  BY <1>3, <1>4
<1>8. ASSUME NEW i \in 1..(2 * n - 1) PROVE Follows(s[i], s[i + 1])
  <2>1. i \in 1..(2 * n) /\ i + 1 \in 1..(2 * n)
    OBVIOUS
  <2>2. CASE i % 2 = 1
    <3>1. (i + 1) % 2 # 1
      BY <2>2
    <3> QED
      BY <1>3, <1>5, <2>1, <2>2, <3>1
  <2>3. CASE i % 2 # 1
    <3>1. (i + 1) % 2 = 1 /\ n > 1
      BY <2>3
    <3> QED
      BY <1>3, <1>6, <2>1, <2>3, <3>1
  <2> QED
    BY <2>2, <2>3
<1>9. ASSUME n > 0 PROVE s[1] = byte(c) /\ s[2 * n] = tbit(c, g)
  <2>1. 1 \in 1..(2 * n) /\ 2 * n \in 1..(2 * n) /\ 1 % 2 = 1 /\ (2 * n) % 2 # 1
    BY <1>9
  <2> QED
    BY <1>3, <2>1
<1> QED
  BY <1>2, <1>7, <1>8, <1>9 DEF InOrder, s

LEMMA ThreeInOrder ==
    ASSUME NEW x \in All, NEW y \in All, NEW z \in All, Fits(x), Fits(y), Fits(z),
           Follows(x, y), Follows(y, z)
    PROVE  LET s == <<x>> \o <<y, z>>
           IN  s \in Seq(All) /\ InOrder(s) /\ Len(s) = 3 /\ s[1] = x /\ s[3] = z
<1> DEFINE s == <<x>> \o <<y, z>>
<1>1. s \in Seq(All) /\ Len(s) = 3 /\ s[1] = x /\ s[2] = y /\ s[3] = z
  OBVIOUS
<1> HIDE DEF s
<1>2. \A i \in 1..Len(s) : Fits(s[i])
  BY <1>1
<1>3. \A i \in 1..(Len(s) - 1) : Follows(s[i], s[i + 1])
  <2>1. SUFFICES ASSUME NEW i \in {1, 2} PROVE Follows(s[i], s[i + 1])
    BY <1>1
  <2> QED
    BY <1>1
<1>4. InOrder(s)
  BY <1>2, <1>3 DEF InOrder
<1> QED
  BY <1>1, <1>4 DEF s

\* A START and an address, up to its acknowledge.
LEMMA HeaderPiece ==
    ASSUME NEW h \in Addresses, NEW b \in BOOLEAN
    PROVE  LET s == <<start>> \o Header(h, b)
           IN  Piece(s) /\ Len(s) = 3 /\ s[3] = ack(h, b) /\ s[1] = start
<1> DEFINE s == <<start>> \o Header(h, b)
<1>1. start \in All /\ addr(h) \in All /\ ack(h, b) \in All
  BY StepFacts DEF All
<1>3. Fits(start) /\ Fits(addr(h)) /\ Fits(ack(h, b))
  BY DEF Fits, start, addr, ack
<1>4. Follows(start, addr(h)) /\ Follows(addr(h), ack(h, b))
  BY DEF Follows, start, addr, ack
<1>5. s \in Seq(All) /\ InOrder(s) /\ Len(s) = 3 /\ s[1] = start /\ s[3] = ack(h, b)
  BY <1>1, <1>3, <1>4, ThreeInOrder DEF Header
<1>6. start.do \in Opens /\ ack(h, b).do \in Closes
  BY DEF start, ack, Opens, Closes
<1> HIDE DEF s
<1>7. Piece(s)
  BY <1>5, <1>6 DEF Piece
<1> QED
  BY <1>5, <1>7 DEF s

\* What is said after a header, if it may be said there, closes it.
LEMMA AfterHeader ==
    ASSUME NEW a, Piece(a), a # <<>>, NEW d \in Seq(All), InOrder(d), d # <<>>,
           Follows(a[Len(a)], d[1]), d[Len(d)].do \in Closes
    PROVE  Piece(a \o d) /\ a \o d # <<>> /\ (a \o d)[Len(a \o d)] = d[Len(d)]
<1>1. a \in Seq(All) /\ InOrder(a)
  BY DEF Piece
<1>2. a \o d \in Seq(All) /\ InOrder(a \o d)
  BY <1>1, InOrderJoin
<1>3. (a \o d)[1] = a[1] /\ (a \o d)[Len(a \o d)] = d[Len(d)] /\ a \o d # <<>>
  BY <1>1
<1> QED
  BY <1>2, <1>3 DEF Piece

\* A series of frames.
Frames(s) == Piece(s) /\ s # <<>> /\ s[1].do = "start"

LEMMA FramesThen == ASSUME NEW a, NEW b, Frames(a), Piece(b) PROVE Frames(a \o b)
<1>1. Piece(a \o b)
  BY PieceJoin DEF Frames
<1>2. a \o b # <<>> /\ (a \o b)[1] = a[1]
  BY DEF Frames, Piece
<1> QED
  BY <1>1, <1>2 DEF Frames

LEMMA HeaderFrames ==
    ASSUME NEW h \in Addresses, NEW b \in BOOLEAN
    PROVE  LET s == <<start>> \o Header(h, b)
           IN  Frames(s) /\ s # <<>> /\ s[Len(s)] = ack(h, b)
<1> DEFINE s == <<start>> \o Header(h, b)
<1>1. Piece(s) /\ Len(s) = 3 /\ s[3] = ack(h, b) /\ s[1] = start
  BY HeaderPiece
<1> HIDE DEF s
<1>2. s # <<>> /\ start.do = "start"
  BY <1>1 DEF start
<1>3. Frames(s) /\ s[Len(s)] = ack(h, b)
  BY <1>1, <1>2 DEF Frames
<1> QED
  BY <1>2, <1>3 DEF s

LEMMA JoinAssociative ==
    ASSUME NEW a \in Seq(All), NEW b \in Seq(All), NEW c \in Seq(All)
    PROVE  (a \o b) \o c = a \o (b \o c)
  OBVIOUS

\* 7E/W, or nothing, then a START and an address.
LEMMA Addressed ==
    ASSUME NEW r \in BOOLEAN, NEW h \in Addresses, NEW b \in BOOLEAN
    PROVE  LET s == (IF r THEN Reserved ELSE <<>>) \o <<start>> \o Header(h, b)
           IN  Frames(s) /\ s # <<>> /\ s[Len(s)] = ack(h, b)
<1> DEFINE p == IF r THEN Reserved ELSE <<>>
           q == <<start>> \o Header(h, b)
           s == p \o <<start>> \o Header(h, b)
<1>1. Frames(q) /\ q # <<>> /\ q[Len(q)] = ack(h, b)
  BY HeaderFrames
<1>2. Piece(p) /\ (p # <<>> => Frames(p))
  <2>1. Frames(Reserved)
    BY HeaderFrames DEF Reserved, Addresses
  <2> QED
    BY <2>1, NoSteps DEF Frames
<1>3. p \in Seq(All) /\ <<start>> \in Seq(All) /\ Header(h, b) \in Seq(All)
  <2>1. Header(h, b) \in Seq(Steps) /\ <<start>> \in Seq(Steps)
    BY HeaderTyped, StartTyped
  <2> QED
    BY <1>2, <2>1 DEF All, Piece
<1>4. s = p \o q
  BY <1>3, JoinAssociative
<1> HIDE DEF p, q, s
<1>5. CASE p = <<>>
  <2>1. s = q
    BY <1>1, <1>4, <1>5 DEF Frames, Piece
  <2> QED
    BY <1>1, <2>1 DEF s, p
<1>6. CASE p # <<>>
  <2>1. Frames(s)
    BY <1>1, <1>2, <1>4, <1>6, FramesThen DEF Frames
  <2>2. s # <<>> /\ s[Len(s)] = q[Len(q)]
    BY <1>1, <1>2, <1>4 DEF Frames, Piece
  <2> QED
    BY <1>1, <2>1, <2>2 DEF s, p
<1> QED
  BY <1>5, <1>6

\* Frames whose last step is followed by more of the same frame.
LEMMA MoreOfFrame ==
    ASSUME NEW a, Frames(a), NEW d \in Seq(All), InOrder(d), d # <<>>,
           Follows(a[Len(a)], d[1]), d[Len(d)].do \in Closes
    PROVE  Frames(a \o d) /\ a \o d # <<>> /\ (a \o d)[Len(a \o d)] = d[Len(d)]
<1>1. Piece(a \o d) /\ a \o d # <<>> /\ (a \o d)[Len(a \o d)] = d[Len(d)]
  BY AfterHeader DEF Frames
<1>2. (a \o d)[1] = a[1]
  BY DEF Frames, Piece
<1> QED
  BY <1>1, <1>2 DEF Frames

\* A private write: bytes after an address that is not a read.
LEMMA BytesAfter ==
    ASSUME NEW a, Frames(a), NEW h \in Addresses \ Mon!ReadAddr, h # "rsvdW",
           a[Len(a)] = ack(h, TRUE),
           NEW n \in Nat, NEW c \in PrivateBytes, NEW g \in BOOLEAN
    PROVE  Frames(a \o WriteBytes(n, c, g))
<1> DEFINE d == WriteBytes(n, c, g)
<1>1. /\ InOrder(d) /\ d \in Seq(All) /\ Len(d) = 2 * n
      /\ n > 0 => d[1] = byte(c) /\ d[2 * n] = tbit(c, g)
  BY BytesInOrder DEF PrivateBytes
<1>2. Follows(ack(h, TRUE), byte(c)) /\ tbit(c, g).do \in Closes
  BY DEF Follows, ack, byte, tbit, Closes
<1> HIDE DEF d
<1>3. CASE n = 0
  <2>1. d = <<>>
    BY <1>1, <1>3
  <2>2. a \o d = a
    BY <2>1 DEF Frames, Piece
  <2> QED
    BY <2>2 DEF d
<1>4. CASE n > 0
  <2>1. d # <<>> /\ d[1] = byte(c) /\ d[Len(d)] = tbit(c, g)
    BY <1>1, <1>4
  <2>2. Frames(a \o d)
    BY <1>1, <1>2, <2>1, MoreOfFrame
  <2> QED
    BY <2>2 DEF d
<1> QED
  BY <1>3, <1>4

\* One byte of a command, after 7E/W or after another.
LEMMA CommandAfter ==
    ASSUME NEW a, Frames(a), NEW c \in Commands, NEW g \in BOOLEAN, g = (c # "ENTHDR"),
           \/ \E b : a[Len(a)] = ack("rsvdW", b)
           \/ c # "ENTHDR" /\ \E k \in Commands : \E e : a[Len(a)] = tbit(k, e)
    PROVE  LET s == a \o WriteByte(c, g)
           IN  Frames(s) /\ s[Len(s)] = tbit(c, g)
<1> DEFINE d == WriteByte(c, g)
<1>1. /\ InOrder(d) /\ d \in Seq(All) /\ Len(d) = 2
      /\ d[1] = byte(c) /\ d[2] = tbit(c, g)
  <2>1. c \in Bytes /\ g \in BOOLEAN /\ 1 \in Nat
    BY DEF Commands, Bytes
  <2>2. /\ InOrder(WriteBytes(1, c, g)) /\ WriteBytes(1, c, g) \in Seq(All)
        /\ Len(WriteBytes(1, c, g)) = 2 * 1
        /\ 1 > 0 => WriteBytes(1, c, g)[1] = byte(c) /\ WriteBytes(1, c, g)[2 * 1] = tbit(c, g)
    BY <2>1, BytesInOrder, Zenon
  <2>3. 1 > 0 /\ 2 * 1 = 2
    OBVIOUS
  <2> QED
    BY <2>2, <2>3 DEF WriteByte
<1>2. Follows(a[Len(a)], byte(c))
  <2>1. ASSUME NEW b PROVE Follows(ack("rsvdW", b), byte(c))
    BY DEF Follows, ack, byte, Mon!ReadAddr
  <2>2. ASSUME NEW k \in Commands, NEW e, c # "ENTHDR" PROVE Follows(tbit(k, e), byte(c))
    BY <2>2 DEF Follows, tbit, byte
  <2> QED
    BY <2>1, <2>2
<1>3. tbit(c, g).do \in Closes
  BY DEF tbit, Closes
<1> HIDE DEF d
<1>4. d # <<>> /\ d[Len(d)] = tbit(c, g)
  BY <1>1
<1>5. Frames(a \o d) /\ (a \o d)[Len(a \o d)] = tbit(c, g)
  BY <1>1, <1>2, <1>3, <1>4, MoreOfFrame
<1> QED
  BY <1>5 DEF d

LEMMA CommandFrames ==
    ASSUME NEW c \in Commands \ {"ENTHDR"}
    PROVE  Frames(Reserved \o WriteByte("BCAST", TRUE) \o WriteByte(c, TRUE))
<1>1. Frames(Reserved) /\ Reserved[Len(Reserved)] = ack("rsvdW", FALSE)
  BY HeaderFrames DEF Reserved, Addresses
<1> DEFINE s == Reserved \o WriteByte("BCAST", TRUE)
<1>2. Frames(s) /\ s[Len(s)] = tbit("BCAST", TRUE)
  BY <1>1, CommandAfter DEF Commands
<1> HIDE DEF s
<1>3. \E k \in Commands : \E e : s[Len(s)] = tbit(k, e)
  BY <1>2 DEF Commands
<1>4. Frames(s \o WriteByte(c, TRUE))
  BY <1>2, <1>3, CommandAfter
<1> QED
  BY <1>4 DEF s

\* Every call is a series of frames.
LEMMA ScriptFrames == ASSUME NEW o \in Ops PROVE Frames(Script(o))
<1> o \in Calls
  BY OpsAssumption
<1>1. CASE o.kind = "write"
  <2>1. /\ o.to \in Addresses \ Mon!ReadAddr /\ o.to # "rsvdW" /\ o.n \in Nat
        /\ o.stop \in BOOLEAN /\ o.rsvd \in BOOLEAN /\ o.good \in BOOLEAN
    BY <1>1 DEF Calls, Addresses, Mon!ReadAddr
  <2> DEFINE s == (IF o.rsvd THEN Reserved ELSE <<>>) \o <<start>> \o Header(o.to, TRUE)
  <2>2. Frames(s) /\ s[Len(s)] = ack(o.to, TRUE)
    BY <2>1, Addressed
  <2>3. I3cWrite(o) = (s \o WriteBytes(o.n, "data", o.good)) \o StopIf(o.stop)
    BY DEF I3cWrite
  <2> HIDE DEF s
  <2>4. "data" \in PrivateBytes
    BY DEF PrivateBytes, Bytes, Commands
  <2>5. Frames(s \o WriteBytes(o.n, "data", o.good))
    BY <2>1, <2>2, <2>4, BytesAfter
  <2>6. Frames(I3cWrite(o))
    BY <2>1, <2>3, <2>5, StopIfPiece, FramesThen
  <2> QED
    BY <1>1, <2>6 DEF Script
<1>2. CASE o.kind = "read"
  <2>1. /\ o.to \in Addresses /\ o.n \in Nat /\ o.stop \in BOOLEAN /\ o.rsvd \in BOOLEAN
    BY <1>2 DEF Calls, Addresses
  <2> DEFINE s == (IF o.rsvd THEN Reserved ELSE <<>>) \o <<start>> \o Header(o.to, TRUE)
             d == <<read(o.n)>>
  <2>2. Frames(s) /\ s[Len(s)] = ack(o.to, TRUE)
    BY <2>1, Addressed
  <2>3. I3cRead(o) = (s \o d) \o StopIf(o.stop)
    BY DEF I3cRead
  <2>4. d \in Seq(All) /\ d # <<>> /\ Len(d) = 1 /\ d[1] = read(o.n)
    BY <2>1, StepFacts DEF All
  <2> HIDE DEF s, d
  <2>5. /\ Fits(read(o.n)) /\ Follows(ack(o.to, TRUE), read(o.n))
        /\ read(o.n).do \in Closes
    BY DEF Fits, Follows, ack, read, Closes
  <2>6. InOrder(d)
    BY <2>4, <2>5 DEF InOrder
  <2>7. Frames(s \o d)
    BY <2>2, <2>4, <2>5, <2>6, MoreOfFrame
  <2>8. Frames(I3cRead(o))
    BY <2>1, <2>3, <2>7, StopIfPiece, FramesThen
  <2> QED
    BY <1>2, <2>8 DEF Script
<1>3. CASE o.kind = "ccc"
  <2>1. o.c \in Commands \ {"ENTHDR"} /\ o.stop \in BOOLEAN
    BY <1>3 DEF Calls, Commands
  <2>2. Frames(I3cCccWrite(o))
    BY <2>1, CommandFrames, StopIfPiece, FramesThen DEF I3cCccWrite
  <2> QED
    BY <1>3, <2>2 DEF Script
<1>4. CASE o.kind = "te0"
  <2>1. Frames(SendTe0Error)
    BY HeaderFrames DEF SendTe0Error, Addresses
  <2> QED
    BY <1>4, <2>1 DEF Script
<1>5. CASE o.kind = "te1"
  <2>1. Frames(Reserved) /\ Reserved[Len(Reserved)] = ack("rsvdW", FALSE)
    BY HeaderFrames DEF Reserved, Addresses
  <2>2. Frames(SendTe1Error)
    BY <2>1, CommandAfter DEF SendTe1Error, Commands
  <2> QED
    BY <1>5, <2>2 DEF Script
<1> QED
  BY <1>1, <1>2, <1>3, <1>4, <1>5 DEF Calls

\* A step that may begin a frame or end a call, after what closes one.
LEMMA ThenOne ==
    ASSUME NEW s \in Seq(All), InOrder(s), s # <<>>, s[Len(s)].do \in Closes,
           NEW e \in All, e.do \in Opens
    PROVE  s \o <<e>> \in Seq(All) /\ InOrder(s \o <<e>>) /\ Head(s \o <<e>>) = s[1]
<1>1. <<e>> \in Seq(All) /\ Len(<<e>>) = 1 /\ <<e>>[1] = e
  OBVIOUS
<1>2. Fits(e)
  BY DEF Fits, Opens
<1>3. InOrder(<<e>>)
  BY <1>1, <1>2 DEF InOrder
<1>4. Follows(s[Len(s)], <<e>>[1])
  BY <1>1, ClosedThenOpen
<1>5. s \o <<e>> \in Seq(All) /\ InOrder(s \o <<e>>)
  BY <1>1, <1>3, <1>4, InOrderJoin
<1>6. Head(s \o <<e>>) = s[1]
  OBVIOUS
<1> QED
  BY <1>5, <1>6

\* What serves an IBI begins with the acknowledge.
LEMMA InlineInOrder ==
    ASSUME NEW c \in Chains \cup {"none"}, NEW l \in Limits, NEW b \in BOOLEAN
    PROVE  LET s == HandleIbiInline(c, l, b)
           IN  /\ s \in Seq(All) /\ InOrder(s) /\ s # <<>> /\ s[Len(s)].do \in Closes
               /\ s[1].do = "ibiAck"
<1>1. l \in Nat /\ c \in {"none", "write", "enec", "disec", "BCAST"}
  BY ChainsAssumption, LimitsAssumption
<1> DEFINE i == [do |-> "ibiAck"]
           r == read(l + 1)
           a == <<i, r>>
           d == IF c = "none" THEN StopIf(b)
                ELSE IF c = "write" THEN ExecuteChainWrite("mainW") ELSE ExecuteChainCcc(c)
           s == HandleIbiInline(c, l, b)
<1>2. s = a \o d
  BY DEF HandleIbiInline
<1>3. i \in All /\ r \in All /\ Fits(i) /\ Fits(r) /\ Follows(i, r)
      /\ r.do \in Closes /\ i.do = "ibiAck"
  BY <1>1, StepFacts DEF All, Fits, Follows, read, Closes
<1> HIDE DEF i, r
<1>4. a \in Seq(All) /\ Len(a) = 2 /\ a[1] = i /\ a[2] = r
  BY <1>3
<1> HIDE DEF a
<1>5. InOrder(a)
  <2>1. ASSUME NEW k \in 1..Len(a) PROVE Fits(a[k])
    <3>1. k \in {1, 2}
      BY <1>4
    <3> QED
      BY <1>3, <1>4, <3>1
  <2>2. ASSUME NEW k \in 1..(Len(a) - 1) PROVE Follows(a[k], a[k + 1])
    <3>1. k = 1 /\ k + 1 = 2
      BY <1>4
    <3> QED
      BY <1>3, <1>4, <3>1
  <2> QED
    BY <2>1, <2>2 DEF InOrder
<1>6. Piece(<<stop>>)
  BY StopIfPiece DEF StopIf
<1>7. Piece(d)
  <2>1. CASE c = "none"
    BY <2>1, StopIfPiece
  <2>2. CASE c = "write"
    <3> DEFINE w == (Reserved \o <<start>>) \o Header("mainW", TRUE)
    <3>1. Frames(w) /\ w[Len(w)] = ack("mainW", TRUE)
      <4>1. "mainW" \in Addresses
        BY DEF Addresses
      <4>2. w = (IF TRUE THEN Reserved ELSE <<>>) \o <<start>> \o Header("mainW", TRUE)
        OBVIOUS
      <4> QED
        BY <4>1, <4>2, Addressed
    <3> HIDE DEF w
    <3>2. "chained" \in PrivateBytes /\ "mainW" \in Addresses \ Mon!ReadAddr
      BY DEF PrivateBytes, Bytes, Commands, Addresses, Mon!ReadAddr
    <3>3. Frames(w \o WriteByte("chained", TRUE))
      BY <3>1, <3>2, BytesAfter DEF WriteByte
    <3>4. Frames((w \o WriteByte("chained", TRUE)) \o <<stop>>)
      BY <1>6, <3>3, FramesThen
    <3> QED
      BY <2>2, <3>4 DEF ExecuteChainWrite, w, Frames
  <2>3. CASE c \notin {"none", "write"}
    <3>1. c \in Commands \ {"ENTHDR"}
      BY <1>1, <2>3 DEF Commands
    <3>2. Frames(ExecuteChainCcc(c))
      BY <1>6, <3>1, CommandFrames, FramesThen DEF ExecuteChainCcc
    <3> QED
      BY <2>3, <3>2 DEF Frames
  <2> QED
    BY <2>1, <2>2, <2>3
<1> HIDE DEF d, s
<1>8. d \in Seq(All) /\ InOrder(d) /\ (d # <<>> => Follows(a[Len(a)], d[1]))
  BY <1>3, <1>4, <1>7, ClosedThenOpen DEF Piece
<1>9. s \in Seq(All) /\ InOrder(s)
  BY <1>2, <1>4, <1>5, <1>8, InOrderJoin
<1>10. s # <<>> /\ s[1] = i
  BY <1>2, <1>4, <1>8
<1>11. s[Len(s)].do \in Closes
  <2>1. CASE d = <<>>
    <3>1. s = a
      BY <1>2, <1>4, <2>1
    <3> QED
      BY <1>3, <1>4, <3>1
  <2>2. CASE d # <<>>
    <3>1. s[Len(s)] = d[Len(d)]
      BY <1>2, <1>4, <1>8, <2>2
    <3> QED
      BY <1>7, <2>2, <3>1 DEF Piece
  <2> QED
    BY <2>1, <2>2
<1> QED
  BY <1>3, <1>9, <1>10, <1>11 DEF s

\* A set of numbers that is not empty has a least one.
LEMMA LeastOf ==
    ASSUME NEW T \in SUBSET Nat, T # {} PROVE \E m \in T : \A k \in T : m <= k
<1> DEFINE R == {s \in Nat \X Nat : s[1] < s[2]}
<1>1. IsWellFoundedOn(R, Nat)
  BY NatLessThanWellFounded DEF OpToRel
<1>2. PICK m \in T : \A k \in T : <<k, m>> \notin R
  BY <1>1, WFMin
<1>3. \A k \in T : m <= k
  <2> SUFFICES ASSUME NEW k \in T PROVE m <= k
    OBVIOUS
  <2>1. m \in Nat /\ k \in Nat /\ <<k, m>> \notin R
    BY <1>2
  <2>2. ~(k < m)
    BY <2>1
  <2> QED
    BY <2>1, <2>2
<1> QED
  BY <1>3

\* What is left of a script once the data are skipped: it goes on with a new
\* frame or the end of the call.
LEMMA SkipInOrder ==
    ASSUME NEW s \in Seq(All), InOrder(s), s # <<>> => s[1].do \in Data \cup Opens
    PROVE  /\ InOrder(SkipData(s))
           /\ SkipData(s) # <<>> => Head(SkipData(s)).do \in Opens
<1> DEFINE d == DataSteps(s)
           T == {i \in 1..Len(s) : s[i].do \notin Data}
           D == {i \in 1..Len(s) : \A j \in 1..i : s[j].do \in Data}
           t == SkipData(s)
<1>1. /\ d \in 0..Len(s) /\ Len(s) \in Nat
      /\ t \in Seq(All) /\ Len(t) = Len(s) - d /\ \A i \in 1..Len(t) : t[i] = s[i + d]
  BY DataStepsBounded, SkipTyped
<1>2. d = Cardinality(D)
  BY DEF DataSteps
<1>3. InOrder(t)
  <2> HIDE DEF t, d, T, D
  <2>1. ASSUME NEW i \in 1..Len(t) PROVE Fits(t[i])
    <3>1. i + d \in 1..Len(s) /\ t[i] = s[i + d]
      BY <1>1
    <3> QED
      BY <3>1 DEF InOrder
  <2>2. ASSUME NEW i \in 1..(Len(t) - 1) PROVE Follows(t[i], t[i + 1])
    <3>1. i + d \in 1..(Len(s) - 1) /\ t[i] = s[i + d] /\ t[i + 1] = s[(i + d) + 1]
      BY <1>1
    <3>2. Follows(s[i + d], s[(i + d) + 1])
      BY <3>1 DEF InOrder
    <3> QED
      BY <3>1, <3>2
  <2> QED
    BY <2>1, <2>2 DEF InOrder
<1>4. ASSUME t # <<>> PROVE Head(t).do \in Opens
  <2>1. \A n \in Nat : Cardinality(1..n) = n
    <3> SUFFICES ASSUME NEW n \in Nat PROVE Cardinality(1..n) = n
      OBVIOUS
    <3>1. 1 \in Int /\ n \in Int
      OBVIOUS
    <3>2. Cardinality(1..n) = IF 1 > n THEN 0 ELSE n - 1 + 1
      BY <3>1, FS_Interval
    <3> QED
      BY <3>2
  <2>2. T # {}
    <3>1. SUFFICES ASSUME T = {} PROVE FALSE
      OBVIOUS
    <3>2. \A i \in 1..Len(s) : s[i].do \in Data
      BY <3>1
    <3>4. \A i \in 1..Len(s) : \A j \in 1..i : j \in 1..Len(s)
      BY <1>1
    <3>5. D = 1..Len(s)
      BY <3>2, <3>4
    <3>3. d = Len(s)
      BY <1>1, <1>2, <2>1, <3>5
    <3> HIDE DEF t, d
    <3> QED
      BY <1>1, <1>4, <3>3
  <2>3. PICK m \in T : \A k \in T : m <= k
    <3>1. T \in SUBSET Nat
      BY <1>1
    <3> HIDE DEF T
    <3> QED
      BY <2>2, <3>1, LeastOf
  <2>4. m \in 1..Len(s) /\ s[m].do \notin Data
    BY <2>3
  <2>5. \A j \in 1..(m - 1) : s[j].do \in Data
    BY <1>1, <2>3, <2>4
  <2>6. D = 1..(m - 1)
    BY <1>1, <2>4, <2>5
  <2>7. d = m - 1
    <3>1. m - 1 \in Nat
      BY <1>1, <2>4
    <3> QED
      BY <1>2, <2>1, <2>6, <3>1
  <2> HIDE DEF t, d, T, D
  <2>8. Head(t) = s[m]
    <3>1. 1 \in 1..Len(t) /\ Head(t) = t[1]
      BY <1>1, <1>4
    <3>2. t[1] = s[1 + d]
      BY <1>1, <3>1
    <3>3. 1 + d = m
      BY <1>1, <2>4, <2>7
    <3> QED
      BY <3>1, <3>2, <3>3
  <2>9. CASE m = 1
    <3>1. s # <<>>
      BY <2>4
    <3> QED
      BY <2>4, <2>8, <2>9, <3>1
  <2>10. CASE m # 1
    <3>1. m - 1 \in 1..(Len(s) - 1) /\ (m - 1) + 1 = m /\ m - 1 \in 1..(m - 1)
      BY <1>1, <2>4, <2>10
    <3>2. Follows(s[m - 1], s[(m - 1) + 1])
      BY <3>1 DEF InOrder
    <3>3. Follows(s[m - 1], s[m]) /\ s[m - 1].do \in Data
      BY <2>5, <3>1, <3>2
    <3> QED
      BY <2>4, <2>8, <3>3 DEF Follows, Data, Opens
  <2> QED
    BY <2>9, <2>10
<1> QED
  BY <1>3, <1>4

-----------------------------------------------------------------------------
(* Each step keeps the two together and the scripts fitting. *)

\* What is next of a coroutine, and after it.
LEMMA RestInOrder ==
    ASSUME BenchInvariant, ScriptsInOrder, NEW who \in {"fg", "bg"}, Busy(who)
    PROVE  /\ script[who] \in Seq(All) /\ Tail(script[who]) \in Seq(All)
           /\ Head(script[who]) \in All
           /\ InOrder(Tail(script[who])) /\ Fits(Head(script[who]))
           /\ Tail(script[who]) # <<>> => Follows(Head(script[who]), Head(Tail(script[who])))
<1>1. script[who] \in Seq(All) /\ script[who] # <<>> /\ InOrder(script[who])
  BY DEF BenchInvariant, ScriptTypeOK, ScriptsInOrder, Busy, All
<1>2. Head(script[who]) \in All /\ Tail(script[who]) \in Seq(All)
  BY <1>1
<1> QED
  BY <1>1, <1>2, InOrderTail

\* A step of the coroutine that has the bus.
LEMMA OnBusTracks ==
    ASSUME BenchInvariant, ScriptsInOrder, NextStepFits, NEW who \in {"fg", "bg"},
           NEW do, At(who, do), do # "take",
           NEW s, InOrder(s), Goto(who, s), Together',
           Watched' /\ s # <<>> => Expects(s)'
    PROVE  TrackingInvariant'
<1>1. script'[who] = s /\ \A w \in {"fg", "bg"} \ {who} : script'[w] = script[w]
  BY DEF Goto, BenchInvariant, ScriptTypeOK
<1>2. ScriptsInOrder'
  BY <1>1 DEF ScriptsInOrder
<1>3. ASSUME NEW w \in {"fg", "bg"} \ {who}, Busy(w) PROVE Head(script[w]).do = "take"
  BY <1>3 DEF BenchInvariant, ServesAlone, DisabledInCall, MonitorWaits, Busy, At
<1>4. ASSUME NEW w \in {"fg", "bg"}, (Watched /\ Busy(w))' PROVE Expects(script[w])'
  <2>1. CASE w = who
    BY <1>1, <1>4, <2>1 DEF Expects, Busy
  <2>2. CASE w # who
    BY <1>1, <1>3, <1>4, <2>2 DEF Expects, Busy
  <2> QED
    BY <2>1, <2>2
<1>5. NextStepFits'
  BY <1>4 DEF NextStepFits
<1> QED
  BY <1>2, <1>5 DEF TrackingInvariant

\* What begins a frame, ends a call or reads expects nothing.
Free == Opens \cup {"read", "readTbit", "ibiAck", "take", "hdrExit"}

LEMMA FreeExpectsNothing ==
    ASSUME NEW s, Head(s).do \in Free PROVE Expects(s)'
  BY DEF Expects, Free, Opens

\* The address bytes a script holds.
LEMMA AddressOfStep ==
    ASSUME NEW a \in All, a.do \in {"addr", "ack"} PROVE a.h \in Addresses
  BY DEF All, Steps, Ends

LEMMA SkipFrees ==
    ASSUME NEW t \in Seq(All), InOrder(t), t # <<>> => Head(t).do \in Data \cup Opens
    PROVE  InOrder(SkipData(t)) /\ (SkipData(t) # <<>> => Head(SkipData(t)).do \in Free)
<1>1. t # <<>> => t[1].do \in Data \cup Opens
  <2>1. t # <<>> => Head(t) = t[1]
    OBVIOUS
  <2> QED
    BY <2>1
<1> QED
  BY <1>1, SkipInOrder DEF Free

LEMMA StartTracks ==
    ASSUME BenchInvariant, TrackingInvariant, NEW who \in {"fg", "bg"}, SendStart(who),
           NEW t, t = Tail(script[who])
    PROVE  TrackingInvariant'
<1>1. Busy(who) /\ Head(script[who]).do = "start" /\ Goto(who, t) /\ At(who, "start")
  BY DEF SendStart, At, Go
<1>2. InOrder(t) /\ (t # <<>> => Head(t).do = "addr")
  BY <1>1, RestInOrder DEF TrackingInvariant, Follows, Closes
<1>3. Together' /\ (Watched' => phase' \in {"ADDR_BITS", "HDR_MODE"} /\ bus' = "active")
  BY StartMeets DEF TrackingInvariant
<1>4. Watched' /\ t # <<>> => Expects(t)'
  BY <1>2, <1>3 DEF Expects
<1> QED
  BY <1>1, <1>2, <1>3, <1>4, OnBusTracks DEF TrackingInvariant

LEMMA StopTracks ==
    ASSUME BenchInvariant, TrackingInvariant, NEW who \in {"fg", "bg"},
           SendStop(who) \/ (who = "fg" /\ SendHdrExit),
           NEW t, t = Tail(script[who])
    PROVE  TrackingInvariant'
<1>1. /\ Busy(who) /\ Head(script[who]).do \in {"stop", "hdrExit"} /\ Goto(who, t)
      /\ At(who, Head(script[who]).do)
  BY DEF SendStop, SendHdrExit, At, Go
<1>2. InOrder(t) /\ (t # <<>> => Head(t).do \in Free)
  BY <1>1, RestInOrder DEF TrackingInvariant, Follows, Closes, Opens, Free
<1>3. Together'
  BY StopMeets, HdrExitMeets DEF TrackingInvariant
<1>4. t # <<>> => Expects(t)'
  BY <1>2, FreeExpectsNothing
<1> QED
  BY <1>1, <1>2, <1>3, <1>4, OnBusTracks DEF TrackingInvariant

LEMMA AckTracks ==
    ASSUME BenchInvariant, TrackingInvariant, NEW who \in {"fg", "bg"}, ReceiveAck(who),
           NEW t, t = Tail(script[who]), NEW u, u = SkipData(t)
    PROVE  TrackingInvariant'
<1> DEFINE a == Head(script[who])
           yes == fsm \in {"TxAckFByte", "TxAckSByte"}
<1>1. /\ Busy(who) /\ a.do = "ack" /\ At(who, "ack")
      /\ Goto(who, IF ~yes /\ a.skip THEN u ELSE t)
  BY DEF ReceiveAck, At
<1>2. InOrder(t) /\ (t # <<>> => Follows(a, Head(t))) /\ a \in All /\ t \in Seq(All)
  BY <1>1, RestInOrder DEF TrackingInvariant
<1>3. InOrder(u) /\ (u # <<>> => Head(u).do \in Free)
  <2> HIDE DEF a
  <2>1. t # <<>> => Head(t).do \in Data \cup Opens
    BY <1>1, <1>2 DEF Follows, Data, Opens
  <2>2. InOrder(SkipData(t)) /\ (SkipData(t) # <<>> => Head(SkipData(t)).do \in Free)
    BY <1>2, <2>1, SkipFrees
  <2> QED
    BY <2>2
<1>4. a.h \in Addresses
  BY <1>1, <1>2, AddressOfStep
<1>5. Watched => Expects(script[who])
  BY <1>1 DEF TrackingInvariant, NextStepFits
<1>6. /\ Together'
      /\ Watched' => bus' = "active"
      /\ Watched' /\ ~yes => phase' \in {"IDLE", "HDR_MODE"}
      /\ Watched' /\ yes =>
             /\ a.h \notin Mon!ReadAddr => phase' \in {"CCC_BYTE", "WRITE_DATA"}
             /\ phase' = "CCC_BYTE" => a.h = "rsvdW" /\ fsm' = "RxSByte"
  BY <1>4, <1>5, AckMeets DEF TrackingInvariant
<1> HIDE DEF a, yes
<1>7. Watched' /\ t # <<>> => Expects(t)'
  <2>1. t # <<>> /\ Head(t).do # "byte" => Head(t).do \in Free
    BY <1>1, <1>2 DEF Follows, Closes, Opens, Free
  <2>2. t # <<>> /\ Head(t).do = "byte" =>
            /\ a.h \notin Mon!ReadAddr
            /\ a.h = "rsvdW" => Head(t).c \in Commands
    BY <1>1, <1>2 DEF Follows, Opens
  <2>3. CASE Head(t).do = "byte"
    BY <1>6, <2>2, <2>3 DEF Expects
  <2>4. CASE Head(t).do # "byte"
    BY <2>1, <2>4, FreeExpectsNothing
  <2> QED
    BY <2>3, <2>4
<1>8. u # <<>> => Expects(u)'
  BY <1>3, FreeExpectsNothing
<1>9. CASE Goto(who, t)
  BY <1>1, <1>2, <1>6, <1>7, <1>9, OnBusTracks DEF TrackingInvariant
<1>10. CASE Goto(who, u)
  BY <1>1, <1>3, <1>6, <1>8, <1>10, OnBusTracks DEF TrackingInvariant
<1> QED
  BY <1>1, <1>9, <1>10

LEMMA AddressTracks ==
    ASSUME BenchInvariant, TrackingInvariant, NEW who \in {"fg", "bg"},
           SendAddress(who) \/ (SendReserved(who) /\ ~Contends),
           NEW t, t = Tail(script[who])
    PROVE  TrackingInvariant'
<1> DEFINE a == Head(script[who])
<1>1. Busy(who) /\ a.do = "addr" /\ Goto(who, t) /\ At(who, "addr")
  BY DEF SendAddress, SendReserved, At, Go
<1>2. InOrder(t) /\ (t # <<>> => Head(t).do = "ack" /\ Head(t).h = a.h) /\ a \in All
  BY <1>1, RestInOrder DEF TrackingInvariant, Follows, Closes
<1>3. a.h \in Addresses
  BY <1>1, <1>2, AddressOfStep
<1>4. Watched => Expects(script[who])
  BY <1>1 DEF TrackingInvariant, NextStepFits
<1>5. /\ Together'
      /\ Watched' => /\ phase' \in {"ADDR_ACK", "HDR_MODE"} /\ bus' = "active"
                     /\ fsm' \in AddressStates => header' = FsmHeader(a.h)
  <2>1. CASE SendAddress(who)
    BY <1>3, <1>4, <2>1, OtherAddressMeets DEF TrackingInvariant
  <2>2. CASE SendReserved(who) /\ ~Contends
    <3>1. /\ a.h = "rsvdW" /\ AddressHeard(a.h) /\ Mon!MonAddress(a.h, Drive)
          /\ clash' = clash
      BY <2>2 DEF SendReserved, ghosts
    <3>2. Watched => phase \in {"ADDR_BITS", "HDR_MODE"} /\ bus = "active"
      BY <1>1, <1>4 DEF Expects
    <3> QED
      BY <1>3, <2>2, <3>1, <3>2, AddressMeets DEF TrackingInvariant
  <2> QED
    BY <2>1, <2>2
<1> HIDE DEF a
<1>6. Watched' /\ t # <<>> => Expects(t)'
  BY <1>2, <1>5 DEF Expects
<1> QED
  BY <1>1, <1>2, <1>5, <1>6, OnBusTracks DEF TrackingInvariant

LEMMA BytesTrack ==
    ASSUME BenchInvariant, TrackingInvariant, NEW who \in {"fg", "bg"},
           SendByte(who) \/ SendTbit(who),
           NEW t, t = Tail(script[who])
    PROVE  TrackingInvariant'
<1> DEFINE a == Head(script[who])
<1>1. Busy(who) /\ a.do \in {"byte", "tbit"} /\ Goto(who, t) /\ At(who, a.do)
  BY DEF SendByte, SendTbit, At, Go
<1>2. InOrder(t) /\ (t # <<>> => Follows(a, Head(t))) /\ Fits(a)
  BY <1>1, RestInOrder DEF TrackingInvariant
<1>3. Watched => Expects(script[who])
  BY <1>1 DEF TrackingInvariant, NextStepFits
<1>4. CASE SendByte(who)
  <2>1. a.do = "byte"
    BY <1>4 DEF SendByte, At
  <2>2. /\ Together'
        /\ Watched' => /\ bus' = "active"
                       /\ phase' \in {"IDLE", "HDR_MODE", "WRITE_TBIT", "CCC_TBIT"}
                       /\ phase' = "CCC_TBIT" =>
                             a.c \in Commands /\ (a.c = "ENTHDR" => nth' = 0)
    BY <1>3, <1>4, ByteMeets DEF TrackingInvariant
  <2> HIDE DEF a
  <2>3. t # <<>> => Head(t).do = "tbit" /\ Head(t).c = a.c
    BY <1>2, <2>1 DEF Follows, Closes
  <2>4. Watched' /\ t # <<>> => Expects(t)'
    BY <2>2, <2>3 DEF Expects
  <2> QED
    BY <1>1, <1>2, <2>2, <2>4, OnBusTracks DEF TrackingInvariant
<1>5. CASE SendTbit(who)
  <2>1. a.do = "tbit"
    BY <1>5 DEF SendTbit, At
  <2>2. /\ Together'
        /\ Watched' => /\ bus' = "active"
                       /\ phase' \in {"IDLE", "HDR_MODE", "WRITE_DATA", "CCC_BYTE"}
                       /\ phase' = "CCC_BYTE" => a.c \in Commands
    BY <1>2, <1>3, <1>5, TbitMeets DEF TrackingInvariant
  <2> HIDE DEF a
  <2>3. t # <<>> /\ Head(t).do # "byte" => Head(t).do \in Free
    BY <1>2, <2>1 DEF Follows, Opens, Free
  <2>4. t # <<>> /\ Head(t).do = "byte" =>
            (a.c \in Commands => Head(t).c \in Commands \ {"ENTHDR"})
    BY <1>2, <2>1 DEF Follows, Opens, PrivateBytes
  <2>5. CASE Head(t).do = "byte"
    BY <1>1, <1>2, <2>2, <2>4, <2>5, OnBusTracks DEF TrackingInvariant, Expects
  <2>6. CASE Head(t).do # "byte"
    BY <1>1, <1>2, <2>2, <2>3, <2>6, OnBusTracks, FreeExpectsNothing DEF TrackingInvariant
  <2> QED
    BY <2>5, <2>6
<1> QED
  BY <1>4, <1>5

LEMMA OneInOrder == ASSUME NEW e \in All, e.do \in Free PROVE InOrder(<<e>>) /\ <<e>> \in Seq(All)
<1>1. Fits(e)
  BY DEF Fits, Free, Opens
<1>2. <<e>> \in Seq(All) /\ Len(<<e>>) = 1 /\ <<e>>[1] = e
  OBVIOUS
<1> QED
  BY <1>1, <1>2 DEF InOrder

LEMMA ReadsTrack ==
    ASSUME BenchInvariant, TrackingInvariant, NEW who \in {"fg", "bg"},
           ReadByte(who) \/ ReadTbit(who)
    PROVE  TrackingInvariant'
<1> DEFINE a == Head(script[who])
<1> PICK t : t = Tail(script[who])
  OBVIOUS
<1>1. Busy(who) /\ a.do \in {"read", "readTbit"} /\ At(who, a.do)
  BY DEF ReadByte, ReadTbit, At
<1>2. /\ InOrder(t) /\ (t # <<>> => Follows(a, Head(t))) /\ a \in All /\ t \in Seq(All)
      /\ a.k \in Nat
  BY <1>1, RestInOrder, ReadCarries DEF TrackingInvariant, All
<1>3. t # <<>> => Head(t).do \in Free /\ Head(t).do \in Opens /\ Head(t) = t[1]
  BY <1>1, <1>2 DEF Follows, Free
<1>4. Together'
  BY ReadMeets DEF TrackingInvariant
<1>5. \A k \in Nat : /\ read(k) \in All /\ read(k).do \in Free \cap Closes
                     /\ readTbit(k) \in All /\ readTbit(k).do \in Free \cap Closes
  BY StepFacts DEF All, Free, Closes, read, readTbit
<1>6. ASSUME NEW e \in All, e.do \in Free \cap Closes, Goto(who, <<e>> \o t)
      PROVE  TrackingInvariant'
  <2>1. InOrder(<<e>>) /\ <<e>> \in Seq(All) /\ Len(<<e>>) = 1 /\ <<e>>[1] = e
    BY <1>6, OneInOrder
  <2>2. t # <<>> => Follows(e, t[1])
    BY <1>3, <1>6, ClosedThenOpen
  <2> PICK s : s = <<e>> \o t
    OBVIOUS
  <2>3. InOrder(s)
    BY <1>2, <2>1, <2>2, InOrderJoin
  <2>4. Head(s) = e
    BY <1>2
  <2>5. Expects(s)'
    BY <1>6, <2>4, FreeExpectsNothing
  <2> HIDE DEF a
  <2> QED
    BY <1>1, <1>4, <1>6, <2>3, <2>5, OnBusTracks DEF TrackingInvariant
<1>7. ASSUME Goto(who, t) PROVE TrackingInvariant'
  <2>1. t # <<>> => Expects(t)'
    BY <1>3, FreeExpectsNothing
  <2> HIDE DEF a
  <2> QED
    BY <1>1, <1>2, <1>4, <1>7, <2>1, OnBusTracks DEF TrackingInvariant
<1>8. CASE ReadByte(who)
  BY <1>2, <1>5, <1>6, <1>8 DEF ReadByte
<1>9. CASE ReadTbit(who)
  <2>1. CASE Goto(who, Tail(script[who]))
    BY <1>7, <2>1
  <2>2. CASE a.k > 1 /\ Goto(who, <<read(a.k - 1)>> \o Tail(script[who]))
    <3>1. a.k - 1 \in Nat
      BY <1>2, <2>2
    <3> QED
      BY <1>5, <1>6, <2>2, <3>1
  <2> QED
    BY <1>9, <2>1, <2>2 DEF ReadTbit
<1> QED
  BY <1>8, <1>9

LEMMA AnswerTracks ==
    ASSUME BenchInvariant, TrackingInvariant, NEW who \in {"fg", "bg"}, AnswerIbi(who),
           NEW t, t = Tail(script[who]), NEW u, u = SkipData(t)
    PROVE  TrackingInvariant'
<1> DEFINE a == Head(script[who])
<1>1. Busy(who) /\ a.do = "ibiAck" /\ At(who, "ibiAck") /\ (Goto(who, t) \/ Goto(who, u))
  BY DEF AnswerIbi, At
<1>2. InOrder(t) /\ (t # <<>> => Follows(a, Head(t))) /\ t \in Seq(All)
  BY <1>1, RestInOrder DEF TrackingInvariant
<1> HIDE DEF a
<1>3. t # <<>> => Head(t).do \in Free
  BY <1>1, <1>2 DEF Follows, Closes, Free
<1>4. InOrder(u) /\ (u # <<>> => Head(u).do \in Free)
  <2>1. t # <<>> => Head(t).do \in Data \cup Opens
    BY <1>1, <1>2 DEF Follows, Data, Opens
  <2>2. InOrder(SkipData(t)) /\ (SkipData(t) # <<>> => Head(SkipData(t)).do \in Free)
    BY <1>2, <2>1, SkipFrees
  <2> QED
    BY <2>2
<1>5. Together'
  BY AnswerMeets DEF TrackingInvariant
<1>6. (t # <<>> => Expects(t)') /\ (u # <<>> => Expects(u)')
  BY <1>3, <1>4, FreeExpectsNothing
<1> QED
  BY <1>1, <1>2, <1>4, <1>5, <1>6, OnBusTracks DEF TrackingInvariant

\* The target's IBI wins a watched address byte.
LEMMA LostTracks ==
    ASSUME BenchInvariant, TrackingInvariant, NEW who \in {"fg", "bg"}, SendReserved(who), Contends
    PROVE  TrackingInvariant'
<1> DEFINE i == HandleIbiInline(chain, limit, FALSE)
<1> PICK s : s = i \o <<[do |-> "retry"]>>
  OBVIOUS
<1>1. At(who, "addr") /\ Goto(who, s) /\ IbiAddrSent /\ Mon!MonAddress("mainR", Drive)
      /\ clash' = clash
  BY DEF SendReserved, ArbitrationLost, ghosts
<1>2. /\ i \in Seq(All) /\ InOrder(i) /\ i # <<>> /\ i[Len(i)].do \in Closes
      /\ i[1].do = "ibiAck"
  BY InlineInOrder DEF BenchInvariant, KnobTypeOK
<1>3. [do |-> "retry"] \in All
  BY StepFacts DEF All
<1> HIDE DEF i
<1>4. InOrder(s) /\ Head(s).do = "ibiAck"
  BY <1>2, <1>3, ThenOne DEF Opens
<1>5. Expects(s)'
  BY <1>4, FreeExpectsNothing DEF Free
<1>6. Together'
  <2>1. /\ bus' = bus /\ retryNum' = retryNum /\ active' = active
        /\ alarm' = "none" => alarm = "none"
        /\ Watched => alarm' = alarm
        /\ Watched => (PhaseFollowsState' /\ phase' = "IBI_ADDR_ACK" /\ fsm' = "IbiReadAck")
    BY <1>1, IbiAddressMeets DEF TrackingInvariant
  <2>2. Watched => bus = "active"
    BY DrivesAsExpected DEF TrackingInvariant, Together, SamePlace
  <2> QED
    BY <1>1, <2>1, <2>2
       DEF TrackingInvariant, Together, BetweenFrames, SamePlace, Watched, AddressStates
<1> QED
  BY <1>1, <1>4, <1>5, <1>6, OnBusTracks DEF TrackingInvariant

\* Every step on the bus.
LEMMA BusTracks ==
    ASSUME BenchInvariant, TrackingInvariant, NEW who \in {"fg", "bg"}, Bus(who)
    PROVE  TrackingInvariant'
<1>1. CASE SendStart(who)
  BY <1>1, StartTracks
<1>2. CASE SendStop(who)
  BY <1>2, StopTracks
<1>3. CASE SendReserved(who)
  BY <1>3, AddressTracks, LostTracks
<1>4. CASE SendAddress(who)
  BY <1>4, AddressTracks
<1>5. CASE ReceiveAck(who)
  BY <1>5, AckTracks
<1>6. CASE SendByte(who) \/ SendTbit(who)
  BY <1>6, BytesTrack
<1>7. CASE ReadByte(who) \/ ReadTbit(who)
  BY <1>7, ReadsTrack
<1>8. CASE AnswerIbi(who)
  BY <1>8, AnswerTracks
<1> QED
  BY <1>1, <1>2, <1>3, <1>4, <1>5, <1>6, <1>7, <1>8 DEF Bus

-----------------------------------------------------------------------------
(* Steps that leave the bus alone. *)

\* The machines rest, and one coroutine has a new script whose first step
\* expects nothing.
LEMMA NewScriptTracks ==
    ASSUME BenchInvariant, TrackingInvariant, UNCHANGED <<fsmVars, monVars, clash>>,
           NEW who \in {"fg", "bg"}, NEW s, InOrder(s), s # <<>> => Head(s).do \in Free,
           Goto(who, s)
    PROVE  TrackingInvariant'
<1>1. script'[who] = s /\ \A w \in {"fg", "bg"} \ {who} : script'[w] = script[w]
  BY DEF Goto, BenchInvariant, ScriptTypeOK
<1>2. ScriptsInOrder'
  BY <1>1 DEF TrackingInvariant, ScriptsInOrder
<1>3. Watched' <=> Watched
  BY DEF Watched, monVars
<1>4. ASSUME NEW w \in {"fg", "bg"}, (Watched /\ Busy(w))' PROVE Expects(script[w])'
  <2>1. CASE w = who
    BY <1>1, <1>4, <2>1 DEF Expects, Busy, Free, Opens
  <2>2. CASE w # who
    <3>1. Expects(script[w])
      BY <1>1, <1>3, <1>4, <2>2 DEF TrackingInvariant, NextStepFits, Busy
    <3> QED
      BY <1>1, <2>2, <3>1 DEF Expects, fsmVars, monVars, selVars, AddressStates
  <2> QED
    BY <2>1, <2>2
<1>5. NextStepFits'
  BY <1>4 DEF NextStepFits
<1>6. Together'
  BY DEF TrackingInvariant, Together, SamePlace, BetweenFrames, PhaseFollowsState, Watched, fsmVars,
         selVars, csrVars, monVars, FsmHeader
<1> QED
  BY <1>2, <1>5, <1>6 DEF TrackingInvariant

LEMMA RestingTracks ==
    ASSUME TrackingInvariant, UNCHANGED <<fsmVars, monVars, clash, script>>
    PROVE  TrackingInvariant'
<1>1. Together'
  BY DEF TrackingInvariant, Together, SamePlace, BetweenFrames, PhaseFollowsState, Watched, fsmVars,
         selVars, csrVars, monVars, FsmHeader
<1>2. ASSUME NEW w \in {"fg", "bg"}, (Watched /\ Busy(w))' PROVE Expects(script[w])'
  <2>1. Expects(script[w])
    BY <1>2 DEF TrackingInvariant, NextStepFits, Watched, Busy, monVars
  <2> QED
    BY <2>1 DEF Expects, fsmVars, monVars, selVars, AddressStates
<1>3. NextStepFits'
  BY <1>2 DEF NextStepFits
<1>4. ScriptsInOrder'
  BY DEF TrackingInvariant, ScriptsInOrder
<1> QED
  BY <1>1, <1>3, <1>4 DEF TrackingInvariant

\* A script that is over.
LEMMA OverInOrder == InOrder(<<>>)
  BY NoSteps DEF Piece

\* A series of frames, and how the call ends.
LEMMA CallInOrder ==
    ASSUME NEW o \in Ops, NEW d \in {"give", "hold"}
    PROVE  LET s == Script(o) \o <<[do |-> d]>>
           IN  s \in Seq(All) /\ InOrder(s) /\ s # <<>> /\ s[1].do = "start" /\ Head(s).do = "start"
<1> DEFINE p == Script(o)
           e == [do |-> d]
           s == p \o <<e>>
<1>1. Frames(p)
  BY ScriptFrames
<1>2. e \in All /\ e.do \in Opens
  BY StepFacts DEF All, Opens
<1> HIDE DEF p, e
<1>3. p \in Seq(All) /\ InOrder(p) /\ p # <<>> /\ p[Len(p)].do \in Closes /\ p[1].do = "start"
  BY <1>1 DEF Frames, Piece
<1>4. InOrder(s)
  BY <1>2, <1>3, ThenOne
<1>5. s \in Seq(All) /\ s # <<>> /\ s[1] = p[1] /\ Head(s) = s[1]
  BY <1>2, <1>3
<1> HIDE DEF s
<1>6. s \in Seq(All) /\ InOrder(s) /\ s # <<>> /\ s[1].do = "start" /\ Head(s).do = "start"
  BY <1>3, <1>4, <1>5
<1> QED
  BY <1>6 DEF s, p, e

LEMMA RetryTracks ==
    ASSUME BenchInvariant, TrackingInvariant, Retry PROVE TrackingInvariant'
<1>1. UNCHANGED <<fsmVars, monVars, clash>>
  BY DEF Retry, ghosts
<1>2. ASSUME NEW d \in {"give", "hold"}, Goto("fg", <<[do |-> d]>>) PROVE TrackingInvariant'
  <2> DEFINE e == [do |-> d]
             s == <<e>>
  <2>1. e \in All /\ e.do \in Free
    BY StepFacts DEF All, Free, Opens
  <2> HIDE DEF e
  <2>2. InOrder(s) /\ Head(s) = e
    BY <2>1, OneInOrder
  <2>3. Goto("fg", s)
    BY <1>2 DEF e
  <2> HIDE DEF s
  <2> QED
    BY <1>1, <2>1, <2>2, <2>3, NewScriptTracks
<1>3. ASSUME op.kind \in {"write", "read", "ccc"}, Goto("fg", Script(op) \o <<[do |-> "give"]>>)
      PROVE  TrackingInvariant'
  <2>1. op \in Ops
    BY <1>3 DEF BenchInvariant, KnobTypeOK, NoOp
  <2> DEFINE s == Script(op) \o <<[do |-> "give"]>>
  <2>2. InOrder(s) /\ Head(s).do = "start"
    BY <2>1, CallInOrder
  <2>3. Goto("fg", s)
    BY <1>3
  <2> HIDE DEF s
  <2> QED
    BY <1>1, <2>2, <2>3, NewScriptTracks DEF Free, Opens
<1> QED
  BY <1>2, <1>3 DEF Retry

LEMMA BeginCallTracks ==
    ASSUME BenchInvariant, TrackingInvariant, BeginCall PROVE TrackingInvariant'
<1> PICK o \in Ops :
      Goto("fg", <<[do |-> "take"]>> \o Script(o)
                 \o <<[do |-> IF o.kind \in {"te0", "te1"} THEN "hold" ELSE "give"]>>)
  BY DEF BeginCall
<1> DEFINE d == IF o.kind \in {"te0", "te1"} THEN "hold" ELSE "give"
           t == [do |-> "take"]
           r == Script(o) \o <<[do |-> d]>>
           s == <<t>> \o r
<1>1. d \in {"give", "hold"}
  OBVIOUS
<1>2. r \in Seq(All) /\ InOrder(r) /\ r # <<>> /\ r[1].do = "start"
  BY <1>1, CallInOrder
<1>3. t \in All /\ t.do = "take"
  BY StepFacts DEF All
<1>4. Goto("fg", s)
  <2>1. Script(o) \in Seq(All) /\ <<t>> \in Seq(All) /\ <<[do |-> d]>> \in Seq(All)
    <3>1. Script(o) \in Seq(All)
      BY ScriptFrames DEF Frames, Piece
    <3>2. [do |-> d] \in All
      BY <1>1, StepFacts DEF All
    <3> HIDE DEF t, d
    <3> QED
      BY <1>3, <3>1, <3>2
  <2>2. (<<t>> \o Script(o)) \o <<[do |-> d]>> = s
    BY <2>1, JoinAssociative
  <2> QED
    BY <2>2
<1> HIDE DEF r, t
<1>5. <<t>> \in Seq(All) /\ InOrder(<<t>>) /\ Len(<<t>>) = 1 /\ <<t>>[1] = t
  BY <1>3, OneInOrder DEF Free
<1>6. Follows(t, r[1])
  BY <1>2, <1>3 DEF Follows
<1>7. InOrder(s)
  BY <1>2, <1>5, <1>6, InOrderJoin
<1>8. Head(s) = t
  BY <1>2, <1>3
<1>9. UNCHANGED <<fsmVars, monVars, clash>>
  BY DEF BeginCall, ghosts
<1> HIDE DEF s
<1> QED
  BY <1>3, <1>4, <1>7, <1>8, <1>9, NewScriptTracks DEF Free

LEMMA RecoverTracks ==
    ASSUME BenchInvariant, TrackingInvariant, Recover PROVE TrackingInvariant'
<1> DEFINE g == [do |-> "give"]
           x == [do |-> "hdrExit"]
<1>1. g \in All /\ x \in All /\ stop \in All /\ g.do = "give" /\ x.do = "hdrExit" /\ stop.do = "stop"
  BY StepFacts DEF All, stop
<1>2. UNCHANGED <<fsmVars, monVars, clash>>
  BY DEF Recover, ghosts
<1>3. Goto("fg", <<x, stop>> \o <<g>>) \/ Goto("fg", <<>> \o <<g>>)
  BY DEF Recover
<1> HIDE DEF g, x
<1>4. CASE Goto("fg", <<>> \o <<g>>)
  <2>1. <<>> \o <<g>> = <<g>>
    BY <1>1
  <2>2. InOrder(<<g>>) /\ Head(<<g>>) = g
    BY <1>1, OneInOrder DEF Free, Opens
  <2> PICK s : s = <<g>>
    OBVIOUS
  <2> QED
    BY <1>1, <1>2, <1>4, <2>1, <2>2, NewScriptTracks DEF Free, Opens
<1>5. CASE Goto("fg", <<x, stop>> \o <<g>>)
  <2>1. Fits(x) /\ Fits(stop) /\ Fits(g) /\ Follows(x, stop) /\ Follows(stop, g)
    BY <1>1 DEF Fits, Follows, Closes, Opens
  <2>2. InOrder(<<x>> \o <<stop, g>>)
    BY <1>1, <2>1, ThreeInOrder
  <2>3. <<x, stop>> \o <<g>> = <<x>> \o <<stop, g>> /\ Head(<<x>> \o <<stop, g>>) = x
    OBVIOUS
  <2> PICK s : s = <<x>> \o <<stop, g>>
    OBVIOUS
  <2> QED
    BY <1>1, <1>2, <1>5, <2>2, <2>3, NewScriptTracks DEF Free
<1> QED
  BY <1>3, <1>4, <1>5

LEMMA TakeTracks ==
    ASSUME BenchInvariant, TrackingInvariant, TakeBusControl PROVE TrackingInvariant'
<1> PICK t : t = Tail(script["fg"])
  OBVIOUS
<1>1. Busy("fg") /\ Head(script["fg"]).do = "take" /\ Goto("fg", t)
  BY DEF TakeBusControl, At, Go
<1>2. InOrder(t) /\ (t # <<>> => Follows(Head(script["fg"]), Head(t)))
  BY <1>1, RestInOrder DEF TrackingInvariant
<1>3. t # <<>> => Head(t).do \in Free
  BY <1>1, <1>2 DEF Follows, Closes, Free, Opens
<1>4. UNCHANGED <<fsmVars, monVars, clash>>
  BY DEF TakeBusControl, ghosts
<1> QED
  BY <1>1, <1>2, <1>3, <1>4, NewScriptTracks

LEMMA EndCallTracks ==
    ASSUME BenchInvariant, TrackingInvariant, EndCall PROVE TrackingInvariant'
<1>1. Busy("fg") /\ Head(script["fg"]).do \in {"give", "hold"}
  BY DEF EndCall, At
<1>2. Head(script["fg"]) \in Ends
  BY <1>1, RestTyped, StepIsNoEnd
<1>3. Tail(script["fg"]) = <<>>
  BY <1>1, <1>2, TailEnds DEF BenchInvariant, ScriptTypeOK, ScriptsOf, Busy
<1>4. Goto("fg", <<>>)
  BY <1>3 DEF EndCall, Go
<1>5. UNCHANGED <<fsmVars, monVars, clash>>
  BY DEF EndCall
<1> QED
  BY <1>4, <1>5, OverInOrder, NewScriptTracks

\* The background monitor takes over an IBI whose START it has seen.
LEMMA SeesStartTracks ==
    ASSUME BenchInvariant, TrackingInvariant, MonitorSeesStart PROVE TrackingInvariant'
<1> PICK s : s = HandleIbiInline(chain, limit, TRUE)
  OBVIOUS
<1>1. /\ Goto("bg", s) /\ IbiAddrSent /\ Mon!MonAddress("mainR", Drive)
      /\ clash' = clash /\ Contends
  BY DEF MonitorSeesStart, ghosts, Contends
<1>2. s \in Seq(All) /\ InOrder(s) /\ s # <<>> /\ s[1].do = "ibiAck"
  BY InlineInOrder DEF BenchInvariant, KnobTypeOK
<1>3. Head(s).do = "ibiAck"
  <2>1. Head(s) = s[1]
    BY <1>2
  <2> QED
    BY <1>2, <2>1
<1>4. script'["bg"] = s /\ script'["fg"] = script["fg"]
  BY <1>1 DEF Goto, BenchInvariant, ScriptTypeOK
<1>5. ScriptsInOrder'
  BY <1>2, <1>4 DEF TrackingInvariant, ScriptsInOrder
<1>6. Busy("fg") => Head(script["fg"]).do = "take"
  BY DEF MonitorSeesStart, BenchInvariant, DisabledInCall, MonitorWaits, At, Busy
<1>7. Together'
  <2>1. /\ bus' = bus /\ retryNum' = retryNum /\ active' = active
        /\ alarm' = "none" => alarm = "none"
        /\ Watched => alarm' = alarm
        /\ Watched => (PhaseFollowsState' /\ phase' = "IBI_ADDR_ACK" /\ fsm' = "IbiReadAck")
    BY <1>1, IbiAddressMeets DEF TrackingInvariant
  <2>2. Watched => bus = "active"
    BY <1>1, DrivesAsExpected DEF TrackingInvariant, Together, SamePlace
  <2> QED
    BY <1>1, <2>1, <2>2
       DEF TrackingInvariant, Together, BetweenFrames, SamePlace, Watched, AddressStates
<1>8. Expects(s)'
  BY <1>3, FreeExpectsNothing DEF Free
<1>9. ASSUME NEW w \in {"fg", "bg"}, (Watched /\ Busy(w))' PROVE Expects(script[w])'
  <2>1. CASE w = "bg"
    BY <1>3, <1>4, <2>1 DEF Expects
  <2>2. CASE w = "fg"
    BY <1>4, <1>6, <1>9, <2>2 DEF Expects, Busy
  <2> QED
    BY <2>1, <2>2
<1>10. NextStepFits'
  BY <1>9 DEF NextStepFits
<1> QED
  BY <1>5, <1>7, <1>10 DEF TrackingInvariant

\* Nothing on the bus, and no script, changes.
LEMMA AsideTracks ==
    ASSUME BenchInvariant, TrackingInvariant,
           MonitorWakes \/ MonitorLeaves \/ MonitorLoops \/ SetKnobs \/ OfferIbi \/ UNCHANGED vars
    PROVE  TrackingInvariant'
<1>1. UNCHANGED <<fsmVars, monVars, clash, script>>
  BY DEF MonitorWakes, MonitorLeaves, MonitorLoops, SetKnobs, OfferIbi, vars, ghosts
<1> QED
  BY <1>1, RestingTracks

\* The target begins an IBI where no coroutine is in a frame.
LEMMA BeginIbiTracks ==
    ASSUME BenchInvariant, TrackingInvariant, BeginIbi PROVE TrackingInvariant'
<1>1. Together' /\ alarm' = alarm /\ clash' = clash /\ bus # "active"
  BY BeginIbiMeets DEF TrackingInvariant
<1>2. script' = script
  BY DEF BeginIbi
<1>3. ASSUME NEW w \in {"fg", "bg"}, (Watched /\ Busy(w))' PROVE Expects(script[w])'
  <2>1. Expects(script[w])
    BY <1>1, <1>2, <1>3 DEF TrackingInvariant, NextStepFits, Watched, Busy
  <2> QED
    BY <1>1, <1>2, <2>1 DEF Expects
<1>4. NextStepFits'
  BY <1>3 DEF NextStepFits
<1>5. ScriptsInOrder'
  BY <1>2 DEF TrackingInvariant, ScriptsInOrder
<1> QED
  BY <1>1, <1>4, <1>5 DEF TrackingInvariant

LEMMA TargetTracks ==
    ASSUME BenchInvariant, TrackingInvariant, TargetMoves PROVE TrackingInvariant'
<1>1. /\ Together' /\ UNCHANGED monVars /\ clash' = clash
      /\ bus = "active" => bus' = "active"
      /\ fsm = "RxSByte" => fsm' = "RxSByte"
      /\ Watched /\ fsm' \in AddressStates => fsm \in AddressStates /\ header' = header
  BY TargetMeets DEF TrackingInvariant
<1>2. script' = script
  BY DEF TargetMoves
<1>3. Watched' <=> Watched
  BY <1>1 DEF Watched, monVars
<1>4. phase' = phase /\ nth' = nth
  BY <1>1 DEF monVars
<1>5. ASSUME NEW w \in {"fg", "bg"}, (Watched /\ Busy(w))' PROVE Expects(script[w])'
  <2>1. Expects(script[w]) /\ Watched
    BY <1>2, <1>3, <1>5 DEF TrackingInvariant, NextStepFits, Busy
  <2> QED
    BY <1>1, <1>2, <1>4, <2>1 DEF Expects
<1>6. NextStepFits'
  BY <1>5 DEF NextStepFits
<1>7. ScriptsInOrder'
  BY <1>2 DEF TrackingInvariant, ScriptsInOrder
<1> QED
  BY <1>1, <1>6, <1>7 DEF TrackingInvariant

-----------------------------------------------------------------------------
(* The target is followed. *)

LEMMA TrackingInit == ASSUME Init PROVE TrackingInvariant
<1>1. InOrder(<<>>) /\ script = [who \in {"fg", "bg"} |-> <<>>]
  BY OverInOrder DEF Init
<1>2. ScriptsInOrder /\ NextStepFits
  BY <1>1 DEF ScriptsInOrder, NextStepFits, Busy
<1>3. retryNum = 7 /\ fsm = "Idle" /\ bus = "available" /\ clash = FALSE
  BY RetriesAssumption DEF Init, FsmInit
<1>4. phase = "IDLE" /\ active = FALSE /\ repeated = FALSE
  BY DEF Init, Mon!MonInit
<1>5. Together
  BY <1>3, <1>4
     DEF Together, SamePlace, BetweenFrames, PhaseFollowsState, FsmStates, AddressStates
<1> QED
  BY <1>2, <1>5 DEF TrackingInvariant

LEMMA TrackingNext ==
    ASSUME BenchInvariant, TrackingInvariant, [Next]_vars PROVE TrackingInvariant'
<1>1. CASE Test
  BY <1>1, BeginCallTracks, RecoverTracks, AsideTracks DEF Test
<1>2. CASE Coroutines
  <2>1. CASE \E who \in {"fg", "bg"} : Bus(who)
    BY <2>1, BusTracks
  <2>2. CASE SendHdrExit
    BY <2>2, StopTracks
  <2>3. CASE Retry \/ TakeBusControl \/ EndCall
    BY <2>3, RetryTracks, TakeTracks, EndCallTracks
  <2>4. CASE MonitorWakes \/ MonitorLeaves \/ MonitorSeesStart \/ MonitorLoops
    BY <2>4, SeesStartTracks, AsideTracks
  <2> QED
    BY <1>2, <2>1, <2>2, <2>3, <2>4 DEF Coroutines
<1>3. CASE OfferIbi \/ BeginIbi \/ TargetMoves \/ UNCHANGED vars
  BY <1>3, AsideTracks, BeginIbiTracks, TargetTracks
<1> QED
  BY <1>1, <1>2, <1>3 DEF Next

\* While no alarm is raised and the frame has seen no unwatched clash, the
\* scripts keep the order of a frame, the monitor's phase is one the target's
\* state allows, and the bus is as each script's next step expects it.
THEOREM TargetIsFollowed == Spec => []TrackingInvariant
<1>1. Init => TrackingInvariant
  BY TrackingInit
<1>2. BenchInvariant /\ TrackingInvariant /\ [Next]_vars => TrackingInvariant'
  BY TrackingNext
<1> QED
  BY <1>1, <1>2, WhoHasTheBus, PTL DEF Spec

\* Which phase belongs to which state says that they agree.
LEMMA FollowedAgrees == ASSUME TrackingInvariant PROVE TrackersAgree
<1> SUFFICES ASSUME Watched PROVE TrackersAgree
  BY DEF TrackersAgree, Watched
<1>1. PhaseFollowsState /\ SamePlace /\ Together
  BY DEF TrackingInvariant, Together, SamePlace
<1>2. Contends => phase = "ADDR_BITS" /\ ~repeated
  BY <1>1, DrivesAsExpected DEF SamePlace, PhaseFollowsState
<1>3. fsm \in FsmStates \ {"DoneCCC"}
  BY <1>1 DEF PhaseFollowsState
<1>4. /\ (phase = "WRITE_DATA") = (fsm = "RxPWriteData")
      /\ (phase = "WRITE_TBIT") = (fsm = "RxPWriteTbit")
      /\ (phase = "IBI_ADDR_ACK") = (fsm = "IbiReadAck")
  BY <1>1, <1>3 DEF PhaseFollowsState, FsmStates
<1>5. /\ fsm = "TxPReadData" => phase = "READ_DATA"
      /\ phase = "READ_DATA" => fsm \in {"TxPReadData", "WaitRestart"}
      /\ fsm = "IbiSendData" => phase \in {"IBI_MDB", "IBI_DATA"}
      /\ phase \in {"IBI_MDB", "IBI_DATA"} => fsm \in {"IbiSendData", "WaitRestart"}
      /\ fsm \in {"TxAckFByte", "TxAckSByte"} => phase = "ADDR_ACK"
      /\ phase = "CCC_BYTE" => fsm \in {"RxSByte", "DoCCC", "InHDRMode"}
  BY <1>1, <1>3 DEF PhaseFollowsState, FsmStates
<1> QED
  BY <1>2, <1>4, <1>5 DEF TrackersAgree

\* The protocol monitor, which knows the bus only, and the target's state
\* machine agree on what is going on, for any calls, chained commands, limits
\* and retries (_on_addr_ack_fall, _on_start_detected).
THEOREM TrackersInStep == Spec => []TrackersAgree
  BY TargetIsFollowed, FollowedAgrees, PTL

\* Once it is raised an alarm stays what it is.
LEMMA AlarmStays == ASSUME alarm # "none", [Next]_vars PROVE alarm' = alarm
<1>1. CASE Test \/ OfferIbi \/ UNCHANGED vars
  BY <1>1 DEF Test, BeginCall, Recover, SetKnobs, OfferIbi, vars, monVars
<1>2. CASE BeginIbi
  BY <1>2 DEF BeginIbi, Mon!MonStart, Mon!monVars
<1>3. CASE TargetMoves
  BY <1>3 DEF TargetMoves, monVars
<1>4. CASE Retry \/ TakeBusControl \/ EndCall \/ MonitorWakes \/ MonitorLeaves \/ MonitorLoops
           \/ SendHdrExit
  BY <1>4 DEF Retry, TakeBusControl, EndCall, MonitorWakes, MonitorLeaves, MonitorLoops,
              SendHdrExit, monVars
<1>5. CASE MonitorSeesStart
  BY <1>5 DEF MonitorSeesStart, Mon!MonAddress, Mon!Judge
<1>6. ASSUME NEW who \in {"fg", "bg"}, Bus(who) PROVE alarm' = alarm
  <2>1. CASE SendStart(who) \/ SendStop(who)
    BY <2>1 DEF SendStart, SendStop, monVars, Mon!MonStart, Mon!MonStop, Mon!monVars
  <2>2. CASE SendReserved(who) \/ SendAddress(who)
    BY <2>2 DEF SendReserved, SendAddress, Mon!MonAddress, Mon!Judge
  <2>3. CASE ReceiveAck(who) \/ AnswerIbi(who)
    BY <2>3 DEF ReceiveAck, AnswerIbi, Mon!MonAck
  <2>4. CASE SendByte(who) \/ SendTbit(who)
    BY <2>4 DEF SendByte, SendTbit, Mon!MonByte, Mon!MonTbit, Mon!Judge
  <2>5. CASE ReadByte(who) \/ ReadTbit(who)
    BY <2>5 DEF ReadByte, ReadTbit, Mon!MonByte, Mon!MonTbit, Mon!MonStart, Mon!monVars, Mon!Judge
  <2> QED
    BY <1>6, <2>1, <2>2, <2>3, <2>4, <2>5 DEF Bus
<1> QED
  BY <1>1, <1>2, <1>3, <1>4, <1>5, <1>6 DEF Next, Coroutines

\* As long as the two have not lost each other no step raises one.
LEMMA NoneRaised ==
    ASSUME BenchInvariant, TrackingInvariant, Watched, [Next]_vars PROVE alarm' = alarm
<1>1. Together
  BY DEF TrackingInvariant
<1>2. CASE Test \/ OfferIbi \/ UNCHANGED vars \/ TargetMoves
  BY <1>2 DEF Test, BeginCall, Recover, SetKnobs, OfferIbi, TargetMoves, vars, monVars
<1>3. CASE BeginIbi
  BY <1>1, <1>3, BeginIbiMeets
<1>4. CASE Retry \/ TakeBusControl \/ EndCall \/ MonitorWakes \/ MonitorLeaves \/ MonitorLoops
           \/ SendHdrExit
  BY <1>4 DEF Retry, TakeBusControl, EndCall, MonitorWakes, MonitorLeaves, MonitorLoops,
              SendHdrExit, monVars
<1>5. CASE MonitorSeesStart
  BY <1>1, <1>5, IbiAddressMeets DEF MonitorSeesStart, Contends
<1>6. ASSUME NEW who \in {"fg", "bg"}, Bus(who) PROVE alarm' = alarm
  <2>1. Busy(who) => Expects(script[who])
    BY DEF TrackingInvariant, NextStepFits
  <2>2. CASE SendStart(who) \/ SendStop(who)
    BY <1>1, <2>2, StartMeets, StopMeets
  <2>3. CASE SendReserved(who)
    BY <1>1, <2>3, DrivesAsExpected DEF SendReserved, Mon!MonAddress, Mon!Judge
  <2>4. CASE SendAddress(who)
    BY <1>1, <2>4, DrivesAsExpected DEF SendAddress, Mon!MonAddress, Mon!Judge
  <2>5. CASE ReceiveAck(who)
    <3>1. phase \in {"ADDR_ACK", "HDR_MODE"}
      BY <2>1, <2>5 DEF ReceiveAck, Expects, At
    <3>2. Drive \in Mon!Expected
      BY <1>1, DrivesAsExpected
    <3> QED
      BY <2>5, <3>1, <3>2 DEF ReceiveAck, Mon!MonAck, Mon!TakenOver
  <2>6. CASE AnswerIbi(who)
    BY <1>1, <2>6, AnswerMeets
  <2>7. CASE SendByte(who)
    BY <1>1, <2>7, DrivesAsExpected DEF SendByte, Mon!MonByte, Mon!Judge
  <2>8. CASE SendTbit(who)
    BY <1>1, <2>8, DrivesAsExpected DEF SendTbit, Mon!MonTbit, Mon!Judge
  <2>9. CASE ReadByte(who) \/ ReadTbit(who)
    BY <1>1, <2>9, ReadMeets
  <2> QED
    BY <1>6, <2>2, <2>3, <2>4, <2>5, <2>6, <2>7, <2>8, <2>9 DEF Bus
<1> QED
  BY <1>2, <1>3, <1>4, <1>5, <1>6 DEF Next, Coroutines

\* A conforming target raises no alarm of the protocol monitor, unless an
\* address byte sent unwatched met its IBI in the frame.
THEOREM AlarmsTrue == Spec => NoFalseAlarm
<1>1. BenchInvariant /\ TrackingInvariant /\ [Next]_vars => [alarm' = alarm \/ clash]_alarm
  BY AlarmStays, NoneRaised DEF Watched
<1> QED
  BY <1>1, WhoHasTheBus, TargetIsFollowed, PTL DEF Spec, NoFalseAlarm

-----------------------------------------------------------------------------
(* A write step by step. *)

\* The writes a test may call.
Writes == {o \in Ops : o.kind = "write"}

LEMMA WriteFields ==
    ASSUME NEW o \in Writes
    PROVE  /\ o.n \in Nat /\ o.stop \in BOOLEAN /\ o.rsvd \in BOOLEAN /\ o.good \in BOOLEAN
           /\ o.to \in {"mainW", "virtW", "otherW"}
           /\ CallLength(o) \in Nat /\ CallLength(o) = IF o.stop THEN 8 + 2 * o.n ELSE 7 + 2 * o.n
           /\ FirstStep(o) \in {1, 4}
<1>1. /\ o.n \in Nat /\ o.stop \in BOOLEAN /\ o.rsvd \in BOOLEAN /\ o.good \in BOOLEAN
      /\ o.to \in {"mainW", "virtW", "otherW"}
  BY OpsAssumption DEF Writes, Calls
<1>2. CASE o.stop
  BY <1>1, <1>2 DEF CallLength, FirstStep
<1>3. CASE ~o.stop
  BY <1>1, <1>3 DEF CallLength, FirstStep
<1> QED
  BY <1>1, <1>2, <1>3

\* Which step is which.
LEMMA CallSteps ==
    ASSUME NEW o \in Writes, NEW j \in Nat
    PROVE  /\ j \in {1, 4} => CallStep(o, j) = start
           /\ j = 2 => CallStep(o, j) = addr("rsvdW")
           /\ j = 3 => CallStep(o, j) = ack("rsvdW", FALSE)
           /\ j = 5 => CallStep(o, j) = addr(o.to)
           /\ j = 6 => CallStep(o, j) = ack(o.to, TRUE)
           /\ j > 6 /\ j <= 6 + 2 * o.n =>
                 CallStep(o, j) = IF j % 2 = 1 THEN byte("data") ELSE tbit("data", o.good)
           /\ j = 7 + 2 * o.n => CallStep(o, j) = IF o.stop THEN stop ELSE [do |-> "give"]
           /\ j > 7 + 2 * o.n => CallStep(o, j) = [do |-> "give"]
<1> PICK n \in Nat : n = o.n
  BY WriteFields
<1>1. j \in {1, 4} => CallStep(o, j) = start
  BY DEF CallStep
<1>2. j = 2 => CallStep(o, j) = addr("rsvdW")
  BY DEF CallStep
<1>3. j = 3 => CallStep(o, j) = ack("rsvdW", FALSE)
  BY DEF CallStep
<1>4. j = 5 => CallStep(o, j) = addr(o.to)
  BY DEF CallStep
<1>5. j = 6 => CallStep(o, j) = ack(o.to, TRUE)
  BY DEF CallStep
<1>6. ASSUME j > 6, j <= 6 + 2 * o.n
      PROVE  CallStep(o, j) = IF j % 2 = 1 THEN byte("data") ELSE tbit("data", o.good)
  <2>1. j \notin {1, 4} /\ j # 2 /\ j # 3 /\ j # 5 /\ j # 6
    BY <1>6
  <2> QED
    BY <1>6, <2>1, Zenon DEF CallStep
<1>7. ASSUME j > 6 + 2 * o.n
      PROVE  CallStep(o, j) = IF j = 7 + 2 * o.n /\ o.stop THEN stop ELSE [do |-> "give"]
  <2>1. j \notin {1, 4} /\ j # 2 /\ j # 3 /\ j # 5 /\ j # 6 /\ ~(j <= 6 + 2 * o.n)
    BY <1>7
  <2> QED
    BY <2>1, Zenon DEF CallStep
<1>8. j = 7 + 2 * o.n => CallStep(o, j) = IF o.stop THEN stop ELSE [do |-> "give"]
  <2>1. j = 7 + 2 * o.n => j > 6 + 2 * o.n
    OBVIOUS
  <2> QED
    BY <1>7, <2>1
<1>9. j > 7 + 2 * o.n => CallStep(o, j) = [do |-> "give"]
  <2>1. j > 7 + 2 * o.n => j > 6 + 2 * o.n /\ j # 7 + 2 * o.n
    OBVIOUS
  <2> QED
    BY <1>7, <2>1
<1> QED
  BY <1>1, <1>2, <1>3, <1>4, <1>5, <1>6, <1>8, <1>9

LEMMA LeftStep ==
    ASSUME NEW o \in Writes, NEW s \in Seq(All), NEW j \in FirstStep(o)..CallLength(o),
           LeftFrom(s, o, j)
    PROVE  /\ s # <<>> /\ Head(s) = CallStep(o, j)
           /\ s[Len(s)] = CallStep(o, CallLength(o))
           /\ j < CallLength(o) =>
                 Tail(s) # <<>> /\ j + 1 \in FirstStep(o)..CallLength(o) /\ LeftFrom(Tail(s), o, j + 1)
           /\ j = CallLength(o) => Tail(s) = <<>>
<1> DEFINE L == CallLength(o)
<1>1. L \in Nat /\ j \in Nat /\ FirstStep(o) \in Nat /\ j <= L
  BY WriteFields
<1>2. Len(s) = L + 1 - j /\ \A i \in 1..Len(s) : s[i] = CallStep(o, i + j - 1)
  BY DEF LeftFrom
<1> HIDE DEF L
<1>3. s # <<>> /\ Len(s) >= 1 /\ Head(s) = s[1]
  BY <1>1, <1>2
<1>4. s[1] = CallStep(o, j)
  <2>1. 1 \in 1..Len(s) /\ 1 + j - 1 = j
    BY <1>1, <1>2, <1>3
  <2> QED
    BY <1>2, <2>1
<1>5. s[Len(s)] = CallStep(o, L)
  <2>1. Len(s) \in 1..Len(s) /\ Len(s) + j - 1 = L
    BY <1>1, <1>2, <1>3
  <2> QED
    BY <1>2, <2>1
<1>6. /\ Tail(s) \in Seq(All) /\ Len(Tail(s)) = Len(s) - 1
      /\ \A i \in 1..Len(Tail(s)) : Tail(s)[i] = s[i + 1]
  BY <1>3
<1>7. LeftFrom(Tail(s), o, j + 1)
  <2>1. Len(Tail(s)) = L + 1 - (j + 1)
    BY <1>1, <1>2, <1>6
  <2>2. ASSUME NEW i \in 1..Len(Tail(s)) PROVE Tail(s)[i] = CallStep(o, i + (j + 1) - 1)
    <3>1. i + 1 \in 1..Len(s) /\ (i + 1) + j - 1 = i + (j + 1) - 1
      BY <1>1, <1>2, <1>6
    <3>2. s[i + 1] = CallStep(o, (i + 1) + j - 1)
      BY <1>2, <3>1
    <3> QED
      BY <1>6, <3>1, <3>2
  <2> QED
    BY <2>1, <2>2 DEF LeftFrom, L
<1>8. ASSUME j < L PROVE Tail(s) # <<>> /\ j + 1 \in FirstStep(o)..L
  <2>1. Len(Tail(s)) # 0
    BY <1>1, <1>2, <1>6, <1>8
  <2>2. FirstStep(o) <= j
    BY <1>1
  <2>3. FirstStep(o) <= j + 1 /\ j + 1 <= L /\ j + 1 \in Int
    BY <1>1, <1>8, <2>2
  <2>4. Tail(s) # <<>>
    <3>1. Len(<<>>) = 0
      OBVIOUS
    <3> QED
      BY <2>1, <3>1, Zenon
  <2> QED
    BY <1>1, <2>3, <2>4
<1>9. ASSUME j = L PROVE Tail(s) = <<>>
  <2>1. Len(s) = 1
    BY <1>1, <1>2, <1>9
  <2>2. Len(Tail(s)) = 0
    BY <1>6, <2>1
  <2> QED
    BY <1>6, <2>2, EmptySeq
<1> QED
  BY <1>3, <1>4, <1>5, <1>7, <1>8, <1>9 DEF L

\* The data of a write, before which its address was refused, are skipped.
LEMMA LeftSkip ==
    ASSUME NEW o \in Writes, NEW t \in Seq(All), LeftFrom(t, o, 7)
    PROVE  LeftFrom(SkipData(t), o, 7 + 2 * o.n)
<1> DEFINE n == o.n
           L == CallLength(o)
           D == {i \in 1..Len(t) : \A j \in 1..i : t[j].do \in Data}
           u == SkipData(t)
<1>1. n \in Nat /\ L \in Nat /\ L >= 7 + 2 * n
  BY WriteFields
<1>2. Len(t) = L + 1 - 7 /\ \A i \in 1..Len(t) : t[i] = CallStep(o, i + 7 - 1)
  BY DEF LeftFrom
<1> HIDE DEF L
<1>3. \A i \in 1..(2 * n) : i \in 1..Len(t) /\ t[i].do \in Data
  <2>1. SUFFICES ASSUME NEW i \in 1..(2 * n) PROVE i \in 1..Len(t) /\ t[i].do \in Data
    OBVIOUS
  <2>2. i \in 1..Len(t) /\ i + 7 - 1 = i + 6
    BY <1>1, <1>2
  <2>3. t[i] = CallStep(o, i + 6)
    BY <1>2, <2>2
  <2>4. i + 6 \in Nat /\ i + 6 > 6 /\ i + 6 <= 6 + 2 * n
    BY <1>1
  <2>5. CallStep(o, i + 6) = IF (i + 6) % 2 = 1 THEN byte("data") ELSE tbit("data", o.good)
    BY <2>4, CallSteps
  <2> QED
    BY <2>2, <2>3, <2>5 DEF byte, tbit, Data
<1>4. 2 * n + 1 \in 1..Len(t) /\ t[2 * n + 1].do \notin Data
  <2>1. 2 * n + 1 \in 1..Len(t) /\ (2 * n + 1) + 7 - 1 = 7 + 2 * n
    BY <1>1, <1>2
  <2>2. t[2 * n + 1] = CallStep(o, 7 + 2 * n)
    BY <1>2, <2>1
  <2>3. 7 + 2 * n \in Nat
    BY <1>1
  <2>4. CallStep(o, 7 + 2 * n) = IF o.stop THEN stop ELSE [do |-> "give"]
    BY <2>3, CallSteps
  <2>5. CallStep(o, 7 + 2 * n).do \in {"stop", "give"}
    BY <2>4 DEF stop
  <2> QED
    BY <2>1, <2>2, <2>5 DEF Data
<1>5. D = 1..(2 * n)
  <2>1. ASSUME NEW i \in D PROVE i \in 1..(2 * n)
    <3>1. i \in 1..Len(t) /\ \A j \in 1..i : t[j].do \in Data
      OBVIOUS
    <3>2. ~(2 * n + 1 \in 1..i)
      BY <1>4, <3>1
    <3> QED
      BY <1>1, <3>1, <3>2
  <2>2. ASSUME NEW i \in 1..(2 * n) PROVE i \in D
    <3>1. \A j \in 1..i : j \in 1..(2 * n)
      BY <1>1
    <3> QED
      BY <1>3, <3>1
  <2> QED
    BY <2>1, <2>2
<1>6. DataSteps(t) = 2 * n
  <2>1. DataSteps(t) = Cardinality(1..(2 * n))
    BY <1>5 DEF DataSteps
  <2>2. 1 \in Int /\ 2 * n \in Int
    BY <1>1
  <2>3. Cardinality(1..(2 * n)) = IF 1 > 2 * n THEN 0 ELSE 2 * n - 1 + 1
    BY <2>2, FS_Interval
  <2> QED
    BY <1>1, <2>1, <2>3
<1>7. u \in Seq(All) /\ Len(u) = Len(t) - 2 * n /\ \A i \in 1..Len(u) : u[i] = t[i + 2 * n]
  BY <1>6, SkipTyped
<1> HIDE DEF u, n, D
<1>8. Len(u) = L + 1 - (7 + 2 * n)
  BY <1>1, <1>2, <1>7
<1>9. ASSUME NEW i \in 1..Len(u) PROVE u[i] = CallStep(o, i + (7 + 2 * n) - 1)
  <2>1. i + 2 * n \in 1..Len(t) /\ (i + 2 * n) + 7 - 1 = i + (7 + 2 * n) - 1
    BY <1>1, <1>2, <1>8
  <2>2. t[i + 2 * n] = CallStep(o, (i + 2 * n) + 7 - 1)
    BY <1>2, <2>1
  <2> QED
    BY <1>7, <2>1, <2>2
<1> QED
  BY <1>8, <1>9 DEF LeftFrom, L, u, n

\* s holds the steps of the write from the j-th to the one before the k-th.
Spans(s, o, j, k) ==
    s \in Seq(All) /\ j + Len(s) = k /\ \A i \in 1..Len(s) : s[i] = CallStep(o, i + j - 1)

LEMMA SpansJoin ==
    ASSUME NEW o, NEW a, NEW b, NEW j \in Nat, NEW k \in Nat, NEW l \in Nat,
           Spans(a, o, j, k), Spans(b, o, k, l)
    PROVE  Spans(a \o b, o, j, l)
<1> DEFINE c == a \o b
<1>0. a \in Seq(All) /\ b \in Seq(All) /\ j + Len(a) = k /\ k + Len(b) = l
  BY DEF Spans
<1>1. /\ c \in Seq(All) /\ Len(c) = Len(a) + Len(b) /\ Len(a) \in Nat /\ Len(b) \in Nat
      /\ \A i \in 1..Len(a) : c[i] = a[i]
      /\ \A i \in 1..Len(b) : c[Len(a) + i] = b[i]
  BY <1>0
<1> HIDE DEF c
<1>2. ASSUME NEW i \in 1..Len(c) PROVE c[i] = CallStep(o, i + j - 1)
  <2>1. CASE i <= Len(a)
    <3>1. i \in 1..Len(a)
      BY <1>1, <2>1
    <3> QED
      BY <1>1, <3>1 DEF Spans
  <2>2. CASE i > Len(a)
    <3> PICK m : m = i - Len(a)
      OBVIOUS
    <3>1. m \in 1..Len(b) /\ i = Len(a) + m
      BY <1>1, <2>2
    <3>3. m + k - 1 = i + j - 1
      <4>1. k = j + Len(a) /\ Len(a) \in Nat /\ m \in Nat
        BY <1>0, <1>1, <3>1
      <4> QED
        BY <3>1, <4>1
    <3>2. b[m] = CallStep(o, m + k - 1)
      BY <3>1 DEF Spans
    <3> QED
      BY <1>1, <3>1, <3>2, <3>3
  <2> QED
    BY <1>1, <2>1, <2>2
<1>3. j + Len(c) = l
  <2> PICK x, y : x = Len(a) /\ y = Len(b)
    OBVIOUS
  <2>1. x \in Nat /\ y \in Nat /\ Len(c) = x + y /\ j + x = k /\ k + y = l
    BY <1>0, <1>1
  <2>2. j + (x + y) = l
    BY <2>1
  <2> QED
    BY <2>1, <2>2
<1> QED
  BY <1>1, <1>2, <1>3 DEF Spans, c

LEMMA SpansNone == ASSUME NEW o, NEW j \in Nat PROVE Spans(<<>>, o, j, j)
<1>1. <<>> \in Seq(All) /\ Len(<<>>) = 0
  OBVIOUS
<1> QED
  BY <1>1 DEF Spans

LEMMA SpansOne ==
    ASSUME NEW o, NEW e \in All, NEW j \in Nat, NEW k \in Nat, k = j + 1, e = CallStep(o, j)
    PROVE  Spans(<<e>>, o, j, k)
<1>1. <<e>> \in Seq(All) /\ Len(<<e>>) = 1 /\ <<e>>[1] = e
  OBVIOUS
<1>2. ASSUME NEW i \in 1..Len(<<e>>) PROVE <<e>>[i] = CallStep(o, i + j - 1)
  <2>1. i = 1 /\ i + j - 1 = j
    BY <1>1
  <2> QED
    BY <1>1, <2>1
<1> QED
  BY <1>1, <1>2 DEF Spans

LEMMA SpansTwo ==
    ASSUME NEW o, NEW e \in All, NEW f \in All,
           NEW j \in Nat, NEW m \in Nat, NEW k \in Nat, m = j + 1, k = m + 1,
           e = CallStep(o, j), f = CallStep(o, m)
    PROVE  Spans(<<e, f>>, o, j, k)
<1>1. <<e, f>> \in Seq(All) /\ Len(<<e, f>>) = 2 /\ <<e, f>>[1] = e /\ <<e, f>>[2] = f
  OBVIOUS
<1>2. ASSUME NEW i \in 1..Len(<<e, f>>) PROVE <<e, f>>[i] = CallStep(o, i + j - 1)
  <2>1. i = 1 \/ i = 2
    BY <1>1
  <2>2. i = 1 => i + j - 1 = j
    OBVIOUS
  <2>3. i = 2 => i + j - 1 = m
    OBVIOUS
  <2> QED
    BY <1>1, <2>1, <2>2, <2>3
<1> QED
  BY <1>1, <1>2 DEF Spans

\* A write begins at its first step.
LEMMA CallStarts ==
    ASSUME NEW o \in Writes
    PROVE  LET s == Script(o) \o <<[do |-> "give"]>>
           IN  s \in Seq(All) /\ LeftFrom(s, o, FirstStep(o))
<1> DEFINE R == IF o.rsvd THEN Reserved ELSE <<>>
           H == Header(o.to, TRUE)
           W == WriteBytes(o.n, "data", o.good)
           S == StopIf(o.stop)
           g == [do |-> "give"]
           f == FirstStep(o)
           L == CallLength(o)
<1> PICK n \in Nat, m \in Nat, e \in Nat : n = o.n /\ m = 7 + 2 * n /\ e = L + 1
  <2>1. o.n \in Nat /\ L \in Nat
    BY WriteFields
  <2>2. 7 + 2 * o.n \in Nat /\ L + 1 \in Nat
    BY <2>1
  <2> QED
    BY <2>1, <2>2
<1>1. /\ o.stop \in BOOLEAN /\ o.rsvd \in BOOLEAN /\ o.good \in BOOLEAN
      /\ o.to \in {"mainW", "virtW", "otherW"}
      /\ L \in Nat /\ L = IF o.stop THEN m + 1 ELSE m
      /\ f = IF o.rsvd THEN 1 ELSE 4
  BY WriteFields DEF FirstStep
<1>2. /\ start \in All /\ stop \in All /\ g \in All /\ addr("rsvdW") \in All /\ ack("rsvdW", FALSE) \in All
      /\ addr(o.to) \in All /\ ack(o.to, TRUE) \in All
      /\ byte("data") \in All /\ tbit("data", o.good) \in All
  <2>1. "rsvdW" \in Addresses /\ o.to \in Addresses /\ "data" \in Bytes
    BY <1>1 DEF Addresses, Bytes
  <2> QED
    BY <1>1, <2>1, StepFacts DEF All
<1>3. /\ CallStep(o, 1) = start /\ CallStep(o, 2) = addr("rsvdW") /\ CallStep(o, 3) = ack("rsvdW", FALSE)
      /\ CallStep(o, 4) = start /\ CallStep(o, 5) = addr(o.to) /\ CallStep(o, 6) = ack(o.to, TRUE)
  BY CallSteps
<1>0. /\ 1 \in Nat /\ 2 \in Nat /\ 3 \in Nat /\ 4 \in Nat /\ 5 \in Nat /\ 6 \in Nat /\ 7 \in Nat
      /\ 2 = 1 + 1 /\ 3 = 2 + 1 /\ 4 = 3 + 1 /\ 5 = 4 + 1 /\ 6 = 5 + 1 /\ 7 = 6 + 1
  OBVIOUS
<1>4. Spans(R, o, f, 4) /\ f \in Nat
  <2>1. CASE o.rsvd
    <3>1. Spans(<<start>>, o, 1, 2)
      BY <1>0, <1>2, <1>3, SpansOne, Zenon
    <3>2. Spans(Header("rsvdW", FALSE), o, 2, 4)
      BY <1>0, <1>2, <1>3, SpansTwo, Zenon DEF Header
    <3>3. Spans(Reserved, o, 1, 4)
      BY <1>0, <3>1, <3>2, SpansJoin, Zenon DEF Reserved
    <3> QED
      BY <1>0, <1>1, <2>1, <3>3
  <2>2. CASE ~o.rsvd
    BY <1>0, <1>1, <2>2, SpansNone
  <2> QED
    BY <1>1, <2>1, <2>2
<1>5. Spans(<<start>>, o, 4, 5)
  BY <1>0, <1>2, <1>3, SpansOne, Zenon
<1>6. Spans(H, o, 5, 7)
  BY <1>0, <1>2, <1>3, SpansTwo, Zenon DEF Header
<1>7. Spans(W, o, 7, m)
  <2>1. W \in [1..(2 * n) -> All]
    BY <1>2 DEF WriteBytes
  <2>2. 2 * n \in Nat
    OBVIOUS
  <2>3. W \in Seq(All) /\ Len(W) = 2 * n
    BY <2>1, <2>2
  <2>4. ASSUME NEW i \in 1..(2 * n) PROVE W[i] = CallStep(o, i + 7 - 1)
    <3> PICK k : k = i + 7 - 1
      OBVIOUS
    <3>1. k \in Nat /\ k > 6 /\ k <= 6 + 2 * n /\ (k % 2 = 1 <=> i % 2 = 1)
      OBVIOUS
    <3>2. CallStep(o, k) = IF k % 2 = 1 THEN byte("data") ELSE tbit("data", o.good)
      BY <3>1, CallSteps
    <3>3. W[i] = IF i % 2 = 1 THEN byte("data") ELSE tbit("data", o.good)
      BY DEF WriteBytes
    <3> QED
      BY <3>1, <3>2, <3>3
  <2> HIDE DEF W
  <2> QED
    BY <2>3, <2>4 DEF Spans
<1>8. Spans(S, o, m, L)
  <2>1. CASE o.stop
    <3>1. CallStep(o, m) = stop
      BY <2>1, CallSteps
    <3>2. Spans(<<stop>>, o, m, L)
      BY <1>1, <1>2, <2>1, <3>1, SpansOne
    <3> QED
      BY <2>1, <3>2 DEF StopIf
  <2>2. CASE ~o.stop
    BY <1>1, <2>2, SpansNone DEF StopIf
  <2> QED
    BY <1>1, <2>1, <2>2
<1>9. Spans(<<g>>, o, L, e)
  <2>1. CallStep(o, L) = g
    <3>1. CASE o.stop
      <4>1. L > 7 + 2 * o.n
        BY <1>1, <3>1
      <4> QED
        BY <1>1, <4>1, CallSteps
    <3>2. CASE ~o.stop
      BY <1>1, <3>2, CallSteps
    <3> QED
      BY <3>1, <3>2
  <2> HIDE DEF L, g
  <2> QED
    BY <1>1, <1>2, <2>1, SpansOne
<1>10. Script(o) \o <<g>> = ((((R \o <<start>>) \o H) \o W) \o S) \o <<g>>
  BY DEF Writes, Script, I3cWrite
<1> DEFINE s == Script(o) \o <<g>>
<1> HIDE DEF R, H, W, S, g, s, f, L
<1>11. Spans(R \o <<start>>, o, f, 5)
  BY <1>0, <1>4, <1>5, SpansJoin, Zenon
<1>12. Spans((R \o <<start>>) \o H, o, f, 7)
  BY <1>0, <1>4, <1>6, <1>11, SpansJoin, Zenon
<1>13. Spans(((R \o <<start>>) \o H) \o W, o, f, m)
  BY <1>0, <1>4, <1>7, <1>12, SpansJoin, Zenon
<1>14. Spans((((R \o <<start>>) \o H) \o W) \o S, o, f, L)
  BY <1>1, <1>4, <1>8, <1>13, SpansJoin, Zenon
<1>15. Spans(((((R \o <<start>>) \o H) \o W) \o S) \o <<g>>, o, f, e)
  BY <1>1, <1>4, <1>9, <1>14, SpansJoin, Zenon
<1>16. Spans(s, o, f, e)
  BY <1>10, <1>15 DEF s
<1>17. Len(s) = L + 1 - f
  <2>1. f + Len(s) = e /\ s \in Seq(All)
    BY <1>16 DEF Spans
  <2>2. Len(s) \in Nat
    BY <2>1
  <2>3. f \in Nat /\ L \in Nat /\ e = L + 1
    BY <1>1, <1>4
  <2> PICK w : w = Len(s)
    OBVIOUS
  <2>4. w \in Nat /\ f + w = e
    BY <2>1, <2>2
  <2>5. w = L + 1 - f
    BY <2>3, <2>4
  <2> QED
    BY <2>5
<1> QED
  BY <1>16, <1>17 DEF Spans, LeftFrom, s, g, f, L

-----------------------------------------------------------------------------
(* What the target hears, whatever the protocol monitor makes of it. *)

\* A step of the coroutine that has the bus.
LEMMA OnBusHears ==
    ASSUME BenchInvariant, StepsHeard, NEW who \in {"fg", "bg"},
           NEW do, At(who, do), do # "take",
           NEW s, Goto(who, s), s # <<>> => Hears(s)'
    PROVE  StepsHeard'
<1>1. script'[who] = s /\ \A w \in {"fg", "bg"} \ {who} : script'[w] = script[w]
  BY DEF Goto, BenchInvariant, ScriptTypeOK
<1>2. ASSUME NEW w \in {"fg", "bg"} \ {who}, Busy(w) PROVE Head(script[w]).do = "take"
  BY <1>2 DEF BenchInvariant, ServesAlone, DisabledInCall, MonitorWaits, Busy, At
<1>3. ASSUME NEW w \in {"fg", "bg"}, Busy(w)' PROVE Hears(script[w])'
  <2>1. CASE w = who
    BY <1>1, <1>3, <2>1 DEF Hears, Busy
  <2>2. CASE w # who
    BY <1>1, <1>2, <1>3, <2>2 DEF Hears, Busy
  <2> QED
    BY <2>1, <2>2
<1> QED
  BY <1>3 DEF StepsHeard

\* What expects nothing of the monitor's phase expects nothing of the target.
LEMMA FreeHearsNothing ==
    ASSUME NEW s, Head(s).do \in Free PROVE Hears(s)'
  BY DEF Hears, Free, Opens

LEMMA StartHeard ==
    ASSUME BenchInvariant, ScriptsInOrder, FrameOver, StepsHeard, NEW who \in {"fg", "bg"},
           SendStart(who), NEW t, t = Tail(script[who])
    PROVE  FrameOver' /\ StepsHeard' /\ bus' = "active"
<1>1. Busy(who) /\ Head(script[who]).do = "start" /\ Goto(who, t) /\ At(who, "start")
  BY DEF SendStart, At, Go
<1>2. t # <<>> => Head(t).do = "addr"
  BY <1>1, RestInOrder DEF Follows, Closes
<1>3. bus' = "active" /\ fsm' \notin AddressStates \cup WriteStates
  <2>1. CASE fsm = "IbiDriveAddr"
    BY <2>1 DEF SendStart, fsmVars, FrameOver, AddressStates, WriteStates
  <2>2. CASE fsm # "IbiDriveAddr" /\ bus # "active"
    BY <2>2 DEF SendStart, StartSeen, Start, To, FrameOver, AddressStates, WriteStates
  <2>3. CASE bus = "active" /\ fsm = "InHDRMode"
    BY <2>3 DEF SendStart, StartSeen, fsmVars, AddressStates, WriteStates
  <2>4. CASE fsm # "IbiDriveAddr" /\ bus = "active" /\ fsm # "InHDRMode"
    BY <2>4 DEF SendStart, StartSeen, RepeatedStart, RestartTarget, ControllerHasSda, To,
                AddressStates, WriteStates
  <2> QED
    BY <2>1, <2>2, <2>3, <2>4
<1>4. t # <<>> => Hears(t)'
  BY <1>2, <1>3 DEF Hears
<1> QED
  BY <1>1, <1>3, <1>4, OnBusHears DEF FrameOver

LEMMA StopHeard ==
    ASSUME BenchInvariant, ScriptsInOrder, FrameOver, StepsHeard, NEW who \in {"fg", "bg"},
           SendStop(who) \/ (who = "fg" /\ SendHdrExit), NEW t, t = Tail(script[who])
    PROVE  FrameOver' /\ StepsHeard'
<1>1. /\ Busy(who) /\ Head(script[who]).do \in {"stop", "hdrExit"} /\ Goto(who, t)
      /\ At(who, Head(script[who]).do)
  BY DEF SendStop, SendHdrExit, At, Go
<1>2. t # <<>> => Head(t).do \in Free
  BY <1>1, RestInOrder DEF Follows, Closes, Opens, Free
<1>3. FrameOver'
  BY DEF SendStop, SendHdrExit, Stop, HdrExit, Move, To, fsmVars, FrameOver
<1>4. t # <<>> => Hears(t)'
  BY <1>2, FreeHearsNothing
<1> QED
  BY <1>1, <1>3, <1>4, OnBusHears

\* What an address byte leaves the target in.
LEMMA AddressLeaves ==
    ASSUME FrameOver, NEW who \in {"fg", "bg"},
           SendAddress(who) \/ (SendReserved(who) /\ ~Contends),
           Hears(script[who]), At(who, "addr"), NEW h, h = Head(script[who]).h
    PROVE  /\ bus' = "active"
           /\ fsm' \notin WriteStates /\ fsm' \notin {"TxAckFByte", "TxAckSByte"}
           /\ fsm' \in AddressStates => header' = FsmHeader(h)
<1>1. bus = "active" /\ fsm \notin AddressStates \cup WriteStates
  BY DEF Hears, At
<1>2. CASE AddressHeard(h)
  <2>1. CASE fsm \in {"RxFByte", "RxSByteRepeated"}
    BY <1>1, <1>2, <2>1 DEF AddressHeard, FByteReceived, SByteReceived, Receive, WriteStates, FsmHeader
  <2>2. CASE fsm \notin {"RxFByte", "RxSByteRepeated"}
    BY <1>1, <1>2, <2>2 DEF AddressHeard, fsmVars, AddressStates
  <2> QED
    BY <2>1, <2>2
<1>3. CASE IbiAddrSent \/ DriveAddrLost
  BY <1>1, <1>3 DEF IbiAddrSent, DriveAddrLost, Move, To, WriteStates, AddressStates
<1>4. CASE HeaderArbLostLate(FsmHeader(h))
  BY <1>1, <1>4 DEF HeaderArbLostLate, WriteStates, AddressStates
<1> QED
  BY <1>2, <1>3, <1>4 DEF SendAddress, SendReserved

LEMMA AddressHeardRight ==
    ASSUME BenchInvariant, ScriptsInOrder, FrameOver, StepsHeard, NEW who \in {"fg", "bg"},
           SendAddress(who) \/ (SendReserved(who) /\ ~Contends), NEW t, t = Tail(script[who])
    PROVE  FrameOver' /\ StepsHeard'
<1> PICK h : h = Head(script[who]).h
  OBVIOUS
<1>1. Busy(who) /\ Head(script[who]).do = "addr" /\ Goto(who, t) /\ At(who, "addr")
  BY DEF SendAddress, SendReserved, At, Go
<1>2. t # <<>> => Head(t).do = "ack" /\ Head(t).h = h
  BY <1>1, RestInOrder DEF Follows, Closes
<1>3. /\ bus' = "active"
      /\ fsm' \notin WriteStates /\ fsm' \notin {"TxAckFByte", "TxAckSByte"}
      /\ fsm' \in AddressStates => header' = FsmHeader(h)
  BY <1>1, AddressLeaves DEF StepsHeard
<1>4. t # <<>> => Hears(t)'
  BY <1>2, <1>3 DEF Hears, FsmHeader
<1> QED
  BY <1>1, <1>3, <1>4, OnBusHears DEF FrameOver

\* What the acknowledge of an address leaves the target in.
LEMMA AckLeaves ==
    ASSUME NEW who \in {"fg", "bg"}, ReceiveAck(who), Hears(script[who]),
           NEW a, a = Head(script[who]), a.h \in Addresses
    PROVE  /\ bus' = "active" /\ fsm' # "RxPWriteTbit"
           /\ fsm' = "RxPWriteData" => a.h \notin Mon!ReadAddr \cup {"rsvdW"}
           /\ fsm \in {"TxAckFByte", "TxAckSByte"} /\ a.h \in {"mainW", "virtW", "otherW"} =>
                 fsm' = "RxPWriteData"
<1>1. /\ bus = "active" /\ fsm \notin WriteStates
      /\ fsm \in AddressStates => header = FsmHeader(a.h)
      /\ fsm \in {"TxAckFByte", "TxAckSByte"} => header \in Ours \cup {"rsvdW"}
  BY DEF Hears, ReceiveAck, At
<1>2. CASE fsm \in {"TxAckFByte", "TxAckSByte"}
  <2>1. AckSent
    BY <1>2 DEF ReceiveAck
  <2>2. header = FsmHeader(a.h) /\ header \in Ours \cup {"rsvdW"}
    BY <1>1, <1>2 DEF AddressStates
  <2>3. a.h \in {"rsvdW", "mainW", "mainR", "virtW", "virtR"} /\ header = a.h
    BY <2>2 DEF FsmHeader, Ours, Virtual, Addresses
  <2>4. /\ bus' = bus
        /\ fsm' = CASE header = "rsvdW"  -> "RxSByte"
                    [] header \in Reads  -> "TxPReadData"
                    [] OTHER             -> "RxPWriteData"
    BY <2>1 DEF AckSent, Move, To
  <2>5. CASE header = "rsvdW"
    BY <1>1, <2>3, <2>4, <2>5 DEF Reads
  <2>6. CASE header \in Reads
    BY <1>1, <2>3, <2>4, <2>6 DEF Reads
  <2>7. CASE header \in {"mainW", "virtW"}
    BY <1>1, <2>3, <2>4, <2>7 DEF Reads, Mon!ReadAddr
  <2> QED
    BY <2>3, <2>5, <2>6, <2>7 DEF Reads
<1>3. CASE fsm = "IbiReadAck"
  BY <1>1, <1>3 DEF ReceiveAck, IbiNacked, Move, To
<1>4. CASE fsm \notin {"TxAckFByte", "TxAckSByte", "IbiReadAck"}
  BY <1>1, <1>4 DEF ReceiveAck, fsmVars, WriteStates
<1> QED
  BY <1>2, <1>3, <1>4

LEMMA AckHeard ==
    ASSUME BenchInvariant, ScriptsInOrder, FrameOver, StepsHeard, NEW who \in {"fg", "bg"},
           ReceiveAck(who), NEW t, t = Tail(script[who]), NEW u, u = SkipData(t)
    PROVE  FrameOver' /\ StepsHeard'
<1> PICK a : a = Head(script[who])
  OBVIOUS
<1>1. /\ Busy(who) /\ a.do = "ack" /\ At(who, "ack")
      /\ Goto(who, t) \/ Goto(who, u)
  BY DEF ReceiveAck, At
<1>2. InOrder(t) /\ (t # <<>> => Follows(a, Head(t))) /\ a \in All /\ t \in Seq(All)
  BY <1>1, RestInOrder
<1>3. u # <<>> => Head(u).do \in Free
  <2>1. t # <<>> => Head(t).do \in Data \cup Opens
    BY <1>1, <1>2 DEF Follows, Data, Opens
  <2>2. InOrder(SkipData(t)) /\ (SkipData(t) # <<>> => Head(SkipData(t)).do \in Free)
    BY <1>2, <2>1, SkipFrees
  <2> QED
    BY <2>2
<1>4. a.h \in Addresses
  BY <1>1, <1>2, AddressOfStep
<1>5. /\ bus' = "active" /\ fsm' # "RxPWriteTbit"
      /\ fsm' = "RxPWriteData" => a.h \notin Mon!ReadAddr \cup {"rsvdW"}
  BY <1>1, <1>4, AckLeaves DEF StepsHeard
<1>6. t # <<>> => Hears(t)'
  <2>1. t # <<>> /\ Head(t).do # "byte" => Head(t).do \in Free
    BY <1>1, <1>2 DEF Follows, Closes, Opens, Free
  <2>2. t # <<>> /\ Head(t).do = "byte" => (a.h # "rsvdW" => Head(t).c \in PrivateBytes)
    BY <1>1, <1>2 DEF Follows, Opens
  <2>3. CASE Head(t).do = "byte"
    BY <1>5, <2>2, <2>3 DEF Hears, WriteStates
  <2>4. CASE Head(t).do # "byte"
    BY <2>1, <2>4, FreeHearsNothing
  <2> QED
    BY <2>3, <2>4
<1>7. u # <<>> => Hears(u)'
  BY <1>3, FreeHearsNothing
<1>8. FrameOver'
  BY <1>5 DEF FrameOver
<1>9. CASE Goto(who, t)
  BY <1>1, <1>6, <1>8, <1>9, OnBusHears
<1>10. CASE Goto(who, u)
  BY <1>1, <1>7, <1>8, <1>10, OnBusHears
<1> QED
  BY <1>1, <1>9, <1>10

LEMMA ByteHeard ==
    ASSUME BenchInvariant, ScriptsInOrder, FrameOver, StepsHeard, NEW who \in {"fg", "bg"},
           SendByte(who), NEW t, t = Tail(script[who])
    PROVE  FrameOver' /\ StepsHeard'
<1> PICK a : a = Head(script[who])
  OBVIOUS
<1>1. Busy(who) /\ a.do = "byte" /\ Goto(who, t) /\ At(who, "byte")
  BY DEF SendByte, At, Go
<1>2. t # <<>> => Head(t).do = "tbit" /\ Head(t).c = a.c
  BY <1>1, RestInOrder DEF Follows, Closes
<1>3. bus = "active" /\ (fsm \in WriteStates => a.c \in PrivateBytes)
  BY <1>1 DEF StepsHeard, Hears
<1>4. bus' = "active" /\ (fsm' \in WriteStates => fsm \in WriteStates)
  BY <1>3 DEF SendByte, WriteByteReceived, CccReceived, Move, To, fsmVars, WriteStates
<1>5. t # <<>> => Hears(t)'
  BY <1>2, <1>3, <1>4 DEF Hears
<1> QED
  BY <1>1, <1>4, <1>5, OnBusHears DEF FrameOver

LEMMA TbitHeard ==
    ASSUME BenchInvariant, ScriptsInOrder, FrameOver, StepsHeard, NEW who \in {"fg", "bg"},
           SendTbit(who), NEW t, t = Tail(script[who])
    PROVE  FrameOver' /\ StepsHeard'
<1> PICK a : a = Head(script[who])
  OBVIOUS
<1>1. Busy(who) /\ a.do = "tbit" /\ Goto(who, t) /\ At(who, "tbit")
  BY DEF SendTbit, At, Go
<1>2. t # <<>> => Follows(a, Head(t))
  BY <1>1, RestInOrder
<1>3. bus = "active" /\ (fsm \in WriteStates => a.c \in PrivateBytes)
  BY <1>1 DEF StepsHeard, Hears
<1>4. /\ bus' = "active" /\ fsm' # "RxPWriteTbit"
      /\ fsm' \in WriteStates => fsm \in WriteStates
  <2>1. CASE fsm = "RxPWriteTbit"
    BY <1>3, <2>1 DEF SendTbit, WriteTbitReceived, WriteStates
  <2>2. CASE fsm = "DoCCC"
    BY <1>3, <2>2 DEF SendTbit, CccTbit, CccEntersHdr, SetIbiOn, Move, To, fsmVars, WriteStates
  <2>3. CASE fsm \notin {"RxPWriteTbit", "DoCCC"}
    BY <1>3, <2>3 DEF SendTbit, fsmVars, WriteStates
  <2> QED
    BY <2>1, <2>2, <2>3
<1>5. t # <<>> => Hears(t)'
  <2>1. t # <<>> /\ Head(t).do # "byte" => Head(t).do \in Free
    BY <1>1, <1>2 DEF Follows, Opens, Free
  <2>2. t # <<>> /\ Head(t).do = "byte" =>
            (a.c \in PrivateBytes => Head(t).c \in PrivateBytes)
    BY <1>1, <1>2 DEF Follows, Opens, PrivateBytes
  <2>3. CASE Head(t).do = "byte"
    BY <1>3, <1>4, <2>2, <2>3 DEF Hears
  <2>4. CASE Head(t).do # "byte"
    BY <2>1, <2>4, FreeHearsNothing
  <2> QED
    BY <2>3, <2>4
<1> QED
  BY <1>1, <1>4, <1>5, OnBusHears DEF FrameOver

\* The script goes on with what expects nothing.
LEMMA FreeHears ==
    ASSUME BenchInvariant, StepsHeard, NEW who \in {"fg", "bg"},
           NEW do, At(who, do), do # "take",
           NEW s, Goto(who, s), s # <<>> => Head(s).do \in Free
    PROVE  StepsHeard'
  BY FreeHearsNothing, OnBusHears

\* One more step before what is left.
LEMMA OneMore ==
    ASSUME NEW e \in All, NEW t \in Seq(All)
    PROVE  /\ <<e>> \o t \in Seq(All) /\ <<e>> \o t # <<>> /\ Head(<<e>> \o t) = e
           /\ Len(<<e>> \o t) = Len(t) + 1 /\ (<<e>> \o t)[1] = e
           /\ \A i \in 1..Len(t) : (<<e>> \o t)[i + 1] = t[i]
  OBVIOUS

LEMMA ReadsHeard ==
    ASSUME BenchInvariant, ScriptsInOrder, FrameOver, StepsHeard, NEW who \in {"fg", "bg"},
           ReadByte(who) \/ ReadTbit(who)
    PROVE  FrameOver' /\ StepsHeard'
<1> PICK a, t : a = Head(script[who]) /\ t = Tail(script[who])
  OBVIOUS
<1>1. Busy(who) /\ a.do \in {"read", "readTbit"} /\ At(who, a.do)
  BY DEF ReadByte, ReadTbit, At
<1>2. /\ (t # <<>> => Follows(a, Head(t))) /\ a \in All /\ t \in Seq(All)
      /\ a.k \in Nat
  BY <1>1, RestInOrder, ReadCarries DEF All
<1>3. t # <<>> => Head(t).do \in Free
  BY <1>1, <1>2 DEF Follows, Free
<1>4. \A k \in Nat : /\ read(k) \in All /\ read(k).do \in Free
                     /\ readTbit(k) \in All /\ readTbit(k).do \in Free
  BY StepFacts DEF All, Free, read, readTbit
<1>5. ASSUME NEW e \in All, e.do \in Free, Goto(who, <<e>> \o t) PROVE StepsHeard'
  <2> PICK s : s = <<e>> \o t
    OBVIOUS
  <2>1. Head(s) = e
    BY <1>2, OneMore
  <2> QED
    BY <1>1, <1>5, <2>1, FreeHears
<1>6. ASSUME Goto(who, t) PROVE StepsHeard'
  BY <1>1, <1>3, <1>6, FreeHears
<1>7. CASE ReadByte(who)
  <2>1. StepsHeard'
    BY <1>2, <1>4, <1>5, <1>7 DEF ReadByte
  <2>2. FrameOver'
    BY <1>7 DEF ReadByte, ReadByteSent, IbiByteSent, Move, To, FrameOver
  <2> QED
    BY <2>1, <2>2
<1>8. CASE ReadTbit(who)
  <2>1. Goto(who, t) => StepsHeard'
    BY <1>6
  <2>2. ASSUME a.k > 1, Goto(who, <<read(a.k - 1)>> \o t) PROVE StepsHeard'
    <3>1. a.k - 1 \in Nat
      BY <1>2, <2>2
    <3> QED
      BY <1>4, <1>5, <2>2, <3>1
  <2>3. StepsHeard'
    BY <1>8, <2>1, <2>2 DEF ReadTbit
  <2>4. FrameOver'
    BY <1>8 DEF ReadTbit, ReadEnded, IbiEnded, ReadAborted, IbiAborted, ReadContinued,
                IbiContinued, Move, To, FrameOver
  <2> QED
    BY <2>3, <2>4
<1> QED
  BY <1>7, <1>8

LEMMA AnswerHeard ==
    ASSUME BenchInvariant, ScriptsInOrder, FrameOver, StepsHeard, NEW who \in {"fg", "bg"},
           AnswerIbi(who), NEW t, t = Tail(script[who]), NEW u, u = SkipData(t)
    PROVE  FrameOver' /\ StepsHeard'
<1> PICK a : a = Head(script[who])
  OBVIOUS
<1>1. Busy(who) /\ a.do = "ibiAck" /\ At(who, "ibiAck") /\ (Goto(who, t) \/ Goto(who, u))
  BY DEF AnswerIbi, At
<1>2. InOrder(t) /\ (t # <<>> => Follows(a, Head(t))) /\ t \in Seq(All)
  BY <1>1, RestInOrder
<1>3. t # <<>> => Head(t).do \in Free
  BY <1>1, <1>2 DEF Follows, Closes, Free
<1>4. u # <<>> => Head(u).do \in Free
  <2>1. t # <<>> => Head(t).do \in Data \cup Opens
    BY <1>1, <1>2 DEF Follows, Data, Opens
  <2>2. InOrder(SkipData(t)) /\ (SkipData(t) # <<>> => Head(SkipData(t)).do \in Free)
    BY <1>2, <2>1, SkipFrees
  <2> QED
    BY <2>2
<1>5. StepsHeard'
  BY <1>1, <1>3, <1>4, FreeHears
<1>6. FrameOver'
  BY DEF AnswerIbi, IbiAcked, IbiNacked, Move, To, FrameOver
<1> QED
  BY <1>5, <1>6

\* What serves an IBI and then makes the attempt again.
LEMMA LostScript ==
    ASSUME KnobTypeOK, NEW s, s = HandleIbiInline(chain, limit, FALSE) \o <<[do |-> "retry"]>>
    PROVE  s \in Seq(All) /\ s # <<>> /\ Head(s).do = "ibiAck"
<1> PICK i, e : i = HandleIbiInline(chain, limit, FALSE) /\ e = [do |-> "retry"]
  OBVIOUS
<1>1. /\ i \in Seq(All) /\ InOrder(i) /\ i # <<>> /\ i[Len(i)].do \in Closes
      /\ i[1].do = "ibiAck"
  BY InlineInOrder DEF KnobTypeOK
<1>2. e \in All /\ e.do \in Opens
  BY StepFacts DEF All, Opens
<1>3. i \o <<e>> \in Seq(All) /\ Head(i \o <<e>>) = i[1]
  BY <1>1, <1>2, ThenOne
<1>4. i \o <<e>> # <<>>
  BY <1>1, <1>2
<1> QED
  BY <1>1, <1>3, <1>4

LEMMA LostHeard ==
    ASSUME BenchInvariant, FrameOver, StepsHeard, NEW who \in {"fg", "bg"},
           SendReserved(who), Contends
    PROVE  FrameOver' /\ StepsHeard' /\ bus = "active"
<1> PICK s : s = HandleIbiInline(chain, limit, FALSE) \o <<[do |-> "retry"]>>
  OBVIOUS
<1>1. At(who, "addr") /\ Goto(who, s) /\ IbiAddrSent
  BY DEF SendReserved, ArbitrationLost
<1>2. Head(s).do = "ibiAck"
  BY LostScript DEF BenchInvariant
<1>3. StepsHeard'
  BY <1>1, <1>2, FreeHears DEF Free
<1>4. bus = "active"
  BY <1>1 DEF StepsHeard, Hears, At
<1> QED
  BY <1>1, <1>3, <1>4 DEF IbiAddrSent, Move, To, FrameOver

\* Every step on the bus.
LEMMA BusHeard ==
    ASSUME BenchInvariant, ScriptsInOrder, FrameOver, StepsHeard, NEW who \in {"fg", "bg"}, Bus(who)
    PROVE  FrameOver' /\ StepsHeard'
<1>1. CASE SendStart(who)
  BY <1>1, StartHeard
<1>2. CASE SendStop(who)
  BY <1>2, StopHeard
<1>3. CASE SendReserved(who)
  BY <1>3, AddressHeardRight, LostHeard
<1>4. CASE SendAddress(who)
  BY <1>4, AddressHeardRight
<1>5. CASE ReceiveAck(who)
  BY <1>5, AckHeard
<1>6. CASE SendByte(who) \/ SendTbit(who)
  BY <1>6, ByteHeard, TbitHeard
<1>7. CASE ReadByte(who) \/ ReadTbit(who)
  BY <1>7, ReadsHeard
<1>8. CASE AnswerIbi(who)
  BY <1>8, AnswerHeard
<1> QED
  BY <1>1, <1>2, <1>3, <1>4, <1>5, <1>6, <1>7, <1>8 DEF Bus

\* The target rests, and one coroutine has a new script whose first step
\* expects nothing.
LEMMA NewScriptHeard ==
    ASSUME BenchInvariant, FrameOver, StepsHeard, UNCHANGED fsmVars,
           NEW who \in {"fg", "bg"}, NEW s, s # <<>> => Head(s).do \in Free, Goto(who, s)
    PROVE  FrameOver' /\ StepsHeard'
<1>1. script'[who] = s /\ \A w \in {"fg", "bg"} \ {who} : script'[w] = script[w]
  BY DEF Goto, BenchInvariant, ScriptTypeOK
<1>2. ASSUME NEW w \in {"fg", "bg"}, Busy(w)' PROVE Hears(script[w])'
  <2>1. CASE w = who
    BY <1>1, <1>2, <2>1 DEF Hears, Busy, Free, Opens
  <2>2. CASE w # who
    <3>1. Hears(script[w])
      BY <1>1, <1>2, <2>2 DEF StepsHeard, Busy
    <3> QED
      BY <1>1, <2>2, <3>1 DEF Hears, fsmVars, selVars, AddressStates, WriteStates, FsmHeader
  <2> QED
    BY <2>1, <2>2
<1>3. StepsHeard'
  BY <1>2 DEF StepsHeard
<1> QED
  BY <1>3 DEF FrameOver, fsmVars

LEMMA RestingHeard ==
    ASSUME FrameOver, StepsHeard, UNCHANGED <<fsmVars, script>> PROVE FrameOver' /\ StepsHeard'
<1>1. ASSUME NEW w \in {"fg", "bg"}, Busy(w)' PROVE Hears(script[w])'
  <2>1. Hears(script[w])
    BY <1>1 DEF StepsHeard, Busy
  <2> QED
    BY <2>1 DEF Hears, fsmVars, selVars, AddressStates, WriteStates, FsmHeader
<1>2. StepsHeard'
  BY <1>1 DEF StepsHeard
<1> QED
  BY <1>2 DEF FrameOver, fsmVars

LEMMA SeesStartHeard ==
    ASSUME BenchInvariant, FrameOver, StepsHeard, MonitorSeesStart PROVE FrameOver' /\ StepsHeard'
<1> PICK s : s = HandleIbiInline(chain, limit, TRUE)
  OBVIOUS
<1>1. Goto("bg", s) /\ IbiAddrSent
  BY DEF MonitorSeesStart
<1>2. s \in Seq(All) /\ s # <<>> /\ s[1].do = "ibiAck"
  BY InlineInOrder DEF BenchInvariant, KnobTypeOK
<1>3. Head(s).do = "ibiAck"
  <2>1. Head(s) = s[1]
    BY <1>2
  <2> QED
    BY <1>2, <2>1
<1>4. script'["bg"] = s /\ script'["fg"] = script["fg"]
  BY <1>1 DEF Goto, BenchInvariant, ScriptTypeOK
<1>5. Busy("fg") => Head(script["fg"]).do = "take"
  BY DEF MonitorSeesStart, BenchInvariant, DisabledInCall, MonitorWaits, At, Busy
<1>6. ASSUME NEW w \in {"fg", "bg"}, Busy(w)' PROVE Hears(script[w])'
  <2>1. CASE w = "bg"
    BY <1>3, <1>4, <2>1 DEF Hears
  <2>2. CASE w = "fg"
    BY <1>4, <1>5, <1>6, <2>2 DEF Hears, Busy
  <2> QED
    BY <2>1, <2>2
<1>7. StepsHeard'
  BY <1>6 DEF StepsHeard
<1>8. FrameOver'
  BY <1>1 DEF IbiAddrSent, Move, To, FrameOver
<1> QED
  BY <1>7, <1>8

LEMMA BeginIbiHeard ==
    ASSUME FrameOver, StepsHeard, BeginIbi PROVE FrameOver' /\ StepsHeard'
<1>1. bus = "available" /\ bus' = "active" /\ script' = script /\ fsm' = "IbiDriveAddr"
  BY DEF BeginIbi, InitiateIbi, To
<1>2. ASSUME NEW w \in {"fg", "bg"}, Busy(w)' PROVE Hears(script[w])'
  <2>1. Hears(script[w])
    BY <1>1, <1>2 DEF StepsHeard, Busy
  <2> QED
    BY <1>1, <2>1 DEF Hears
<1>3. StepsHeard'
  BY <1>2 DEF StepsHeard
<1> QED
  BY <1>1, <1>3 DEF FrameOver

\* What the internal steps of the target change of what is heard.
LEMMA TargetChanges ==
    ASSUME TargetMoves, FrameOver
    PROVE  /\ bus = "active" => bus' = "active"
           /\ fsm' # fsm =>
                 /\ fsm \in {"CheckFByte", "CheckSByte", "TxPReadTbitSel"}
                 /\ fsm' \notin WriteStates \cup Arbitrates
                 /\ fsm' \in AddressStates =>
                       fsm \in AddressStates /\ header \in Ours \cup {"rsvdW"}
           /\ bus' = bus \/ fsm' = fsm
           /\ fsm' \in AddressStates => header' = header
           /\ parityErr' => parityErr
           /\ script' = script /\ taken' = taken
<1>0. script' = script /\ taken' = taken
  BY DEF TargetMoves, ghosts
<1>1. CASE BusAvailable \/ ReleaseInhibit \/ ByteAccepted
  BY <1>0, <1>1 DEF BusAvailable, ReleaseInhibit, ByteAccepted, selVars, writeVars
<1>2. CASE TbitSelected(TRUE)
  BY <1>0, <1>2 DEF TbitSelected, To, WriteStates, Arbitrates, AddressStates
<1>3. ASSUME NEW avail \in BOOLEAN, CheckFByte(avail) \/ CheckSByte(avail)
      PROVE  /\ bus' = bus /\ header' = header /\ parityErr' = parityErr
             /\ fsm \in {"CheckFByte", "CheckSByte"}
             /\ fsm' \notin WriteStates \cup Arbitrates
             /\ fsm' \in AddressStates => header \in Ours \cup {"rsvdW"}
  BY <1>3 DEF CheckFByte, CheckSByte, Check, Verdict, writeVars, WriteStates, Arbitrates, AddressStates
<1>4. CASE \E avail \in BOOLEAN : CheckFByte(avail) \/ CheckSByte(avail)
  BY <1>0, <1>3, <1>4 DEF AddressStates
<1> QED
  BY <1>1, <1>2, <1>4 DEF TargetMoves

LEMMA TargetHeard ==
    ASSUME FrameOver, StepsHeard, TargetMoves PROVE FrameOver' /\ StepsHeard'
<1>1. ASSUME NEW w \in {"fg", "bg"}, Busy(w)' PROVE Hears(script[w])'
  <2>1. Hears(script[w])
    BY <1>1, TargetChanges DEF StepsHeard, Busy
  <2>2. CASE fsm' = fsm
    BY <2>1, <2>2, TargetChanges DEF Hears, FsmHeader, AddressStates
  <2>3. CASE fsm' # fsm
    BY <2>1, <2>3, TargetChanges DEF Hears, WriteStates, AddressStates, FsmHeader
  <2> QED
    BY <2>2, <2>3
<1>2. StepsHeard'
  BY <1>1 DEF StepsHeard
<1>3. FrameOver'
  BY TargetChanges DEF FrameOver
<1> QED
  BY <1>2, <1>3

-----------------------------------------------------------------------------
(* Steps that deliver nothing of a write. *)

Mild == {e \in Steps : e.do \in Serves /\ Plain(e)}

\* Scripts which take steps of a kind and end in a step of another.
Through(s, B, D) ==
    /\ s \in Seq(All) /\ s # <<>> /\ s[Len(s)].do \in D
    /\ \A i \in 1..(Len(s) - 1) : s[i].do \in B

LEMMA TailFacts ==
    ASSUME NEW s \in Seq(All), s # <<>>
    PROVE  /\ Tail(s) \in Seq(All) /\ Len(s) \in Nat /\ Len(s) >= 1 /\ Len(Tail(s)) = Len(s) - 1
           /\ Head(s) = s[1] /\ \A i \in 1..Len(Tail(s)) : Tail(s)[i] = s[i + 1]
  OBVIOUS

LEMMA CleanRest ==
    ASSUME NEW s \in Seq(All), s # <<>>, Clean(s)
    PROVE  Plain(Head(s)) /\ Clean(Tail(s))
<1>1. 1 \in 1..Len(s) /\ \A i \in 1..Len(Tail(s)) : i + 1 \in 1..Len(s)
  BY TailFacts
<1> QED
  BY <1>1, TailFacts DEF Clean

LEMMA CleanSkip ==
    ASSUME NEW s \in Seq(All), Clean(s) PROVE Clean(SkipData(s))
<1>1. /\ DataSteps(s) \in 0..Len(s) /\ Len(SkipData(s)) = Len(s) - DataSteps(s) /\ Len(s) \in Nat
      /\ \A i \in 1..Len(SkipData(s)) : SkipData(s)[i] = s[i + DataSteps(s)]
  BY DataStepsBounded, SkipTyped
<1>2. \A i \in 1..Len(SkipData(s)) : i + DataSteps(s) \in 1..Len(s)
  BY <1>1
<1> QED
  BY <1>1, <1>2 DEF Clean

LEMMA CleanMore ==
    ASSUME NEW e \in All, Plain(e), NEW t \in Seq(All), Clean(t) PROVE Clean(<<e>> \o t)
<1> PICK s : s = <<e>> \o t
  OBVIOUS
<1>1. /\ Len(s) = Len(t) + 1 /\ s[1] = e /\ Len(t) \in Nat
      /\ \A i \in 1..Len(t) : s[i + 1] = t[i]
  BY OneMore
<1>2. ASSUME NEW i \in 1..Len(s) PROVE Plain(s[i])
  <2>1. CASE i = 1
    BY <1>1, <2>1
  <2>2. CASE i # 1
    <3> PICK k : k = i - 1
      OBVIOUS
    <3>1. k \in 1..Len(t) /\ i = k + 1
      BY <1>1, <2>2
    <3>2. s[i] = t[k]
      BY <1>1, <3>1
    <3> QED
      BY <3>1, <3>2 DEF Clean
  <2> QED
    BY <2>1, <2>2
<1> QED
  BY <1>2 DEF Clean

LEMMA ThroughRest ==
    ASSUME NEW s, NEW B, NEW D, Through(s, B, D), Head(s).do \notin D
    PROVE  Head(s).do \in B /\ Through(Tail(s), B, D)
<1> PICK t : t = Tail(s)
  OBVIOUS
<1>1. /\ t \in Seq(All) /\ Len(s) \in Nat /\ Len(s) >= 1 /\ Len(t) = Len(s) - 1
      /\ Head(s) = s[1] /\ \A i \in 1..Len(t) : t[i] = s[i + 1]
  BY TailFacts DEF Through
<1>2. Len(s) # 1
  BY <1>1 DEF Through
<1>3. 1 \in 1..(Len(s) - 1) /\ Len(t) \in 1..Len(t) /\ Len(t) + 1 = Len(s)
  BY <1>1, <1>2
<1>4. t # <<>> /\ t[Len(t)] = s[Len(s)]
  <2>1. t[Len(t)] = s[Len(t) + 1]
    BY <1>1, <1>3
  <2> QED
    BY <1>1, <1>2, <1>3, <2>1
<1>5. ASSUME NEW i \in 1..(Len(t) - 1) PROVE t[i].do \in B
  <2>1. i \in 1..Len(t) /\ i + 1 \in 1..(Len(s) - 1)
    BY <1>1
  <2> QED
    BY <1>1, <2>1 DEF Through
<1> QED
  BY <1>1, <1>3, <1>4, <1>5 DEF Through

LEMMA ThroughSkip ==
    ASSUME NEW s, NEW B, NEW D, Through(s, B, D), D \cap Data = {}
    PROVE  Through(SkipData(s), B, D)
<1> PICK d, t : d = DataSteps(s) /\ t = SkipData(s)
  OBVIOUS
<1>0. s \in Seq(All)
  BY DEF Through
<1>1. /\ d \in 0..Len(s) /\ t \in Seq(All) /\ Len(t) = Len(s) - d /\ Len(s) \in Nat
      /\ \A i \in 1..Len(t) : t[i] = s[i + d]
  BY <1>0, DataStepsBounded, SkipTyped
<1>2. d # Len(s)
  <2> DEFINE T == {i \in 1..Len(s) : \A j \in 1..i : s[j].do \in Data}
  <2>1. d = Cardinality(T)
    BY DEF DataSteps
  <2>2. Len(s) \in 1..Len(s) /\ s[Len(s)].do \notin Data
    <3>1. Len(s) # 0
      BY <1>0 DEF Through
    <3> QED
      BY <1>1, <3>1 DEF Through
  <2>3. T \subseteq 1..(Len(s) - 1)
    <3>1. \A i \in T : i # Len(s)
      BY <1>1, <2>2
    <3> QED
      BY <1>1, <3>1
  <2>4. IsFiniteSet(1..(Len(s) - 1)) /\ Cardinality(1..(Len(s) - 1)) = Len(s) - 1
    <3>1. 1 \in Int /\ Len(s) - 1 \in Int /\ Len(s) - 1 >= 0
      BY <1>1, <2>2
    <3>2. /\ IsFiniteSet(1..(Len(s) - 1))
          /\ Cardinality(1..(Len(s) - 1)) = IF 1 > Len(s) - 1 THEN 0 ELSE (Len(s) - 1) - 1 + 1
      BY <3>1, FS_Interval
    <3> QED
      BY <1>1, <3>1, <3>2
  <2>5. Cardinality(T) <= Cardinality(1..(Len(s) - 1))
    BY <2>3, <2>4, FS_Subset
  <2> HIDE DEF T
  <2> QED
    BY <1>1, <2>1, <2>2, <2>4, <2>5
<1>3. Len(t) >= 1 /\ Len(t) \in Nat /\ Len(t) + d = Len(s)
  BY <1>1, <1>2
<1>4. t[Len(t)] = s[Len(s)]
  <2>1. Len(t) \in 1..Len(t)
    BY <1>3
  <2>2. t[Len(t)] = s[Len(t) + d]
    BY <1>1, <2>1
  <2> QED
    BY <1>3, <2>2
<1>5. ASSUME NEW i \in 1..(Len(t) - 1) PROVE t[i].do \in B
  <2> PICK n, m : n = Len(t) /\ m = Len(s)
    OBVIOUS
  <2>2. n \in Nat /\ m \in Nat /\ d \in Nat /\ n + d = m /\ i \in Nat /\ 1 <= i /\ i <= n - 1
    BY <1>1, <1>3
  <2>3. i + d <= m - 1 /\ i + d >= 1 /\ i + d \in Nat
    BY <2>2
  <2>1. i \in 1..Len(t) /\ i + d \in 1..(Len(s) - 1)
    BY <2>2, <2>3
  <2> QED
    BY <1>1, <2>1 DEF Through
<1> QED
  BY <1>1, <1>3, <1>4, <1>5 DEF Through

LEMMA ThroughMore ==
    ASSUME NEW e \in All, NEW t, NEW B, NEW D, Through(t, B, D), e.do \in B
    PROVE  Through(<<e>> \o t, B, D)
<1> PICK s : s = <<e>> \o t
  OBVIOUS
<1>0. t \in Seq(All) /\ t # <<>>
  BY DEF Through
<1>1. /\ s \in Seq(All) /\ s # <<>> /\ Len(s) = Len(t) + 1 /\ s[1] = e
      /\ \A i \in 1..Len(t) : s[i + 1] = t[i]
  BY <1>0, OneMore
<1>2. Len(t) \in Nat /\ Len(t) >= 1
  BY <1>0
<1>3. s[Len(s)] = t[Len(t)]
  <2>1. Len(t) \in 1..Len(t)
    BY <1>2
  <2> QED
    BY <1>1, <2>1
<1>4. ASSUME NEW i \in 1..(Len(s) - 1) PROVE s[i].do \in B
  <2>1. CASE i = 1
    BY <1>1, <2>1
  <2>2. CASE i # 1
    <3> PICK k : k = i - 1
      OBVIOUS
    <3>1. k \in 1..(Len(t) - 1) /\ k \in 1..Len(t) /\ i = k + 1
      BY <1>1, <1>2, <2>2
    <3>2. s[i] = t[k]
      BY <1>1, <3>1
    <3> QED
      BY <3>1, <3>2 DEF Through
  <2> QED
    BY <2>1, <2>2
<1> QED
  BY <1>1, <1>3, <1>4 DEF Through

LEMMA MildClean == ASSUME NEW s \in Seq(Mild) PROVE Clean(s) /\ s \in Seq(All)
<1>1. \A i \in 1..Len(s) : s[i] \in Mild
  OBVIOUS
<1>2. Mild \subseteq All
  BY DEF Mild, All
<1> QED
  BY <1>1, <1>2 DEF Clean, Mild

\* Mild steps, then one that ends the script.
LEMMA MildThen ==
    ASSUME NEW b \in Seq(Mild), NEW e \in All, Plain(e)
    PROVE  Clean(b \o <<e>>) /\ Through(b \o <<e>>, Serves, {e.do})
<1> PICK s : s = b \o <<e>>
  OBVIOUS
<1>0. b \in Seq(All)
  BY MildClean
<1>1. /\ s \in Seq(All) /\ Len(s) = Len(b) + 1 /\ Len(b) \in Nat /\ s[Len(b) + 1] = e
      /\ \A i \in 1..Len(b) : s[i] = b[i]
  BY <1>0
<1>2. \A i \in 1..Len(b) : b[i] \in Mild
  OBVIOUS
<1>3. ASSUME NEW i \in 1..Len(b) PROVE Plain(s[i]) /\ s[i].do \in Serves
  BY <1>1, <1>2 DEF Mild
<1>4. ASSUME NEW i \in 1..Len(s) PROVE Plain(s[i])
  <2>1. i = Len(b) + 1 \/ i \in 1..Len(b)
    BY <1>1
  <2> QED
    BY <1>1, <1>3, <2>1
<1>5. \A i \in 1..(Len(s) - 1) : i \in 1..Len(b)
  BY <1>1
<1>6. s # <<>>
  BY <1>1
<1> QED
  BY <1>1, <1>3, <1>4, <1>5, <1>6 DEF Clean, Through

LEMMA PlainEnds == \A e \in All : e.do # "tbit" => Plain(e)
  BY DEF Plain

LEMMA MildFacts ==
    /\ start \in Mild /\ stop \in Mild
    /\ \A h \in Addresses : addr(h) \in Mild
    /\ \A h \in Addresses, b \in BOOLEAN : ack(h, b) \in Mild
    /\ \A c \in Bytes : byte(c) \in Mild
    /\ \A c \in Bytes \ {"data"}, g \in BOOLEAN : g \/ c \in Commands => tbit(c, g) \in Mild
    /\ \A k \in Nat : read(k) \in Mild /\ readTbit(k) \in Mild
    /\ [do |-> "ibiAck"] \in Mild
<1>1. start \in Mild /\ stop \in Mild /\ [do |-> "ibiAck"] \in Mild
  BY StepFacts DEF Mild, Serves, Plain, start, stop
<1>2. \A h \in Addresses : addr(h) \in Mild
  BY StepFacts DEF Mild, Serves, Plain, addr
<1>3. \A h \in Addresses, b \in BOOLEAN : ack(h, b) \in Mild
  BY StepFacts DEF Mild, Serves, Plain, ack
<1>4. \A c \in Bytes : byte(c) \in Mild
  BY StepFacts DEF Mild, Serves, Plain, byte
<1>5. ASSUME NEW c \in Bytes \ {"data"}, NEW g \in BOOLEAN, g \/ c \in Commands
      PROVE  tbit(c, g) \in Mild
  BY <1>5, StepFacts DEF Mild, Serves, Plain, tbit, PrivateBytes
<1>6. \A k \in Nat : read(k) \in Mild /\ readTbit(k) \in Mild
  BY StepFacts DEF Mild, Serves, Plain, read, readTbit
<1> QED
  BY <1>1, <1>2, <1>3, <1>4, <1>5, <1>6

LEMMA MildJoin ==
    ASSUME NEW a \in Seq(Mild), NEW b \in Seq(Mild) PROVE a \o b \in Seq(Mild)
  OBVIOUS

LEMMA MildOne == ASSUME NEW e \in Mild PROVE <<e>> \in Seq(Mild)
  OBVIOUS

LEMMA MildTwo == ASSUME NEW e \in Mild, NEW f \in Mild PROVE <<e, f>> \in Seq(Mild)
  OBVIOUS

LEMMA MildPieces ==
    /\ <<start>> \in Seq(Mild) /\ Reserved \in Seq(Mild)
    /\ \A b \in BOOLEAN : StopIf(b) \in Seq(Mild)
    /\ \A h \in Addresses, b \in BOOLEAN : Header(h, b) \in Seq(Mild)
    /\ \A c \in Bytes \ {"data"}, g \in BOOLEAN : g \/ c \in Commands => WriteByte(c, g) \in Seq(Mild)
    /\ \A k \in Nat : <<read(k)>> \in Seq(Mild) /\ <<[do |-> "ibiAck"], read(k)>> \in Seq(Mild)
<1>1. <<start>> \in Seq(Mild) /\ <<stop>> \in Seq(Mild)
  BY MildFacts, MildOne
<1>2. \A h \in Addresses, b \in BOOLEAN : Header(h, b) \in Seq(Mild)
  BY MildFacts, MildTwo DEF Header
<1>3. Reserved \in Seq(Mild)
  <2>1. "rsvdW" \in Addresses /\ FALSE \in BOOLEAN
    BY DEF Addresses
  <2> QED
    BY <1>1, <1>2, <2>1, MildJoin, Zenon DEF Reserved
<1>4. \A b \in BOOLEAN : StopIf(b) \in Seq(Mild)
  BY <1>1 DEF StopIf
<1>5. ASSUME NEW c \in Bytes \ {"data"}, NEW g \in BOOLEAN, g \/ c \in Commands
      PROVE  WriteByte(c, g) \in Seq(Mild)
  <2>1. byte(c) \in Mild /\ tbit(c, g) \in Mild
    BY <1>5, MildFacts
  <2>2. ASSUME NEW n \in Nat PROVE WriteBytes(n, c, g) \in Seq(Mild)
    <3>1. WriteBytes(n, c, g) \in [1..(2 * n) -> Mild] /\ 2 * n \in Nat
      BY <2>1 DEF WriteBytes
    <3> QED
      BY <3>1
  <2> QED
    BY <2>2 DEF WriteByte
<1>6. \A k \in Nat : <<read(k)>> \in Seq(Mild) /\ <<[do |-> "ibiAck"], read(k)>> \in Seq(Mild)
  BY MildFacts, MildOne, MildTwo
<1> QED
  BY <1>1, <1>2, <1>3, <1>4, <1>5, <1>6

\* No other call than a write has steps that count.
LEMMA OtherScriptMild == ASSUME NEW o \in Ops \ Writes PROVE Script(o) \in Seq(Mild)
<1> o \in Calls /\ o.kind # "write"
  BY OpsAssumption DEF Writes
<1>1. CASE o.kind = "read"
  <2>1. o.to \in Addresses /\ o.n \in Nat /\ o.stop \in BOOLEAN /\ o.rsvd \in BOOLEAN
    BY <1>1 DEF Calls, Addresses
  <2>2. (IF o.rsvd THEN Reserved ELSE <<>>) \in Seq(Mild)
    BY MildPieces
  <2>3. /\ Header(o.to, TRUE) \in Seq(Mild) /\ StopIf(o.stop) \in Seq(Mild)
        /\ <<read(o.n)>> \in Seq(Mild)
    BY <2>1, MildPieces
  <2>4. I3cRead(o) \in Seq(Mild)
    BY <2>2, <2>3, MildPieces, MildJoin, Zenon DEF I3cRead
  <2> QED
    BY <1>1, <2>4 DEF Script
<1>2. CASE o.kind = "ccc"
  <2>1. o.c \in Commands /\ o.c \in Bytes \ {"data"} /\ "BCAST" \in Bytes \ {"data"} /\ o.stop \in BOOLEAN
    BY <1>2 DEF Calls, Bytes, Commands
  <2>2. /\ WriteByte("BCAST", TRUE) \in Seq(Mild) /\ WriteByte(o.c, TRUE) \in Seq(Mild)
        /\ StopIf(o.stop) \in Seq(Mild)
    BY <2>1, MildPieces
  <2>3. I3cCccWrite(o) \in Seq(Mild)
    BY <2>2, MildPieces, MildJoin, Zenon DEF I3cCccWrite
  <2> QED
    BY <1>2, <2>3 DEF Script
<1>3. CASE o.kind = "te0"
  <2>1. Header("rsvdR", FALSE) \in Seq(Mild)
    BY MildPieces DEF Addresses
  <2>2. SendTe0Error \in Seq(Mild)
    BY <2>1, MildPieces, MildJoin, Zenon DEF SendTe0Error
  <2> QED
    BY <1>3, <2>2 DEF Script
<1>4. CASE o.kind = "te1"
  <2>1. WriteByte("ENTHDR", FALSE) \in Seq(Mild)
    BY MildPieces DEF Bytes, Commands
  <2>2. SendTe1Error \in Seq(Mild)
    BY <2>1, MildPieces, MildJoin, Zenon DEF SendTe1Error
  <2> QED
    BY <1>4, <2>2 DEF Script
<1> QED
  BY <1>1, <1>2, <1>3, <1>4 DEF Calls

\* Nor has what answers an IBI.
LEMMA InlineMild ==
    ASSUME NEW c \in Chains \cup {"none"}, NEW l \in Limits, NEW b \in BOOLEAN
    PROVE  HandleIbiInline(c, l, b) \in Seq(Mild)
<1>1. l \in Nat /\ l + 1 \in Nat /\ c \in {"none", "write", "enec", "disec", "BCAST"}
  BY ChainsAssumption, LimitsAssumption
<1>2. /\ <<[do |-> "ibiAck"], read(l + 1)>> \in Seq(Mild) /\ StopIf(b) \in Seq(Mild)
      /\ <<stop>> \in Seq(Mild)
  <2>1. <<stop>> \in Seq(Mild)
    BY MildFacts, MildOne
  <2> QED
    BY <1>1, <2>1, MildPieces
<1>3. ExecuteChainWrite("mainW") \in Seq(Mild)
  <2>1. Header("mainW", TRUE) \in Seq(Mild) /\ WriteByte("chained", TRUE) \in Seq(Mild)
    BY MildPieces DEF Addresses, Bytes
  <2> QED
    BY <1>2, <2>1, MildPieces, MildJoin, Zenon DEF ExecuteChainWrite
<1>4. ASSUME c \notin {"none", "write"} PROVE ExecuteChainCcc(c) \in Seq(Mild)
  <2>1. c \in Bytes \ {"data"} /\ "BCAST" \in Bytes \ {"data"}
    BY <1>1, <1>4 DEF Bytes
  <2>2. WriteByte(c, TRUE) \in Seq(Mild) /\ WriteByte("BCAST", TRUE) \in Seq(Mild)
    BY <2>1, MildPieces
  <2> QED
    BY <1>2, <2>2, MildPieces, MildJoin, Zenon DEF ExecuteChainCcc
<1>5. HandleIbiInline(c, l, b) =
        <<[do |-> "ibiAck"], read(l + 1)>>
        \o IF c = "none" THEN StopIf(b)
           ELSE IF c = "write" THEN ExecuteChainWrite("mainW") ELSE ExecuteChainCcc(c)
  BY DEF HandleIbiInline
<1> PICK d : d = IF c = "none" THEN StopIf(b)
                 ELSE IF c = "write" THEN ExecuteChainWrite("mainW") ELSE ExecuteChainCcc(c)
  OBVIOUS
<1>6. d \in Seq(Mild)
  BY <1>2, <1>3, <1>4
<1> QED
  BY <1>2, <1>5, <1>6, MildJoin

LEMMA TwoThenOne ==
    ASSUME NEW a \in All, NEW r \in All, NEW e \in All, NEW B, NEW d,
           a.do \in B, r.do \in B, e.do = d
    PROVE  Through(<<a, r>> \o <<e>>, B, {d})
<1> PICK s : s = <<a, r>> \o <<e>>
  OBVIOUS
<1>1. Len(s) = 3 /\ s[1] = a /\ s[2] = r /\ s[3] = e
  OBVIOUS
<1>2. s \in Seq(All) /\ s # <<>>
  OBVIOUS
<1>3. ASSUME NEW i \in 1..(Len(s) - 1) PROVE s[i].do \in B
  <2>1. i = 1 \/ i = 2
    BY <1>1
  <2> QED
    BY <1>1, <2>1
<1> QED
  BY <1>1, <1>2, <1>3 DEF Through

\* With nothing chained, a lost attempt only has the IBI to answer.
Answers == {"ibiAck", "read", "readTbit"}

LEMMA LostMild ==
    ASSUME KnobTypeOK, NEW s, s = HandleIbiInline(chain, limit, FALSE) \o <<[do |-> "retry"]>>
    PROVE  /\ Clean(s) /\ Through(s, Serves, {"retry"})
           /\ chain = "none" => Through(s, Answers, {"retry"})
<1> PICK i, e : i = HandleIbiInline(chain, limit, FALSE) /\ e = [do |-> "retry"]
  OBVIOUS
<1>1. i \in Seq(Mild)
  BY InlineMild DEF KnobTypeOK
<1>2. e \in All /\ Plain(e) /\ e.do = "retry"
  BY StepFacts DEF All, Plain
<1>3. Clean(s) /\ Through(s, Serves, {"retry"})
  BY <1>1, <1>2, MildThen
<1>4. ASSUME chain = "none" PROVE Through(s, Answers, {"retry"})
  <2> PICK a, r : a = [do |-> "ibiAck"] /\ r = read(limit + 1)
    OBVIOUS
  <2>0. limit + 1 \in Nat
    BY LimitsAssumption DEF KnobTypeOK
  <2>1. a \in Mild /\ r \in Mild /\ a.do \in Answers /\ r.do \in Answers
    <3>1. r \in Mild
      BY <2>0, MildFacts
    <3> QED
      BY <3>1, MildFacts DEF Answers, read
  <2>2. i = <<a, r>> \o <<>>
    BY <1>4 DEF HandleIbiInline, StopIf
  <2>3. <<a, r>> \o <<>> = <<a, r>>
    BY <2>1, MildTwo
  <2>4. s = <<a, r>> \o <<e>> /\ e \in All /\ a \in All /\ r \in All
    BY <1>2, <2>1, <2>2, <2>3 DEF Mild, All
  <2> QED
    BY <1>2, <2>1, <2>4, TwoThenOne
<1> QED
  BY <1>3, <1>4

-----------------------------------------------------------------------------
(* What a step does to a write. *)

\* A plain step delivers nothing, and leaves the parity of the data alone.
LEMMA PlainStep ==
    ASSUME NEW who \in {"fg", "bg"}, Bus(who), StepsHeard, Plain(Head(script[who])),
           ~parityErr
    PROVE  taken' = taken /\ ~parityErr'
<1>1. CASE SendStart(who)
  BY <1>1 DEF SendStart, StartSeen, Start, RepeatedStart, To, fsmVars, writeVars, ghosts
<1>2. CASE SendStop(who)
  BY <1>2 DEF SendStop, Stop, To, fsmVars, writeVars
<1>3. CASE SendReserved(who)
  BY <1>3 DEF SendReserved, IbiAddrSent, Move, To, AddressHeard, FByteReceived, SByteReceived,
              Receive, fsmVars, writeVars, ghosts
<1>4. CASE SendAddress(who)
  <2>1. taken' = taken
    BY <1>4 DEF SendAddress
  <2>2. PICK h : \/ AddressHeard(h) \/ IbiAddrSent \/ DriveAddrLost \/ HeaderArbLostLate(FsmHeader(h))
    BY <1>4 DEF SendAddress
  <2>3. ~parityErr'
    BY <2>2 DEF IbiAddrSent, DriveAddrLost, HeaderArbLostLate, Move, To, AddressHeard,
                FByteReceived, SByteReceived, Receive, fsmVars, writeVars
  <2> QED
    BY <2>1, <2>3
<1>5. CASE ReceiveAck(who)
  BY <1>5 DEF ReceiveAck, AckSent, IbiNacked, Move, To, fsmVars, writeVars, ghosts
<1>6. CASE SendByte(who)
  BY <1>6 DEF SendByte, WriteByteReceived, CccReceived, Move, To, fsmVars, writeVars, ghosts
<1>7. CASE SendTbit(who)
  <2> PICK a : a = Head(script[who])
    OBVIOUS
  <2>1. a.do = "tbit" /\ a.c # "data" /\ (fsm = "RxPWriteTbit" => a.good)
    BY <1>7 DEF SendTbit, At, StepsHeard, Hears, WriteStates, Plain
  <2>2. taken' = taken
    BY <1>7, <2>1 DEF SendTbit
  <2>3. CASE fsm = "RxPWriteTbit"
    BY <1>7, <2>1, <2>2, <2>3 DEF SendTbit, WriteTbitReceived
  <2>4. CASE fsm # "RxPWriteTbit"
    BY <1>7, <2>2, <2>4 DEF SendTbit, CccTbit, CccEntersHdr, SetIbiOn, Move, To, fsmVars, writeVars
  <2> QED
    BY <2>3, <2>4
<1>8. CASE ReadByte(who)
  BY <1>8 DEF ReadByte, ReadByteSent, IbiByteSent, Move, To, fsmVars, writeVars, ghosts
<1>9. CASE ReadTbit(who)
  BY <1>9 DEF ReadTbit, ReadEnded, IbiEnded, ReadAborted, IbiAborted, ReadContinued,
              IbiContinued, Move, To, ghosts
<1>10. CASE AnswerIbi(who)
  BY <1>10 DEF AnswerIbi, IbiAcked, IbiNacked, Move, To, ghosts
<1> QED
  BY <1>1, <1>2, <1>3, <1>4, <1>5, <1>6, <1>7, <1>8, <1>9, <1>10 DEF Bus

\* Where a step on the bus leads a coroutine to.
LEMMA BusGoes ==
    ASSUME BenchInvariant, NEW who \in {"fg", "bg"}, Bus(who)
    PROVE  LET s == script[who]
               t == Tail(s)
               lost == HandleIbiInline(chain, limit, FALSE) \o <<[do |-> "retry"]>>
           IN  /\ Busy(who) /\ Head(s).do \in Serves
               /\ \/ Goto(who, t)
                  \/ Goto(who, SkipData(t))
                  \/ \E e \in All : e.do \in {"read", "readTbit"} /\ Goto(who, <<e>> \o t)
                                    /\ Head(s).do \in {"read", "readTbit"}
                  \/ /\ Goto(who, lost) /\ Contends /\ Head(s).do = "addr"
                     /\ chain' = "none" /\ IbiAddrSent
               /\ UNCHANGED <<op, tries, enable, bg>>
               /\ chain' = chain \/ chain' = "none"
<1> PICK s, t : s = script[who] /\ t = Tail(s)
  OBVIOUS
<1>0. Busy(who) => Head(s) \in All
  BY RestTyped DEF All
<1>1. CASE SendStart(who) \/ SendStop(who)
  BY <1>1 DEF SendStart, SendStop, At, Go, Quiet, ibiVars, Serves
<1>2. CASE SendReserved(who)
  BY <1>2 DEF SendReserved, ArbitrationLost, At, Go, callVars, ibiVars, Serves
<1>3. CASE SendAddress(who)
  BY <1>3 DEF SendAddress, At, Go, Quiet, ibiVars, Serves
<1>4. CASE ReceiveAck(who)
  BY <1>4 DEF ReceiveAck, At, Go, Quiet, ibiVars, Serves
<1>5. CASE SendByte(who) \/ SendTbit(who)
  BY <1>5 DEF SendByte, SendTbit, At, Go, Quiet, ibiVars, Serves
<1>6. CASE ReadByte(who)
  <2>1. Busy(who) /\ Head(s).do = "read"
    BY <1>6 DEF ReadByte, At
  <2>2. Head(s).k \in Nat
    BY <1>0, <2>1, ReadCarries DEF All
  <2>3. readTbit(Head(s).k) \in All /\ readTbit(Head(s).k).do = "readTbit"
    BY <2>2, StepFacts DEF All, readTbit
  <2> QED
    BY <1>6, <2>1, <2>3 DEF ReadByte, callVars, ibiVars, Serves
<1>7. CASE ReadTbit(who)
  <2>1. Busy(who) /\ Head(s).do = "readTbit"
    BY <1>7 DEF ReadTbit, At
  <2>2. Head(s).k \in Nat
    BY <1>0, <2>1, ReadCarries DEF All
  <2>3. Goto(who, t) \/ (Head(s).k > 1 /\ Goto(who, <<read(Head(s).k - 1)>> \o t))
    BY <1>7 DEF ReadTbit
  <2>4. ASSUME Head(s).k > 1
        PROVE  read(Head(s).k - 1) \in All /\ read(Head(s).k - 1).do = "read"
    <3>1. Head(s).k - 1 \in Nat
      BY <2>2, <2>4
    <3> QED
      BY <3>1, StepFacts DEF All, read
  <2>5. \/ Goto(who, t)
        \/ \E e \in All : e.do \in {"read", "readTbit"} /\ Goto(who, <<e>> \o t)
    BY <2>3, <2>4
  <2> QED
    BY <1>7, <2>1, <2>5 DEF ReadTbit, callVars, ibiVars, Serves
<1>8. CASE AnswerIbi(who)
  BY <1>8 DEF AnswerIbi, At, callVars, ibiVars, Serves
<1> QED
  BY <1>1, <1>2, <1>3, <1>4, <1>5, <1>6, <1>7, <1>8 DEF Bus

LEMMA ScriptsAfter ==
    ASSUME BenchInvariant, NEW who \in {"fg", "bg"}, NEW s, Goto(who, s)
    PROVE  script'[who] = s /\ \A w \in {"fg", "bg"} \ {who} : script'[w] = script[w]
  BY DEF Goto, BenchInvariant, ScriptTypeOK

LEMMA ScriptIsSeq ==
    ASSUME BenchInvariant, NEW who \in {"fg", "bg"}
    PROVE  script[who] \in Seq(All) /\ (Busy(who) => Tail(script[who]) \in Seq(All))
<1>1. script[who] \in Seq(All)
  BY DEF BenchInvariant, ScriptTypeOK, All
<1> QED
  BY <1>1, TailFacts DEF Busy

\* A script of plain steps stays one.
LEMMA BusClean ==
    ASSUME BenchInvariant, NEW who \in {"fg", "bg"}, Bus(who), Clean(script[who])
    PROVE  Clean(script'[who]) /\ \A w \in {"fg", "bg"} \ {who} : script'[w] = script[w]
<1> PICK t, lost : /\ t = Tail(script[who])
                   /\ lost = HandleIbiInline(chain, limit, FALSE) \o <<[do |-> "retry"]>>
  OBVIOUS
<1>1. /\ Busy(who)
      /\ \/ Goto(who, t)
         \/ Goto(who, SkipData(t))
         \/ \E e \in All : e.do \in {"read", "readTbit"} /\ Goto(who, <<e>> \o t)
         \/ Goto(who, lost)
  BY BusGoes
<1>2. t \in Seq(All) /\ Clean(t)
  BY <1>1, ScriptIsSeq, CleanRest DEF Busy
<1>3. CASE Goto(who, t)
  BY <1>2, <1>3, ScriptsAfter
<1>4. CASE Goto(who, SkipData(t))
  BY <1>2, <1>4, CleanSkip, ScriptsAfter
<1>5. ASSUME NEW e \in All, e.do \in {"read", "readTbit"}, Goto(who, <<e>> \o t)
      PROVE  Clean(script'[who]) /\ \A w \in {"fg", "bg"} \ {who} : script'[w] = script[w]
  <2>1. Clean(<<e>> \o t)
    BY <1>2, <1>5, CleanMore DEF Plain
  <2> QED
    BY <1>5, <2>1, ScriptsAfter
<1>6. CASE Goto(who, lost)
  BY <1>6, LostMild, ScriptsAfter DEF BenchInvariant
<1> QED
  BY <1>1, <1>3, <1>4, <1>5, <1>6

\* Unless an arbitration is lost, a script goes on through the same kinds of
\* steps to the same end.
LEMMA BusThrough ==
    ASSUME BenchInvariant, NEW who \in {"fg", "bg"}, Bus(who),
           NEW B, NEW D, Through(script[who], B, D), D \cap Serves = {},
           {"read", "readTbit"} \subseteq B
    PROVE  LET lost == HandleIbiInline(chain, limit, FALSE) \o <<[do |-> "retry"]>>
           IN  /\ Head(script[who]).do \in B
               /\ \/ Through(script'[who], B, D)
                  \/ script'[who] = lost /\ Contends /\ Head(script[who]).do = "addr"
                     /\ chain' = "none" /\ IbiAddrSent
<1> PICK s, t, lost : /\ s = script[who] /\ t = Tail(s)
                      /\ lost = HandleIbiInline(chain, limit, FALSE) \o <<[do |-> "retry"]>>
  OBVIOUS
<1>1. /\ Busy(who) /\ Head(s).do \in Serves
      /\ \/ Goto(who, t)
         \/ Goto(who, SkipData(t))
         \/ \E e \in All : e.do \in {"read", "readTbit"} /\ Goto(who, <<e>> \o t)
         \/ Goto(who, lost) /\ Contends /\ Head(s).do = "addr" /\ chain' = "none" /\ IbiAddrSent
  BY BusGoes
<1>2. Head(s).do \in B /\ Through(t, B, D)
  BY <1>1, ThroughRest
<1>3. CASE Goto(who, t)
  BY <1>2, <1>3, ScriptsAfter
<1>4. CASE Goto(who, SkipData(t))
  <2>1. D \cap Data = {}
    BY DEF Data, Serves
  <2>2. Through(SkipData(t), B, D)
    BY <1>2, <2>1, ThroughSkip
  <2> QED
    BY <1>2, <1>4, <2>2, ScriptsAfter
<1>5. ASSUME NEW e \in All, e.do \in {"read", "readTbit"}, Goto(who, <<e>> \o t)
      PROVE  Through(script'[who], B, D)
  <2>1. Through(<<e>> \o t, B, D)
    BY <1>2, <1>5, ThroughMore
  <2> QED
    BY <1>5, <2>1, ScriptsAfter
<1>6. CASE Goto(who, lost) /\ Contends /\ Head(s).do = "addr" /\ chain' = "none" /\ IbiAddrSent
  BY <1>2, <1>6, ScriptsAfter
<1> QED
  BY <1>1, <1>2, <1>3, <1>4, <1>5, <1>6

\* Answering an IBI keeps other IBIs off the bus.
LEMMA AnswersStay ==
    ASSUME NEW who \in {"fg", "bg"}, Bus(who), Head(script[who]).do \in Answers, NoContest
    PROVE  NoContest'
<1>1. ReadByte(who) \/ ReadTbit(who) \/ AnswerIbi(who)
  BY DEF Bus, SendStart, SendStop, SendReserved, SendAddress, ReceiveAck, SendByte, SendTbit, At,
         Answers
<1>2. CASE ReadByte(who)
  BY <1>2 DEF ReadByte, ReadByteSent, IbiByteSent, Move, To, NoContest, Arbitrates
<1>3. CASE ReadTbit(who)
  BY <1>3 DEF ReadTbit, ReadEnded, IbiEnded, ReadAborted, IbiAborted, ReadContinued,
              IbiContinued, Move, To, NoContest, Arbitrates
<1>4. CASE AnswerIbi(who)
  BY <1>4 DEF AnswerIbi, IbiAcked, IbiNacked, Move, To, NoContest, Arbitrates
<1> QED
  BY <1>1, <1>2, <1>3, <1>4

LEMMA ThroughWeaken ==
    ASSUME NEW s, NEW A, NEW B, NEW C, NEW D, Through(s, A, C), A \subseteq B, C \subseteq D
    PROVE  Through(s, B, D)
  BY DEF Through

\* While a lost attempt waits to be made again, it stays lost.
LEMMA LostStep ==
    ASSUME BenchInvariant, StepsHeard, Lost, Bus("fg")
    PROVE  Lost'
<1> PICK s, lost : /\ s = script["fg"]
                   /\ lost = HandleIbiInline(chain, limit, FALSE) \o <<[do |-> "retry"]>>
  OBVIOUS
<1>0. s \in Seq(All)
  BY ScriptIsSeq
<1>1. /\ Clean(s) /\ taken = 0 /\ ~parityErr /\ chain = "none" /\ tries \in 0..1
      /\ Through(s, Serves, {"retry"}) /\ (tries = 1 => NoContest /\ Through(s, Answers, {"retry"}))
  BY <1>0 DEF Lost, Through, Answers
<1>2. Plain(Head(s))
  BY <1>0, <1>1, CleanRest DEF Through
<1>3. taken' = 0 /\ ~parityErr'
  BY <1>1, <1>2, PlainStep
<1>4. Clean(script'["fg"])
  BY <1>1, BusClean
<1>5. tries' = tries /\ chain' = "none"
  BY <1>1, BusGoes
<1>6. Through(lost, Serves, {"retry"})
  BY LostMild DEF BenchInvariant
<1>7. {"retry"} \cap Serves = {} /\ {"read", "readTbit"} \subseteq Serves
      /\ {"read", "readTbit"} \subseteq Answers
  BY DEF Serves, Answers
<1>8. Through(script'["fg"], Serves, {"retry"})
  BY <1>1, <1>6, <1>7, BusThrough
<1>9. ASSUME tries = 1 PROVE NoContest' /\ Through(script'["fg"], Answers, {"retry"})
  <2>1. /\ Head(s).do \in Answers
        /\ Through(script'["fg"], Answers, {"retry"}) \/ Head(s).do = "addr"
    BY <1>1, <1>7, <1>9, BusThrough
  <2>2. NoContest'
    BY <1>1, <1>9, <2>1, AnswersStay
  <2> QED
    BY <2>1, <2>2 DEF Answers
<1> QED
  BY <1>1, <1>3, <1>4, <1>5, <1>8, <1>9 DEF Lost, Through, Answers

-----------------------------------------------------------------------------
(* The calls, step by step. *)

\* Whatever a step may be, and how a call may end.
Kinds == Serves \cup {"retry", "hdrExit", "take", "give", "hold"}
Lasts == {"give", "hold", "retry"}

LEMMA AnyThrough ==
    ASSUME NEW s \in Seq(All), s # <<>>, NEW D, s[Len(s)].do \in D PROVE Through(s, Kinds, D)
<1>1. \A e \in All : e.do \in Kinds
  BY DEF All, Steps, Ends, Kinds, Serves
<1>2. \A i \in 1..(Len(s) - 1) : s[i] \in All
  OBVIOUS
<1> QED
  BY <1>1, <1>2 DEF Through

\* A call that writes nothing goes on writing nothing.
LEMMA OtherStep ==
    ASSUME BenchInvariant, StepsHeard, OtherCall, Bus("fg")
    PROVE  OtherCall'
<1> PICK s, lost : /\ s = script["fg"]
                   /\ lost = HandleIbiInline(chain, limit, FALSE) \o <<[do |-> "retry"]>>
  OBVIOUS
<1>0. s \in Seq(All) /\ Busy("fg") /\ s # <<>>
  BY ScriptIsSeq, BusGoes DEF Busy
<1>1. Clean(s) /\ taken = 0 /\ ~parityErr /\ s[Len(s)].do \in Lasts
  BY <1>0 DEF OtherCall, Lasts
<1>2. Through(s, Kinds, Lasts)
  BY <1>0, <1>1, AnyThrough
<1>3. Plain(Head(s))
  BY <1>0, <1>1, CleanRest
<1>4. taken' = 0 /\ ~parityErr'
  BY <1>1, <1>3, PlainStep
<1>5. Clean(script'["fg"])
  BY <1>1, BusClean
<1>6. Through(lost, Serves, {"retry"})
  BY LostMild DEF BenchInvariant
<1>7. Through(lost, Kinds, Lasts)
  <2>1. Serves \subseteq Kinds /\ {"retry"} \subseteq Lasts
    BY DEF Kinds, Lasts
  <2> QED
    BY <1>6, <2>1, ThroughWeaken, Zenon
<1>8. Lasts \cap Serves = {} /\ {"read", "readTbit"} \subseteq Kinds
  BY DEF Serves, Kinds, Lasts
<1>9. Through(script'["fg"], Kinds, Lasts)
  BY <1>2, <1>7, <1>8, BusThrough
<1> QED
  BY <1>4, <1>5, <1>9 DEF OtherCall, Through, Lasts, Busy

\* While the background monitor is on the bus, a caller waits for it.
LEMMA WaitsAside ==
    ASSUME BenchInvariant, Busy("bg") PROVE Busy("fg") => At("fg", "take")
  BY DEF BenchInvariant, ServesAlone, DisabledInCall, MonitorWaits, At, Busy

LEMMA UnderwayIsOut ==
    ASSUME op \in Writes, Underway
    PROVE  Busy("fg") /\ Head(script["fg"]).do \in Serves \cup {"give"}
<1>1. PICK j \in FirstStep(op)..CallLength(op) : LeftFrom(script["fg"], op, j)
  BY DEF Underway
<1> PICK s : s = script["fg"]
  OBVIOUS
<1>2. FirstStep(op) \in {1, 4} /\ CallLength(op) \in Nat /\ op.n \in Nat
      /\ CallLength(op) = IF op.stop THEN 8 + 2 * op.n ELSE 7 + 2 * op.n
  BY WriteFields
<1>3. j \in Nat /\ j >= 1 /\ j <= CallLength(op)
  BY <1>2
<1>4. Len(s) = CallLength(op) + 1 - j /\ \A i \in 1..Len(s) : s[i] = CallStep(op, i + j - 1)
  BY <1>1 DEF LeftFrom
<1>5. 1 \in 1..Len(s) /\ 1 + j - 1 = j
  BY <1>2, <1>3, <1>4
<1>6. s[1] = CallStep(op, j)
  BY <1>4, <1>5
<1>7. s # <<>> /\ Head(s) = s[1]
  <2>1. Len(s) # 0
    BY <1>5
  <2> QED
    BY <2>1
<1>8. CallStep(op, j).do \in Serves \cup {"give"}
  <2>1. CASE j \in {1, 2, 3, 4, 5, 6}
    BY <1>3, <2>1, CallSteps DEF start, addr, ack, Serves
  <2>2. CASE j > 6 /\ j <= 6 + 2 * op.n
    <3>1. CallStep(op, j) = IF j % 2 = 1 THEN byte("data") ELSE tbit("data", op.good)
      BY <1>3, <2>2, CallSteps
    <3>2. CallStep(op, j) = byte("data") \/ CallStep(op, j) = tbit("data", op.good)
      BY <3>1
    <3>3. CASE CallStep(op, j) = byte("data")
      BY <3>3 DEF byte, Serves
    <3>4. CASE CallStep(op, j) = tbit("data", op.good)
      BY <3>4 DEF tbit, Serves
    <3> QED
      BY <3>2, <3>3, <3>4
  <2>3. CASE j > 6 + 2 * op.n
    <3>1. j = 7 + 2 * op.n \/ j > 7 + 2 * op.n
      BY <1>2, <1>3, <2>3
    <3>2. CallStep(op, j) = stop \/ CallStep(op, j) = [do |-> "give"]
      BY <1>3, <3>1, CallSteps
    <3>3. stop.do \in Serves /\ [do |-> "give"].do = "give"
      BY DEF stop, Serves
    <3> QED
      BY <3>2, <3>3
  <2>4. j \in {1, 2, 3, 4, 5, 6} \/ (j > 6 /\ j <= 6 + 2 * op.n) \/ j > 6 + 2 * op.n
    BY <1>2, <1>3
  <2> QED
    BY <2>1, <2>2, <2>3, <2>4
<1> QED
  BY <1>6, <1>7, <1>8 DEF Busy

LEMMA MoreThanOne == ASSUME NEW n \in Nat, n >= 1, n # 1 PROVE 1 \in 1..(n - 1)
  OBVIOUS

LEMMA LostIsOut ==
    ASSUME BenchInvariant, Lost PROVE Busy("fg") /\ Head(script["fg"]).do \in Serves \cup {"retry"}
<1> PICK s : s = script["fg"]
  OBVIOUS
<1>1. s \in Seq(All) /\ s # <<>> /\ s[Len(s)].do = "retry" /\ \A i \in 1..(Len(s) - 1) : s[i].do \in Serves
  BY ScriptIsSeq DEF Lost
<1>2. Len(s) \in Nat /\ Len(s) >= 1 /\ Head(s) = s[1]
  BY <1>1, TailFacts
<1>3. ASSUME Len(s) # 1 PROVE 1 \in 1..(Len(s) - 1)
  BY <1>2, <1>3, MoreThanOne
<1>4. s[1].do \in Serves \cup {"retry"}
  BY <1>1, <1>3
<1> QED
  BY <1>1, <1>2, <1>4 DEF Busy

\* While the background monitor serves an IBI, no call has the bus.
LEMMA AsideStep ==
    ASSUME BenchInvariant, StepsHeard, Clean(script["bg"]), Bus("bg")
    PROVE  /\ Clean(script["bg"])'
           /\ Asked => Asked'
           /\ OtherCall => OtherCall'
           /\ op \in Writes => ~Underway
           /\ ~Lost
<1>1. Busy("bg") /\ UNCHANGED <<op, tries>>
  BY BusGoes
<1>2. Clean(script'["bg"]) /\ script'["fg"] = script["fg"]
  BY BusClean
<1>3. Plain(Head(script["bg"]))
  BY <1>1, ScriptIsSeq, CleanRest DEF Busy
<1>4. ~parityErr => taken' = taken /\ ~parityErr'
  BY <1>3, PlainStep
<1>5. Busy("fg") => At("fg", "take")
  BY <1>1, WaitsAside
<1>6. Asked => Asked'
  BY <1>1, <1>2, <1>4 DEF Asked, At, Busy, LeftFrom, CallLength, CallStep, FirstStep
<1>7. OtherCall => OtherCall'
  BY <1>1, <1>2, <1>4 DEF OtherCall, Clean, Busy
<1>8. op \in Writes => ~Underway
  BY <1>5, UnderwayIsOut DEF At, Serves
<1>9. ~Lost
  BY <1>5, LostIsOut DEF At, Serves
<1> QED
  BY <1>2, <1>6, <1>7, <1>8, <1>9

-----------------------------------------------------------------------------
(* A write under way, step by step. *)

\* The action that takes a step.
LEMMA WhichStep ==
    ASSUME NEW who \in {"fg", "bg"}, Bus(who), NEW do, do = Head(script[who]).do
    PROVE  /\ do = "start" => SendStart(who)
           /\ do = "stop" => SendStop(who)
           /\ do = "addr" => SendReserved(who) \/ SendAddress(who)
           /\ do = "ack" => ReceiveAck(who)
           /\ do = "byte" => SendByte(who)
           /\ do = "tbit" => SendTbit(who)
  BY DEF Bus, SendStart, SendStop, SendReserved, SendAddress, ReceiveAck, SendByte, SendTbit,
         ReadByte, ReadTbit, AnswerIbi, At

LEMMA TakenEarly ==
    ASSUME NEW k \in Nat, k <= 6
    PROVE  /\ TakenBefore(k) <=> taken = 0 /\ ~parityErr
           /\ TakenBefore(k)' <=> taken' = 0 /\ ~parityErr'
  BY DEF TakenBefore

LEMMA TakenInData ==
    ASSUME op \in Writes, NEW k \in Nat, k > 6, k <= 6 + 2 * op.n, NEW d, d = (k - 7) \div 2,
           NEW f, f = IF k % 2 = 1 THEN "RxPWriteData" ELSE "RxPWriteTbit"
    PROVE  /\ TakenBefore(k) => acked /\ fsm = f /\ (op.good => taken = d /\ ~parityErr)
           /\ op' = op /\ acked' /\ fsm' = f /\ (op.good => taken' = d /\ ~parityErr') => TakenBefore(k)'
<1>1. ~(k <= 6)
  OBVIOUS
<1> QED
  BY <1>1, Zenon DEF TakenBefore

LEMMA TakenAfter ==
    ASSUME op \in Writes, NEW k \in Nat, k > 6 + 2 * op.n, NEW l, l <=> k = 7 + 2 * op.n
    PROVE  /\ TakenBefore(k) => /\ op.good => taken = IF acked THEN op.n ELSE 0
                                /\ parityErr => ~op.good /\ fsm = "RxPWriteData" /\ l
           /\ /\ op' = op /\ (op.good => taken' = IF acked' THEN op.n ELSE 0)
              /\ parityErr' => ~op.good /\ fsm' = "RxPWriteData" /\ l
              => TakenBefore(k)'
<1>0. op.n \in Nat
  BY WriteFields
<1>1. ~(k <= 6) /\ ~(k <= 6 + 2 * op.n)
  BY <1>0
<1> QED
  BY <1>1, Zenon DEF TakenBefore

\* The write goes on with its k-th step.
LEMMA GoesOn ==
    ASSUME op \in Writes, op' = op, tries' = tries, tries \in 0..2,
           tries > 0 => chain = "none", chain' = chain \/ chain' = "none",
           NEW k \in FirstStep(op)..CallLength(op),
           LeftFrom(script'["fg"], op, k), TakenBefore(k)',
           tries = 2 /\ k <= 2 => NoContest'
    PROVE  Underway'
<1>1. LeftFrom(script["fg"], op, k)'
  BY DEF LeftFrom, CallLength, CallStep
<1>2. k \in (FirstStep(op)..CallLength(op))'
  BY DEF FirstStep, CallLength
<1>3. tries' \in 0..2 /\ (tries' > 0 => chain' = "none") /\ (tries' = 2 /\ k <= 2 => NoContest')
  OBVIOUS
<1> QED
  BY <1>1, <1>2, <1>3 DEF Underway

\* What a step of a write under way begins with.
LEMMA UnderwayFacts ==
    ASSUME BenchInvariant, op \in Writes, NEW j \in FirstStep(op)..CallLength(op),
           LeftFrom(script["fg"], op, j), Bus("fg"),
           NEW s, s = script["fg"], NEW t, t = Tail(s)
    PROVE  /\ s \in Seq(All) /\ t \in Seq(All) /\ j \in Nat /\ Head(s) = CallStep(op, j)
           /\ Busy("fg") /\ Head(s).do \in Serves
           /\ j < CallLength(op) /\ j + 1 \in FirstStep(op)..CallLength(op)
           /\ LeftFrom(t, op, j + 1)
           /\ UNCHANGED <<op, tries>> /\ (chain' = chain \/ chain' = "none")
<1>1. s \in Seq(All) /\ Busy("fg") /\ Head(s).do \in Serves
      /\ UNCHANGED <<op, tries>> /\ (chain' = chain \/ chain' = "none")
  BY ScriptIsSeq, BusGoes
<1>2. t \in Seq(All)
  BY <1>1, ScriptIsSeq
<1>3. /\ op.n \in Nat /\ FirstStep(op) \in {1, 4} /\ CallLength(op) \in Nat
      /\ CallLength(op) = IF op.stop THEN 8 + 2 * op.n ELSE 7 + 2 * op.n
  BY WriteFields
<1>4. j \in Nat /\ j <= CallLength(op)
  BY <1>3
<1>5. /\ Head(s) = CallStep(op, j)
      /\ j < CallLength(op) => j + 1 \in FirstStep(op)..CallLength(op) /\ LeftFrom(t, op, j + 1)
  BY <1>1, LeftStep
<1>6. j # CallLength(op)
  <2>1. CallStep(op, CallLength(op)).do = "give"
    <3>1. CASE op.stop
      <4>1. CallLength(op) > 7 + 2 * op.n
        BY <1>3, <3>1
      <4>2. CallStep(op, CallLength(op)) = [do |-> "give"]
        BY <1>3, <4>1, CallSteps
      <4> QED
        BY <4>2
    <3>2. CASE ~op.stop
      <4>1. CallStep(op, CallLength(op)) = [do |-> "give"]
        BY <1>3, <3>2, CallSteps
      <4> QED
        BY <4>1
    <3> QED
      BY <3>1, <3>2
  <2> QED
    BY <1>1, <1>5, <2>1 DEF Serves
<1>7. j < CallLength(op)
  BY <1>3, <1>4, <1>6
<1> QED
  BY <1>1, <1>2, <1>4, <1>5, <1>7

\* The STARTs and the addresses, up to where the bytes begin.
LEMMA EarlyStep ==
    ASSUME BenchInvariant, StepsHeard, op \in Writes,
           NEW j \in FirstStep(op)..CallLength(op), LeftFrom(script["fg"], op, j), TakenBefore(j),
           j \in {1, 3, 4, 5}, tries \in 0..2, tries > 0 => chain = "none",
           tries = 2 /\ j <= 2 => NoContest, Bus("fg")
    PROVE  Underway'
<1> PICK s, t : s = script["fg"] /\ t = Tail(s)
  OBVIOUS
<1>1. /\ s \in Seq(All) /\ t \in Seq(All) /\ j \in Nat /\ Head(s) = CallStep(op, j)
      /\ Busy("fg")
      /\ j + 1 \in FirstStep(op)..CallLength(op) /\ LeftFrom(t, op, j + 1)
      /\ op' = op /\ tries' = tries /\ (chain' = chain \/ chain' = "none")
  BY UnderwayFacts
<1>2. taken = 0 /\ ~parityErr
  BY <1>1, TakenEarly
<1>3. op.to # "rsvdW"
  BY WriteFields
<1>4. /\ Goto("fg", t) /\ Plain(Head(s))
      /\ j \in {1, 4} => SendStart("fg")
  <2>1. CASE j \in {1, 4}
    <3>1. Head(s) = start
      BY <1>1, <2>1, CallSteps
    <3>2. SendStart("fg")
      BY <3>1, WhichStep DEF start
    <3> QED
      BY <3>1, <3>2 DEF SendStart, Go, Plain, start
  <2>2. CASE j = 3
    <3>1. Head(s) = ack("rsvdW", FALSE)
      BY <1>1, <2>2, CallSteps
    <3>2. ReceiveAck("fg")
      BY <3>1, WhichStep DEF ack
    <3>3. ~Head(s).skip /\ Plain(Head(s))
      BY <3>1 DEF ack, Plain
    <3> QED
      BY <2>2, <3>2, <3>3 DEF ReceiveAck
  <2>3. CASE j = 5
    <3>1. Head(s) = addr(op.to)
      BY <1>1, <2>3, CallSteps
    <3>2. Head(s).do = "addr" /\ Head(s).h # "rsvdW"
      BY <1>3, <3>1 DEF addr
    <3>3. SendReserved("fg") \/ SendAddress("fg")
      BY <3>2, WhichStep
    <3>4. SendAddress("fg")
      BY <3>2, <3>3 DEF SendReserved
    <3> QED
      BY <2>3, <3>2, <3>4 DEF SendAddress, Go, Plain
  <2> QED
    BY <2>1, <2>2, <2>3
<1>5. taken' = 0 /\ ~parityErr'
  BY <1>2, <1>4, PlainStep
<1>6. script'["fg"] = t
  BY <1>4, ScriptsAfter
<1>7. j + 1 \in Nat /\ j + 1 <= 6
  BY <1>1
<1>8. TakenBefore(j + 1)'
  BY <1>5, <1>7, TakenEarly
<1>9. ASSUME tries = 2, j + 1 <= 2 PROVE NoContest'
  <2>1. j = 1 /\ NoContest
    BY <1>1, <1>9
  <2>2. SendStart("fg")
    BY <1>4, <2>1
  <2> QED
    BY <2>1, <2>2 DEF SendStart, StartSeen, RepeatedStart, RestartTarget, To, NoContest,
                      Arbitrates, fsmVars
<1> QED
  BY <1>1, <1>6, <1>8, <1>9, GoesOn

\* The 7E/W of a write, which an IBI may win.
LEMMA ReservedStep ==
    ASSUME BenchInvariant, StepsHeard, op \in Writes,
           NEW j \in FirstStep(op)..CallLength(op), LeftFrom(script["fg"], op, j), TakenBefore(j),
           j = 2, tries \in 0..2, tries > 0 => chain = "none",
           tries = 2 /\ j <= 2 => NoContest, Bus("fg")
    PROVE  Underway' \/ Lost'
<1> PICK s, t, lost : /\ s = script["fg"] /\ t = Tail(s)
                      /\ lost = HandleIbiInline(chain, limit, FALSE) \o <<[do |-> "retry"]>>
  OBVIOUS
<1>1. /\ s \in Seq(All) /\ t \in Seq(All) /\ j \in Nat /\ Head(s) = CallStep(op, j)
      /\ Busy("fg")
      /\ j + 1 \in FirstStep(op)..CallLength(op) /\ LeftFrom(t, op, j + 1)
      /\ op' = op /\ tries' = tries /\ (chain' = chain \/ chain' = "none")
  BY UnderwayFacts
<1>2. taken = 0 /\ ~parityErr
  BY <1>1, TakenEarly
<1>3. Head(s) = addr("rsvdW")
  BY <1>1, CallSteps
<1>4. Head(s).do = "addr" /\ Head(s).h = "rsvdW" /\ Plain(Head(s))
  BY <1>3 DEF addr, Plain
<1>5. SendReserved("fg")
  <2>1. SendReserved("fg") \/ SendAddress("fg")
    BY <1>4, WhichStep
  <2> QED
    BY <1>4, <2>1 DEF SendAddress
<1>6. taken' = 0 /\ ~parityErr'
  BY <1>2, <1>4, PlainStep
<1>7. bus = "active"
  BY <1>1, <1>4 DEF StepsHeard, Hears
<1>8. CASE Contends
  <2>1. Goto("fg", lost) /\ chain' = "none" /\ IbiAddrSent
    BY <1>5, <1>8 DEF SendReserved, ArbitrationLost
  <2>2. script'["fg"] = lost
    BY <2>1, ScriptsAfter
  <2>3. /\ Clean(lost) /\ Through(lost, Serves, {"retry"})
        /\ chain = "none" => Through(lost, Answers, {"retry"})
    BY LostMild DEF BenchInvariant
  <2>4. tries # 2
    BY <1>8 DEF NoContest, Contends, Arbitrates
  <2>5. tries' \in 0..1 /\ (tries' = 1 => Through(lost, Answers, {"retry"}))
    <3>1. tries \in 0..1
      BY <2>4
    <3>2. tries = 1 => chain = "none"
      BY <3>1
    <3> QED
      BY <1>1, <2>3, <3>1, <3>2, Zenon
  <2>6. NoContest'
    BY <1>7, <2>1 DEF IbiAddrSent, Move, To, NoContest, Arbitrates
  <2>7. Lost'
    BY <1>6, <2>1, <2>2, <2>3, <2>5, <2>6 DEF Lost, Through, Answers
  <2> QED
    BY <2>7
<1>9. CASE ~Contends
  <2>1. script'["fg"] = t
    BY <1>5, <1>9, ScriptsAfter DEF SendReserved, Go
  <2>2. j + 1 \in Nat /\ j + 1 <= 6 /\ ~(j + 1 <= 2)
    OBVIOUS
  <2>3. TakenBefore(j + 1)'
    BY <1>6, <2>2, TakenEarly
  <2> QED
    BY <1>1, <2>1, <2>2, <2>3, GoesOn
<1> QED
  BY <1>8, <1>9

\* The acknowledge of a write: the data come next, or are skipped.
LEMMA AckStep ==
    ASSUME BenchInvariant, StepsHeard, op \in Writes,
           NEW j \in FirstStep(op)..CallLength(op), LeftFrom(script["fg"], op, j), TakenBefore(j),
           j = 6, tries \in 0..2, tries > 0 => chain = "none", Bus("fg")
    PROVE  Underway'
<1> PICK s, t : s = script["fg"] /\ t = Tail(s)
  OBVIOUS
<1>0. /\ op.n \in Nat /\ op.to \in {"mainW", "virtW", "otherW"}
      /\ CallLength(op) \in Nat /\ CallLength(op) >= 7 + 2 * op.n
      /\ FirstStep(op) \in Nat /\ FirstStep(op) <= 4
  BY WriteFields
<1>1. /\ s \in Seq(All) /\ t \in Seq(All) /\ j \in Nat /\ Head(s) = CallStep(op, j)
      /\ Busy("fg")
      /\ LeftFrom(t, op, j + 1)
      /\ op' = op /\ tries' = tries /\ (chain' = chain \/ chain' = "none")
  BY UnderwayFacts
<1>2. taken = 0 /\ ~parityErr
  BY <1>1, TakenEarly
<1>3. Head(s) = ack(op.to, TRUE)
  BY <1>1, CallSteps
<1>4. Head(s).do = "ack" /\ Head(s).h = op.to /\ Head(s).skip /\ Plain(Head(s))
  BY <1>3 DEF ack, Plain
<1>5. ReceiveAck("fg")
  BY <1>4, WhichStep
<1>6. taken' = 0 /\ ~parityErr'
  BY <1>2, <1>4, PlainStep
<1>7. LeftFrom(t, op, 7)
  <2>1. j + 1 = 7
    OBVIOUS
  <2> QED
    BY <1>1, <2>1
<1> PICK k, m : k = 7 /\ m = 7 + 2 * op.n
  OBVIOUS
<1>8. /\ k \in FirstStep(op)..CallLength(op) /\ m \in FirstStep(op)..CallLength(op)
      /\ k \in Nat /\ m \in Nat /\ ~(k <= 2) /\ ~(m <= 2) /\ m > 6 + 2 * op.n
      /\ k > 6 /\ k % 2 = 1 /\ (k - 7) \div 2 = 0 /\ (k <= 6 + 2 * op.n \/ m = k)
  BY <1>0
<1>9. CASE fsm \in {"TxAckFByte", "TxAckSByte"}
  <2>1. acked' /\ Goto("fg", t)
    BY <1>5, <1>9 DEF ReceiveAck
  <2>2. script'["fg"] = t /\ LeftFrom(script'["fg"], op, k)
    BY <1>7, <2>1, ScriptsAfter
  <2>3. fsm' = "RxPWriteData"
    <3>1. op.to \in Addresses /\ Hears(script["fg"])
      BY <1>0, <1>1 DEF Addresses, StepsHeard
    <3> QED
      BY <1>0, <1>4, <1>5, <1>9, <3>1, AckLeaves
  <2>4. CASE k <= 6 + 2 * op.n
    <3>1. TakenBefore(k)'
      BY <1>1, <1>6, <1>8, <2>1, <2>3, <2>4, TakenInData
    <3> QED
      BY <1>1, <1>8, <2>2, <3>1, GoesOn
  <2>5. CASE m = k
    <3>1. op.n = 0
      BY <1>0, <2>5
    <3>2. taken' = IF acked' THEN op.n ELSE 0
      BY <1>6, <3>1
    <3>3. TakenBefore(m)'
      BY <1>1, <1>6, <1>8, <3>2, TakenAfter
    <3> QED
      BY <1>1, <1>8, <2>2, <2>5, <3>3, GoesOn
  <2> QED
    BY <1>8, <2>4, <2>5
<1>10. CASE fsm \notin {"TxAckFByte", "TxAckSByte"}
  <2>1. ~acked' /\ Goto("fg", SkipData(t))
    BY <1>4, <1>5, <1>10 DEF ReceiveAck
  <2>2. script'["fg"] = SkipData(t)
    BY <2>1, ScriptsAfter
  <2>3. LeftFrom(script'["fg"], op, m)
    BY <1>1, <1>7, <2>2, LeftSkip
  <2>4. taken' = IF acked' THEN op.n ELSE 0
    BY <1>6, <2>1
  <2>5. TakenBefore(m)'
    BY <1>1, <1>6, <1>8, <2>4, TakenAfter
  <2> QED
    BY <1>1, <1>8, <2>3, <2>5, GoesOn
<1> QED
  BY <1>9, <1>10

\* Where the data go on after a byte, and after a T-bit.
LEMMA NextOfData ==
    ASSUME NEW j \in Nat, NEW n \in Nat, j > 6, j <= 6 + 2 * n,
           NEW k, k = j + 1, NEW d, d = (j - 7) \div 2
    PROVE  /\ k \in Nat /\ k > 6 /\ ~(k <= 2)
           /\ j % 2 = 1 => k <= 6 + 2 * n /\ k % 2 # 1 /\ (k - 7) \div 2 = d
           /\ j % 2 # 1 => /\ k % 2 = 1 /\ (k - 7) \div 2 = d + 1
                           /\ k <= 6 + 2 * n \/ k = 7 + 2 * n
                           /\ k = 7 + 2 * n => d + 1 = n
<1>1. CASE j % 2 = 1
  <2> PICK i \in Nat : j = 2 * i + 7
    <3> WITNESS (j - 7) \div 2 \in Nat
    <3> QED
      BY <1>1
  <2>1. i < n
    OBVIOUS
  <2> QED
    BY <1>1, <2>1
<1>2. CASE j % 2 # 1
  <2> PICK i \in Nat : j = 2 * i + 8
    <3> WITNESS (j - 8) \div 2 \in Nat
    <3> QED
      BY <1>2
  <2>1. i < n
    OBVIOUS
  <2>2. (j - 7) \div 2 = i /\ (j + 1 - 7) \div 2 = i + 1
    OBVIOUS
  <2> QED
    BY <1>2, <2>1, <2>2
<1> QED
  BY <1>1, <1>2

\* A byte of the data.
LEMMA ByteStep ==
    ASSUME BenchInvariant, StepsHeard, op \in Writes,
           NEW j \in FirstStep(op)..CallLength(op), LeftFrom(script["fg"], op, j), TakenBefore(j),
           j > 6, j <= 6 + 2 * op.n, j % 2 = 1,
           tries \in 0..2, tries > 0 => chain = "none", Bus("fg")
    PROVE  Underway'
<1> PICK s, t : s = script["fg"] /\ t = Tail(s)
  OBVIOUS
<1>0. op.n \in Nat
  BY WriteFields
<1>1. /\ s \in Seq(All) /\ t \in Seq(All) /\ j \in Nat /\ Head(s) = CallStep(op, j)
      /\ j + 1 \in FirstStep(op)..CallLength(op) /\ LeftFrom(t, op, j + 1)
      /\ op' = op /\ tries' = tries /\ (chain' = chain \/ chain' = "none")
  BY UnderwayFacts
<1> PICK k, d : k = j + 1 /\ d = (j - 7) \div 2
  OBVIOUS
<1>2. k \in Nat /\ k > 6 /\ ~(k <= 2) /\ k <= 6 + 2 * op.n /\ k % 2 # 1 /\ (k - 7) \div 2 = d
  <2> PICK n : n = op.n
    OBVIOUS
  <2>0. n \in Nat /\ j \in Nat /\ j > 6 /\ j <= 6 + 2 * n
    BY <1>0, <1>1
  <2>1. /\ k \in Nat /\ k > 6 /\ ~(k <= 2)
        /\ j % 2 = 1 => k <= 6 + 2 * n /\ k % 2 # 1 /\ (k - 7) \div 2 = d
        /\ j % 2 # 1 => /\ k % 2 = 1 /\ (k - 7) \div 2 = d + 1
                        /\ k <= 6 + 2 * n \/ k = 7 + 2 * n
                        /\ k = 7 + 2 * n => d + 1 = n
    BY <2>0, NextOfData, SMTT(60)
  <2> QED
    BY <2>1, Zenon
<1>3. acked /\ fsm = "RxPWriteData" /\ (op.good => taken = d /\ ~parityErr)
  BY <1>1, TakenInData
<1>4. Head(s) = byte("data")
  BY <1>1, CallSteps
<1>5. SendByte("fg")
  BY <1>4, WhichStep DEF byte
<1>6. /\ Goto("fg", t) /\ fsm' = "RxPWriteTbit" /\ parityErr' = parityErr
      /\ acked' = acked /\ taken' = taken
  BY <1>3, <1>5 DEF SendByte, Go, WriteByteReceived, Move, To, ghosts
<1>7. LeftFrom(script'["fg"], op, k)
  BY <1>1, <1>6, ScriptsAfter
<1>8. TakenBefore(k)'
  BY <1>1, <1>2, <1>3, <1>6, TakenInData
<1> QED
  BY <1>1, <1>2, <1>7, <1>8, GoesOn

\* Its T-bit, with which the target takes the byte.
LEMMA TbitStep ==
    ASSUME BenchInvariant, StepsHeard, op \in Writes,
           NEW j \in FirstStep(op)..CallLength(op), LeftFrom(script["fg"], op, j), TakenBefore(j),
           j > 6, j <= 6 + 2 * op.n, j % 2 # 1,
           tries \in 0..2, tries > 0 => chain = "none", Bus("fg")
    PROVE  Underway'
<1> PICK s, t : s = script["fg"] /\ t = Tail(s)
  OBVIOUS
<1>0. op.n \in Nat /\ op.good \in BOOLEAN
  BY WriteFields
<1>1. /\ s \in Seq(All) /\ t \in Seq(All) /\ j \in Nat /\ Head(s) = CallStep(op, j)
      /\ j + 1 \in FirstStep(op)..CallLength(op) /\ LeftFrom(t, op, j + 1)
      /\ op' = op /\ tries' = tries /\ (chain' = chain \/ chain' = "none")
  BY UnderwayFacts
<1> PICK k, d : k = j + 1 /\ d = (j - 7) \div 2
  OBVIOUS
<1>2. /\ k \in Nat /\ k > 6 /\ ~(k <= 2) /\ k % 2 = 1 /\ (k - 7) \div 2 = d + 1
      /\ k <= 6 + 2 * op.n \/ k = 7 + 2 * op.n
      /\ k = 7 + 2 * op.n => d + 1 = op.n
  <2> PICK n : n = op.n
    OBVIOUS
  <2>0. n \in Nat /\ j \in Nat /\ j > 6 /\ j <= 6 + 2 * n
    BY <1>0, <1>1
  <2>1. /\ k \in Nat /\ k > 6 /\ ~(k <= 2)
        /\ j % 2 = 1 => k <= 6 + 2 * n /\ k % 2 # 1 /\ (k - 7) \div 2 = d
        /\ j % 2 # 1 => /\ k % 2 = 1 /\ (k - 7) \div 2 = d + 1
                        /\ k <= 6 + 2 * n \/ k = 7 + 2 * n
                        /\ k = 7 + 2 * n => d + 1 = n
    BY <2>0, NextOfData, SMTT(60)
  <2> QED
    BY <2>1, Zenon
<1>3. acked /\ fsm = "RxPWriteTbit" /\ (op.good => taken = d /\ ~parityErr)
  BY <1>1, TakenInData
<1>4. Head(s) = tbit("data", op.good)
  BY <1>1, CallSteps
<1>5. SendTbit("fg") /\ Head(s).good = op.good /\ Head(s).c = "data"
  BY <1>4, WhichStep DEF tbit
<1>6. Goto("fg", t) /\ acked' /\ fsm' = "RxPWriteData"
  BY <1>3, <1>5 DEF SendTbit, Go, WriteTbitReceived
<1>7. ASSUME op.good PROVE taken' = d + 1 /\ ~parityErr'
  <2>1. taken' = taken + 1
    BY <1>3, <1>5, <1>7 DEF SendTbit
  <2>2. ~parityErr'
    BY <1>3, <1>5, <1>7 DEF SendTbit, WriteTbitReceived
  <2> QED
    BY <1>3, <1>7, <2>1, <2>2
<1>8. LeftFrom(script'["fg"], op, k)
  BY <1>1, <1>6, ScriptsAfter
<1>9. CASE k <= 6 + 2 * op.n
  <2>1. TakenBefore(k)'
    BY <1>1, <1>2, <1>6, <1>7, <1>9, TakenInData
  <2> QED
    BY <1>1, <1>2, <1>8, <2>1, GoesOn
<1>10. CASE k = 7 + 2 * op.n
  <2>1. k > 6 + 2 * op.n
    BY <1>0, <1>10
  <2>2. op.good => taken' = IF acked' THEN op.n ELSE 0
    BY <1>2, <1>6, <1>7, <1>10
  <2>3. parityErr' => ~op.good
    BY <1>7
  <2>4. TakenBefore(k)'
    BY <1>1, <1>2, <1>6, <1>10, <2>1, <2>2, <2>3, TakenAfter
  <2> QED
    BY <1>1, <1>2, <1>8, <2>4, GoesOn
<1> QED
  BY <1>2, <1>9, <1>10

\* The STOP, with which the target forgets what was wrong with the parity.
LEMMA StopStep ==
    ASSUME BenchInvariant, FrameOver, StepsHeard, op \in Writes,
           NEW j \in FirstStep(op)..CallLength(op), LeftFrom(script["fg"], op, j), TakenBefore(j),
           j > 6 + 2 * op.n, tries \in 0..2, tries > 0 => chain = "none", Bus("fg")
    PROVE  Underway'
<1> PICK s, t : s = script["fg"] /\ t = Tail(s)
  OBVIOUS
<1>0. /\ op.n \in Nat /\ op.stop \in BOOLEAN
      /\ CallLength(op) = IF op.stop THEN 8 + 2 * op.n ELSE 7 + 2 * op.n
  BY WriteFields
<1>1. /\ s \in Seq(All) /\ t \in Seq(All) /\ j \in Nat /\ Head(s) = CallStep(op, j)
      /\ j + 1 \in FirstStep(op)..CallLength(op) /\ LeftFrom(t, op, j + 1)
      /\ j < CallLength(op)
      /\ op' = op /\ tries' = tries /\ (chain' = chain \/ chain' = "none")
  BY UnderwayFacts
<1> PICK k : k = j + 1
  OBVIOUS
<1>2. op.stop /\ j = 7 + 2 * op.n /\ k \in Nat /\ ~(k <= 2) /\ k > 6 + 2 * op.n /\ k # 7 + 2 * op.n
  <2> PICK n, L : n = op.n /\ L = CallLength(op)
    OBVIOUS
  <2>0. n \in Nat /\ j \in Nat /\ op.stop \in BOOLEAN
    BY <1>0, <1>1
  <2>1. j > 6 + 2 * n /\ j < L /\ L = IF op.stop THEN 8 + 2 * n ELSE 7 + 2 * n
    BY <1>0, <1>1
  <2>2. op.stop /\ L = 8 + 2 * n
    BY <2>0, <2>1
  <2>3. j = 7 + 2 * n
    BY <2>0, <2>1, <2>2
  <2>4. k \in Nat /\ ~(k <= 2) /\ k > 6 + 2 * n /\ k # 7 + 2 * n
    BY <2>0, <2>3
  <2> QED
    BY <2>2, <2>3, <2>4
<1>3. /\ op.good => taken = IF acked THEN op.n ELSE 0
      /\ parityErr => fsm = "RxPWriteData"
  BY <1>1, TakenAfter
<1>4. Head(s) = stop
  BY <1>1, <1>2, CallSteps
<1>5. SendStop("fg")
  BY <1>4, WhichStep DEF stop
<1>6. Goto("fg", t) /\ acked' = acked /\ taken' = taken
  BY <1>5 DEF SendStop, Go
<1>7. ~parityErr'
  <2>1. CASE bus = "active"
    BY <1>3, <1>5, <2>1 DEF SendStop, Stop, To
  <2>2. CASE bus # "active"
    BY <1>3, <1>5, <2>2 DEF SendStop, FrameOver, fsmVars, writeVars
  <2> QED
    BY <2>1, <2>2
<1>8. LeftFrom(script'["fg"], op, k)
  BY <1>1, <1>6, ScriptsAfter
<1>9. op.good => taken' = IF acked' THEN op.n ELSE 0
  BY <1>3, <1>6
<1>10. TakenBefore(k)'
  BY <1>1, <1>2, <1>7, <1>9, TakenAfter
<1> QED
  BY <1>1, <1>2, <1>8, <1>10, GoesOn

LEMMA UnderwayStep ==
    ASSUME BenchInvariant, FrameOver, StepsHeard, op \in Writes, Underway, Bus("fg")
    PROVE  Underway' \/ Lost'
<1>1. PICK j \in FirstStep(op)..CallLength(op) :
         /\ LeftFrom(script["fg"], op, j) /\ TakenBefore(j)
         /\ tries \in 0..2 /\ (tries > 0 => chain = "none")
         /\ tries = 2 /\ j <= 2 => NoContest
  BY DEF Underway
<1>2. op.n \in Nat /\ FirstStep(op) \in {1, 4} /\ CallLength(op) \in Nat
  BY WriteFields
<1>3. /\ j \in Nat
      /\ \/ j \in {1, 3, 4, 5} \/ j = 2 \/ j = 6
         \/ j > 6 /\ j <= 6 + 2 * op.n
         \/ j > 6 + 2 * op.n
  BY <1>2
<1>4. CASE j \in {1, 3, 4, 5}
  BY <1>1, <1>4, EarlyStep
<1>5. CASE j = 2
  BY <1>1, <1>5, ReservedStep
<1>6. CASE j = 6
  BY <1>1, <1>6, AckStep
<1>7. CASE j > 6 /\ j <= 6 + 2 * op.n
  <2>1. CASE j % 2 = 1
    BY <1>1, <1>7, <2>1, ByteStep
  <2>2. CASE j % 2 # 1
    BY <1>1, <1>7, <2>2, TbitStep
  <2> QED
    BY <2>1, <2>2
<1>8. CASE j > 6 + 2 * op.n
  BY <1>1, <1>8, StopStep
<1> QED
  BY <1>3, <1>4, <1>5, <1>6, <1>7, <1>8

-----------------------------------------------------------------------------
(* The delivery of the writes is invariant. *)

\* What the calls under way say of the write, or of what is none.
CallRight == IF op.kind = "write" THEN Asked \/ Underway \/ Lost ELSE OtherCall

LEMMA WritesAreCalls ==
    ASSUME BenchInvariant PROVE (op.kind = "write" <=> op \in Writes)
  BY DEF BenchInvariant, KnobTypeOK, NoOp, Writes

LEMMA OtherFrom ==
    ASSUME taken' = 0, ~parityErr', Clean(script'["fg"]), Through(script'["fg"], Kinds, Lasts)
    PROVE  OtherCall'
  BY DEF OtherCall, Through, Lasts, Busy

\* A call that is no write, one step on.
LEMMA OtherRest ==
    ASSUME BenchInvariant, OtherCall, Busy("fg"), Head(script["fg"]).do \notin Lasts,
           NEW t, t = Tail(script["fg"])
    PROVE  Clean(t) /\ Through(t, Kinds, Lasts)
<1> PICK s : s = script["fg"]
  OBVIOUS
<1>1. s \in Seq(All) /\ s # <<>> /\ Clean(s) /\ s[Len(s)].do \in Lasts
  BY ScriptIsSeq DEF OtherCall, Lasts, Busy
<1>2. Through(s, Kinds, Lasts)
  BY <1>1, AnyThrough
<1> QED
  BY <1>1, <1>2, CleanRest, ThroughRest

\* Which step a caller is about to take tells where a write is.
LEMMA WhereIs ==
    ASSUME BenchInvariant, CallRight
    PROVE  /\ ~Busy("fg") => op \notin Writes /\ OtherCall
           /\ At("fg", "take") => Asked \/ (op \notin Writes /\ OtherCall)
           /\ At("fg", "hdrExit") \/ At("fg", "hold") => op \notin Writes /\ OtherCall
           /\ At("fg", "give") => (op \in Writes /\ Underway) \/ (op \notin Writes /\ OtherCall)
           /\ At("fg", "retry") => (op \in Writes /\ Lost) \/ (op \notin Writes /\ OtherCall)
<1>1. op.kind = "write" <=> op \in Writes
  BY WritesAreCalls
<1>2. CASE op \notin Writes
  BY <1>1, <1>2 DEF CallRight
<1>3. CASE op \in Writes
  <2>1. CASE Asked
    BY <1>3, <2>1 DEF Asked, At
  <2>2. CASE Underway
    BY <1>3, <2>2, UnderwayIsOut DEF At, Serves
  <2>3. CASE Lost
    BY <1>3, <2>3, LostIsOut DEF At, Serves
  <2> QED
    BY <1>1, <1>3, <2>1, <2>2, <2>3 DEF CallRight
<1> QED
  BY <1>2, <1>3

LEMMA BusDelivers ==
    ASSUME BenchInvariant, ScriptsInOrder, DeliveryInvariant, NEW who \in {"fg", "bg"}, Bus(who)
    PROVE  DeliveryInvariant'
<1>1. FrameOver' /\ StepsHeard'
  BY BusHeard DEF DeliveryInvariant
<1>2. FrameOver /\ StepsHeard /\ Clean(script["bg"]) /\ CallRight
  BY DEF DeliveryInvariant, CallRight
<1>3. Busy(who) /\ Head(script[who]).do \in Serves /\ op' = op
  BY BusGoes
<1>4. op.kind = "write" <=> op \in Writes
  BY WritesAreCalls
<1>5. CASE who = "bg"
  <2>1. /\ Clean(script["bg"])' /\ (Asked => Asked') /\ (OtherCall => OtherCall')
        /\ (op \in Writes => ~Underway) /\ ~Lost
    BY <1>2, <1>5, AsideStep
  <2> QED
    BY <1>1, <1>2, <1>3, <1>4, <2>1 DEF DeliveryInvariant, CallRight
<1>6. CASE who = "fg"
  <2>1. Clean(script["bg"])'
    <3>1. \E x : Goto("fg", x)
      BY <1>6, BusGoes
    <3>2. script'["bg"] = script["bg"]
      BY <3>1, ScriptsAfter
    <3> QED
      BY <1>2, <3>2 DEF Clean
  <2>2. CASE op \in Writes
    <3>1. ~Asked
      BY <1>3, <1>6 DEF Asked, At, Serves
    <3>2. Underway \/ Lost
      BY <1>2, <1>4, <2>2, <3>1 DEF CallRight
    <3>3. Underway' \/ Lost'
      BY <1>2, <1>6, <2>2, <3>2, UnderwayStep, LostStep
    <3> QED
      BY <1>1, <1>3, <1>4, <2>1, <2>2, <3>3 DEF DeliveryInvariant
  <2>3. CASE op \notin Writes
    <3>1. OtherCall'
      BY <1>2, <1>4, <1>6, <2>3, OtherStep DEF CallRight
    <3> QED
      BY <1>1, <1>3, <1>4, <2>1, <2>3, <3>1 DEF DeliveryInvariant
  <2> QED
    BY <2>2, <2>3
<1> QED
  BY <1>5, <1>6

LEMMA HdrExitDelivers ==
    ASSUME BenchInvariant, ScriptsInOrder, DeliveryInvariant, SendHdrExit PROVE DeliveryInvariant'
<1> PICK t : t = Tail(script["fg"])
  OBVIOUS
<1>1. FrameOver' /\ StepsHeard'
  BY StopHeard DEF DeliveryInvariant
<1>2. At("fg", "hdrExit") /\ Goto("fg", t) /\ op' = op /\ taken' = taken
  BY DEF SendHdrExit, Go, Quiet, ghosts
<1>3. op \notin Writes /\ OtherCall
  BY <1>2, WhereIs DEF DeliveryInvariant, CallRight
<1>4. Clean(t) /\ Through(t, Kinds, Lasts)
  BY <1>2, <1>3, OtherRest DEF At, Lasts
<1>5. script'["fg"] = t /\ script'["bg"] = script["bg"]
  BY <1>2, ScriptsAfter
<1>6. taken' = 0 /\ ~parityErr'
  BY <1>2, <1>3 DEF SendHdrExit, HdrExit, Move, To, OtherCall, fsmVars, writeVars
<1>7. OtherCall'
  BY <1>4, <1>5, <1>6, OtherFrom
<1>8. Clean(script["bg"])'
  BY <1>5 DEF DeliveryInvariant, Clean
<1>9. op'.kind # "write"
  BY <1>2, <1>3, WritesAreCalls
<1> QED
  BY <1>1, <1>7, <1>8, <1>9 DEF DeliveryInvariant

\* A new attempt, or the end.
LEMMA RetryDelivers ==
    ASSUME MaxRetries > 2, BenchInvariant, ScriptsInOrder, DeliveryInvariant, Retry
    PROVE  DeliveryInvariant'
<1> PICK s, g, h : /\ s = Script(op) \o <<[do |-> "give"]>>
                   /\ g = [do |-> "give"] /\ h = [do |-> "hold"]
  OBVIOUS
<1>0. /\ op.kind = "write" <=> op \in Writes
      /\ g \in All /\ h \in All /\ g.do = "give" /\ h.do = "hold"
  BY WritesAreCalls, StepFacts DEF All
<1>1. At("fg", "retry") /\ UNCHANGED fsmVars /\ op' = op /\ taken' = taken /\ chain' = chain
      /\ tries' = tries + 1
  BY DEF Retry, ghosts, ibiVars
<1>2. /\ \/ op.kind \in {"write", "read", "ccc"} /\ Goto("fg", s)
         \/ Goto("fg", <<g>>) \/ Goto("fg", <<h>>)
      /\ op.kind = "write" /\ tries' < MaxRetries => Goto("fg", s)
  BY DEF Retry
<1>3. CASE op \in Writes
  <2>1. Lost
    BY <1>1, <1>3, WhereIs DEF DeliveryInvariant, CallRight
  <2>2. taken = 0 /\ ~parityErr /\ chain = "none" /\ tries \in 0..1 /\ (tries = 1 => NoContest)
    BY <2>1 DEF Lost
  <2>3. tries' < MaxRetries /\ tries' \in 0..2 /\ (tries' = 2 => tries = 1)
    BY <1>1, <2>2, MaxRetriesAssumption
  <2>4. Goto("fg", s)
    BY <1>0, <1>2, <1>3, <2>3
  <2>5. s \in Seq(All) /\ LeftFrom(s, op, FirstStep(op))
    BY <1>3, CallStarts
  <2>6. script'["fg"] = s /\ script'["bg"] = script["bg"]
    BY <2>4, ScriptsAfter
  <2>7. s # <<>> => Head(s).do \in Free
    BY <1>3, CallInOrder DEF Writes, Free, Opens
  <2>8. FrameOver' /\ StepsHeard'
    BY <1>1, <2>4, <2>7, NewScriptHeard DEF DeliveryInvariant
  <2>9. FirstStep(op) \in FirstStep(op)..CallLength(op) /\ FirstStep(op) \in Nat /\ FirstStep(op) <= 6
    <3>1. FirstStep(op) \in {1, 4} /\ CallLength(op) \in Nat /\ CallLength(op) >= 7
      BY <1>3, WriteFields
    <3> QED
      BY <3>1
  <2> PICK k : k = FirstStep(op)
    OBVIOUS
  <2>10. TakenBefore(k)'
    <3>1. parityErr' = parityErr
      BY <1>1 DEF fsmVars, writeVars
    <3>2. taken' = 0 /\ ~parityErr' /\ k \in Nat /\ k <= 6
      BY <1>1, <2>2, <2>9, <3>1
    <3> QED
      BY <3>2, TakenEarly
  <2>11. NoContest => NoContest'
    BY <1>1 DEF fsmVars, NoContest
  <2>12. Underway'
    <3>1. LeftFrom(script["fg"], op, k)'
      BY <1>1, <2>5, <2>6 DEF LeftFrom, CallLength, CallStep
    <3>2. k \in (FirstStep(op)..CallLength(op))'
      BY <1>1, <2>9 DEF FirstStep, CallLength
    <3>3. tries' \in 0..2 /\ (tries' > 0 => chain' = "none") /\ (tries' = 2 => NoContest')
      BY <1>1, <2>2, <2>3, <2>11, Zenon
    <3> QED
      BY <2>10, <3>1, <3>2, <3>3 DEF Underway
  <2>13. Clean(script["bg"])'
    BY <2>6 DEF DeliveryInvariant, Clean
  <2> QED
    BY <1>0, <1>1, <1>3, <2>8, <2>12, <2>13 DEF DeliveryInvariant
<1>4. CASE op \notin Writes
  <2>1. OtherCall
    BY <1>1, <1>4, WhereIs DEF DeliveryInvariant, CallRight
  <2>2. PICK u : /\ Goto("fg", u) /\ Clean(u) /\ u # <<>> /\ u[Len(u)].do \in Lasts
                 /\ Head(u).do \in Free /\ u \in Seq(All)
    <3>1. ASSUME op.kind \in {"write", "read", "ccc"}, Goto("fg", s)
          PROVE  /\ Clean(s) /\ s # <<>> /\ s[Len(s)].do \in Lasts
                 /\ Head(s).do \in Free /\ s \in Seq(All)
      <4>1. op \in Ops \ Writes
        BY <1>4, <3>1 DEF BenchInvariant, KnobTypeOK, NoOp
      <4>2. Script(op) \in Seq(Mild) /\ Plain(g)
        BY <1>0, <4>1, OtherScriptMild, PlainEnds
      <4>3. Clean(s) /\ Through(s, Serves, {"give"})
        BY <1>0, <4>2, MildThen
      <4>4. Head(s).do \in Free
        BY <4>1, CallInOrder DEF Free, Opens
      <4> QED
        BY <4>3, <4>4 DEF Through, Lasts
    <3>2. ASSUME NEW e \in {g, h}
          PROVE  /\ Clean(<<e>>) /\ <<e>> # <<>> /\ <<e>>[Len(<<e>>)].do \in Lasts
                 /\ Head(<<e>>).do \in Free /\ <<e>> \in Seq(All)
      <4>1. e \in All /\ e.do \in {"give", "hold"} /\ Plain(e)
        BY <1>0, PlainEnds
      <4>2. Len(<<e>>) = 1 /\ <<e>>[1] = e /\ Head(<<e>>) = e /\ <<e>> # <<>> /\ <<e>> \in Seq(All)
        BY <4>1
      <4> PICK q : q = <<e>>
        OBVIOUS
      <4>3. \A i \in 1..Len(q) : i = 1
        BY <4>2
      <4> QED
        BY <4>1, <4>2, <4>3 DEF Clean, Lasts, Free, Opens
    <3> QED
      BY <1>2, <3>1, <3>2
  <2>3. script'["fg"] = u /\ script'["bg"] = script["bg"]
    BY <2>2, ScriptsAfter
  <2>4. FrameOver' /\ StepsHeard'
    BY <1>1, <2>2, NewScriptHeard DEF DeliveryInvariant
  <2>5. taken' = 0 /\ ~parityErr'
    BY <1>1, <2>1 DEF OtherCall, fsmVars, writeVars
  <2>6. Clean(script'["fg"]) /\ Through(script'["fg"], Kinds, Lasts)
    BY <2>2, <2>3, AnyThrough
  <2>7. OtherCall'
    BY <2>5, <2>6, OtherFrom
  <2>8. Clean(script["bg"])'
    BY <2>3 DEF DeliveryInvariant, Clean
  <2> QED
    BY <1>0, <1>1, <1>4, <2>4, <2>7, <2>8 DEF DeliveryInvariant
<1> QED
  BY <1>3, <1>4

\* A call waits for the bus first.
LEMMA TakeThen ==
    ASSUME NEW s \in Seq(All), NEW t, t = <<[do |-> "take"]>> \o s, s # <<>>, Clean(s),
           NEW D, s[Len(s)].do \in D
    PROVE  /\ t \in Seq(All) /\ t # <<>> /\ Head(t).do = "take" /\ Tail(t) = s
           /\ Clean(t) /\ t[Len(t)].do \in D
<1> PICK e : e = [do |-> "take"]
  OBVIOUS
<1>1. e \in All /\ Plain(e) /\ e.do = "take"
  BY StepFacts, PlainEnds DEF All
<1>2. /\ t \in Seq(All) /\ t # <<>> /\ Head(t) = e /\ Len(t) = Len(s) + 1
      /\ \A i \in 1..Len(s) : t[i + 1] = s[i]
  BY <1>1, OneMore
<1>3. Clean(t)
  BY <1>1, CleanMore
<1>4. t[Len(t)] = s[Len(s)]
  <2>1. Len(s) \in Nat /\ Len(s) >= 1
    BY TailFacts
  <2>2. Len(s) \in 1..Len(s)
    BY <2>1
  <2> QED
    BY <1>2, <2>2
<1>5. Tail(t) = s
  BY <1>1
<1> QED
  BY <1>1, <1>2, <1>3, <1>4, <1>5

LEMMA BeginCallDelivers ==
    ASSUME BenchInvariant, DeliveryInvariant, BeginCall PROVE DeliveryInvariant'
<1> PICK o \in Ops :
      /\ op' = o
      /\ Goto("fg", <<[do |-> "take"]>> \o Script(o)
                    \o <<[do |-> IF o.kind \in {"te0", "te1"} THEN "hold" ELSE "give"]>>)
  BY DEF BeginCall
<1> DEFINE d == IF o.kind \in {"te0", "te1"} THEN "hold" ELSE "give"
           e == [do |-> "take"]
           g == [do |-> d]
<1> PICK s, t : s = Script(o) \o <<g>> /\ t = <<e>> \o s
  OBVIOUS
<1>1. d \in {"give", "hold"} /\ g.do = d
  OBVIOUS
<1>2. e \in All /\ g \in All /\ g.do \in {"give", "hold"}
  BY <1>1, StepFacts DEF All
<1>3. Goto("fg", t) /\ s \in Seq(All) /\ s # <<>>
  <2>1. Script(o) \in Seq(All)
    BY ScriptFrames DEF Frames, Piece
  <2> HIDE DEF e, g
  <2>2. <<e>> \in Seq(All) /\ <<g>> \in Seq(All)
    BY <1>2
  <2>3. (<<e>> \o Script(o)) \o <<g>> = t
    BY <2>1, <2>2, JoinAssociative
  <2>4. s \in Seq(All) /\ s # <<>>
    BY <1>2, <2>1
  <2> QED
    BY <2>3, <2>4 DEF e, g
<1> HIDE DEF e, g, d
<1>4. ~Busy("fg") /\ UNCHANGED fsmVars /\ taken' = taken /\ tries' = tries
  BY DEF BeginCall, ghosts
<1>5. OtherCall
  BY <1>4, WhereIs DEF DeliveryInvariant, CallRight
<1>6. taken' = 0 /\ ~parityErr' /\ tries' = 0
  BY <1>4, <1>5 DEF OtherCall, fsmVars, writeVars
<1>7. script'["fg"] = t /\ script'["bg"] = script["bg"]
  BY <1>3, ScriptsAfter
<1>8. /\ t \in Seq(All) /\ t # <<>> /\ Head(t).do = "take" /\ Tail(t) = s
  BY <1>2, <1>3, OneMore DEF e
<1>9. FrameOver' /\ StepsHeard'
  BY <1>3, <1>4, <1>8, NewScriptHeard DEF DeliveryInvariant, Free
<1>10. Clean(script["bg"])'
  BY <1>7 DEF DeliveryInvariant, Clean
<1>11. CASE o \in Writes
  <2>1. s = Script(o) \o <<[do |-> "give"]>>
    BY <1>11 DEF Writes, g, d
  <2>2. LeftFrom(s, o, FirstStep(o))
    BY <1>11, <2>1, CallStarts
  <2>3. Asked'
    <3>1. At("fg", "take")'
      BY <1>7, <1>8 DEF At, Busy
    <3>2. Tail(script["fg"])' = s
      BY <1>7, <1>8
    <3>3. LeftFrom(Tail(script["fg"]), op, FirstStep(op))'
      BY <2>2, <3>2 DEF LeftFrom, CallLength, CallStep, FirstStep
    <3> QED
      BY <1>6, <3>1, <3>3 DEF Asked
  <2> QED
    BY <1>9, <1>10, <1>11, <2>3 DEF DeliveryInvariant, Writes
<1>12. CASE o \notin Writes
  <2>1. Script(o) \in Seq(Mild) /\ Plain(g)
    BY <1>2, <1>12, OtherScriptMild, PlainEnds
  <2>2. Clean(s) /\ s[Len(s)].do \in Lasts
    BY <1>2, <2>1, MildThen DEF Through, Lasts
  <2>3. Clean(t) /\ t[Len(t)].do \in Lasts
    BY <1>3, <2>2, TakeThen DEF e
  <2>4. Clean(script'["fg"]) /\ Through(script'["fg"], Kinds, Lasts)
    BY <1>7, <1>8, <2>3, AnyThrough
  <2>5. OtherCall'
    BY <1>6, <2>4, OtherFrom
  <2> QED
    BY <1>9, <1>10, <1>12, <2>5 DEF DeliveryInvariant, Writes
<1> QED
  BY <1>11, <1>12

LEMMA RecoverDelivers ==
    ASSUME BenchInvariant, DeliveryInvariant, Recover PROVE DeliveryInvariant'
<1> PICK g, x : g = [do |-> "give"] /\ x = [do |-> "hdrExit"]
  OBVIOUS
<1>1. /\ g \in All /\ x \in All /\ stop \in All
      /\ g.do = "give" /\ x.do = "hdrExit" /\ stop.do = "stop"
  BY StepFacts DEF All, stop
<1>2. ~Busy("fg") /\ UNCHANGED fsmVars /\ taken' = taken /\ op'.kind = "recover"
  BY DEF Recover, Held, ghosts
<1>3. Goto("fg", <<x, stop>> \o <<g>>) \/ Goto("fg", <<>> \o <<g>>)
  BY DEF Recover
<1>4. PICK s : /\ Goto("fg", s) /\ s \in Seq(All) /\ s # <<>> /\ Clean(s)
               /\ s[Len(s)].do \in Lasts /\ Head(s).do \in Free
  <2>1. ASSUME NEW s, s = <<>> \o <<g>>
        PROVE  s \in Seq(All) /\ s # <<>> /\ Clean(s) /\ s[Len(s)].do \in Lasts /\ Head(s).do \in Free
    <3>1. s \in Seq(All) /\ Len(s) = 1 /\ s[1] = g /\ Head(s) = g /\ s # <<>>
      BY <1>1, <2>1
    <3>2. \A i \in 1..Len(s) : i = 1
      BY <3>1
    <3> QED
      BY <1>1, <3>1, <3>2, PlainEnds DEF Clean, Lasts, Free, Opens
  <2>2. ASSUME NEW s, s = <<x, stop>> \o <<g>>
        PROVE  s \in Seq(All) /\ s # <<>> /\ Clean(s) /\ s[Len(s)].do \in Lasts /\ Head(s).do \in Free
    <3>1. /\ s \in Seq(All) /\ Len(s) = 3 /\ s[1] = x /\ s[2] = stop /\ s[3] = g
          /\ Head(s) = x /\ s # <<>>
      BY <1>1, <2>2
    <3>2. \A i \in 1..Len(s) : i = 1 \/ i = 2 \/ i = 3
      BY <3>1
    <3> QED
      BY <1>1, <3>1, <3>2, PlainEnds DEF Clean, Lasts, Free
  <2> QED
    BY <1>3, <2>1, <2>2
<1>5. script'["fg"] = s /\ script'["bg"] = script["bg"]
  BY <1>4, ScriptsAfter
<1>6. FrameOver' /\ StepsHeard'
  BY <1>2, <1>4, NewScriptHeard DEF DeliveryInvariant
<1>7. OtherCall
  BY <1>2, WhereIs DEF DeliveryInvariant, CallRight
<1>8. taken' = 0 /\ ~parityErr'
  BY <1>2, <1>7 DEF OtherCall, fsmVars, writeVars
<1>9. Clean(script'["fg"]) /\ Through(script'["fg"], Kinds, Lasts)
  BY <1>4, <1>5, AnyThrough
<1>10. OtherCall'
  BY <1>8, <1>9, OtherFrom
<1>11. Clean(script["bg"])'
  BY <1>5 DEF DeliveryInvariant, Clean
<1> QED
  BY <1>2, <1>6, <1>10, <1>11 DEF DeliveryInvariant

\* The caller has got the bus.
LEMMA TakeDelivers ==
    ASSUME BenchInvariant, ScriptsInOrder, DeliveryInvariant, TakeBusControl
    PROVE  DeliveryInvariant'
<1> PICK t : t = Tail(script["fg"])
  OBVIOUS
<1>1. /\ At("fg", "take") /\ Busy("fg") /\ Head(script["fg"]).do = "take" /\ Goto("fg", t)
      /\ UNCHANGED fsmVars /\ op' = op /\ taken' = taken /\ tries' = tries /\ chain' = chain
  BY DEF TakeBusControl, At, Go, callVars, ibiVars, ghosts
<1>2. script'["fg"] = t /\ script'["bg"] = script["bg"]
  BY <1>1, ScriptsAfter
<1>3. t # <<>> => Head(t).do \in Free
  <2>1. t # <<>> => Follows(Head(script["fg"]), Head(t))
    BY <1>1, RestInOrder
  <2> QED
    BY <1>1, <2>1 DEF Follows, Closes, Free, Opens
<1>4. FrameOver' /\ StepsHeard'
  BY <1>1, <1>3, NewScriptHeard DEF DeliveryInvariant
<1>5. Clean(script["bg"])'
  BY <1>2 DEF DeliveryInvariant, Clean
<1>6. op.kind = "write" <=> op \in Writes
  BY WritesAreCalls
<1>7. CASE op \in Writes
  <2>1. Asked
    BY <1>1, <1>7, WhereIs DEF DeliveryInvariant, CallRight
  <2>2. LeftFrom(t, op, FirstStep(op)) /\ taken = 0 /\ ~parityErr /\ tries = 0
    BY <2>1 DEF Asked
  <2> PICK k : k = FirstStep(op)
    OBVIOUS
  <2>3. k \in FirstStep(op)..CallLength(op) /\ k \in Nat /\ k <= 6
    <3>1. FirstStep(op) \in {1, 4} /\ CallLength(op) \in Nat /\ CallLength(op) >= 7
      BY <1>7, WriteFields
    <3> QED
      BY <3>1
  <2>4. taken' = 0 /\ ~parityErr'
    BY <1>1, <2>2 DEF fsmVars, writeVars
  <2>5. TakenBefore(k)'
    BY <2>3, <2>4, TakenEarly
  <2>6. tries \in 0..2 /\ ~(tries > 0) /\ tries # 2
    BY <2>2
  <2>7. LeftFrom(script'["fg"], op, k)
    BY <1>2, <2>2
  <2>8. Underway'
    BY <1>1, <1>7, <2>3, <2>5, <2>6, <2>7, GoesOn
  <2> QED
    BY <1>1, <1>4, <1>5, <1>6, <1>7, <2>8 DEF DeliveryInvariant
<1>8. CASE op \notin Writes
  <2>1. OtherCall
    BY <1>1, <1>6, <1>8 DEF DeliveryInvariant
  <2>2. Clean(t) /\ Through(t, Kinds, Lasts)
    BY <1>1, <2>1, OtherRest DEF Lasts
  <2>3. taken' = 0 /\ ~parityErr'
    BY <1>1, <2>1 DEF OtherCall, fsmVars, writeVars
  <2>4. OtherCall'
    BY <1>2, <2>2, <2>3, OtherFrom
  <2> QED
    BY <1>1, <1>4, <1>5, <1>6, <1>8, <2>4 DEF DeliveryInvariant
<1> QED
  BY <1>7, <1>8

\* At a write's end nothing is left of bad parity: the STOP has cleared it.
LEMMA EndCallDelivers ==
    ASSUME BadWritesStop, BenchInvariant, DeliveryInvariant, EndCall
    PROVE  DeliveryInvariant'
<1> PICK s : s = script["fg"]
  OBVIOUS
<1>1. /\ Busy("fg") /\ Head(s).do \in {"give", "hold"}
      /\ At("fg", "give") \/ At("fg", "hold")
      /\ Goto("fg", Tail(s)) /\ op' = NoOp /\ tries' = 0 /\ taken' = 0 /\ UNCHANGED fsmVars
  BY DEF EndCall, At, Go
<1>2. Head(s) \in Ends
  BY <1>1, RestTyped, StepIsNoEnd
<1>3. Tail(s) = <<>>
  BY <1>1, <1>2, TailEnds DEF BenchInvariant, ScriptTypeOK, ScriptsOf, Busy
<1>4. Goto("fg", <<>>)
  BY <1>1, <1>3
<1>5. script'["fg"] = <<>> /\ script'["bg"] = script["bg"]
  BY <1>4, ScriptsAfter
<1>6. FrameOver' /\ StepsHeard'
  <2>1. ASSUME NEW w, w = <<>> PROVE w # <<>> => Head(w).do \in Free
    BY <2>1
  <2> QED
    BY <1>1, <1>4, <2>1, NewScriptHeard DEF DeliveryInvariant
<1>7. ~parityErr
  <2>1. CASE op \notin Writes
    <3>1. OtherCall
      BY <1>1, <2>1, WhereIs DEF DeliveryInvariant, CallRight
    <3> QED
      BY <3>1 DEF OtherCall
  <2>2. CASE op \in Writes
    <3>1. Underway
      BY <1>1, <2>2, WhereIs DEF DeliveryInvariant, CallRight
    <3>2. PICK j \in FirstStep(op)..CallLength(op) : LeftFrom(s, op, j) /\ TakenBefore(j)
      BY <3>1 DEF Underway
    <3>3. s \in Seq(All)
      BY ScriptIsSeq
    <3>4. /\ op.n \in Nat /\ FirstStep(op) \in {1, 4} /\ CallLength(op) \in Nat
          /\ op.stop \in BOOLEAN
          /\ CallLength(op) = IF op.stop THEN 8 + 2 * op.n ELSE 7 + 2 * op.n
      BY <2>2, WriteFields
    <3>5. j = CallLength(op)
      <4>1. j < CallLength(op) => Tail(s) # <<>>
        BY <2>2, <3>2, <3>3, LeftStep
      <4> QED
        BY <1>3, <3>4, <4>1
    <3>6. j \in Nat /\ j > 6 + 2 * op.n /\ (op.stop => j # 7 + 2 * op.n)
      BY <3>4, <3>5
    <3>7. parityErr => ~op.good /\ j = 7 + 2 * op.n
      BY <2>2, <3>2, <3>6, TakenAfter
    <3>8. ~op.good => op.stop
      BY <2>2 DEF BadWritesStop, Writes
    <3> QED
      BY <3>6, <3>7, <3>8
  <2> QED
    BY <2>1, <2>2
<1>8. ~parityErr' /\ op'.kind # "write"
  BY <1>1, <1>7 DEF fsmVars, writeVars, NoOp
<1>9. Clean(script'["fg"])
  BY <1>5 DEF Clean
<1>10. OtherCall'
  BY <1>1, <1>5, <1>8, <1>9 DEF OtherCall, Busy
<1>11. Clean(script["bg"])'
  BY <1>5 DEF DeliveryInvariant, Clean
<1> QED
  BY <1>6, <1>8, <1>10, <1>11 DEF DeliveryInvariant

\* Steps beside the call leave it where it is.
LEMMA CallStays ==
    ASSUME BenchInvariant, CallRight, UNCHANGED <<script, op, tries, acked, taken, chain>>,
           parityErr' => parityErr, NoContest => NoContest',
           fsm \in WriteStates => fsm' = fsm
    PROVE  CallRight'
<1>1. op.kind = "write" <=> op \in Writes
  BY WritesAreCalls
<1>2. OtherCall => OtherCall'
  BY DEF OtherCall, Clean, Busy
<1>3. Asked => Asked'
  BY DEF Asked, At, Busy, LeftFrom, CallLength, CallStep, FirstStep
<1>4. Lost => Lost'
  BY DEF Lost, Clean
<1>5. ASSUME op \in Writes, Underway PROVE Underway'
  <2>1. PICK j \in FirstStep(op)..CallLength(op) :
           /\ LeftFrom(script["fg"], op, j) /\ TakenBefore(j)
           /\ tries \in 0..2 /\ (tries > 0 => chain = "none")
           /\ tries = 2 /\ j <= 2 => NoContest
    BY <1>5 DEF Underway
  <2>2. op.n \in Nat /\ FirstStep(op) \in {1, 4} /\ CallLength(op) \in Nat
    BY <1>5, WriteFields
  <2>3. /\ j \in Nat
        /\ j <= 6 \/ (j > 6 /\ j <= 6 + 2 * op.n) \/ j > 6 + 2 * op.n
    BY <2>2
  <2>4. TakenBefore(j)'
    <3>1. CASE j <= 6
      BY <2>1, <2>3, <3>1, TakenEarly
    <3>2. CASE j > 6 /\ j <= 6 + 2 * op.n
      <4> PICK d, f : d = (j - 7) \div 2 /\ f = IF j % 2 = 1 THEN "RxPWriteData" ELSE "RxPWriteTbit"
        OBVIOUS
      <4>1. acked /\ fsm = f /\ (op.good => taken = d /\ ~parityErr)
        BY <1>5, <2>1, <2>3, <3>2, TakenInData
      <4>2. f \in WriteStates
        BY DEF WriteStates
      <4>3. op' = op /\ acked' /\ fsm' = f /\ (op.good => taken' = d /\ ~parityErr')
        BY <4>1, <4>2
      <4> QED
        BY <1>5, <2>3, <3>2, <4>3, TakenInData
    <3>3. CASE j > 6 + 2 * op.n
      <4> PICK l : l <=> j = 7 + 2 * op.n
        OBVIOUS
      <4>1. /\ op.good => taken = IF acked THEN op.n ELSE 0
            /\ parityErr => ~op.good /\ fsm = "RxPWriteData" /\ l
        BY <1>5, <2>1, <2>3, <3>3, TakenAfter
      <4>2. /\ op' = op /\ (op.good => taken' = IF acked' THEN op.n ELSE 0)
            /\ parityErr' => ~op.good /\ fsm' = "RxPWriteData" /\ l
        BY <4>1 DEF WriteStates
      <4> QED
        BY <1>5, <2>3, <3>3, <4>2, TakenAfter
    <3> QED
      BY <2>3, <3>1, <3>2, <3>3
  <2>5. LeftFrom(script'["fg"], op, j) /\ (tries = 2 /\ j <= 2 => NoContest')
    BY <2>1
  <2> QED
    BY <1>5, <2>1, <2>4, <2>5, GoesOn
<1> QED
  BY <1>1, <1>2, <1>3, <1>4, <1>5 DEF CallRight

LEMMA RestingDelivers ==
    ASSUME BenchInvariant, DeliveryInvariant,
           MonitorWakes \/ MonitorLeaves \/ MonitorLoops \/ OfferIbi \/ UNCHANGED vars
    PROVE  DeliveryInvariant'
<1>1. UNCHANGED <<fsmVars, script, op, tries, acked, taken, chain>>
  BY DEF MonitorWakes, MonitorLeaves, MonitorLoops, OfferIbi, vars, callVars, ibiVars, ghosts
<1>2. CallRight'
  <2>1. NoContest => NoContest'
    BY <1>1 DEF NoContest, fsmVars
  <2>2. parityErr' = parityErr /\ fsm' = fsm
    BY <1>1 DEF fsmVars, writeVars
  <2> QED
    BY <1>1, <2>1, <2>2, CallStays DEF DeliveryInvariant, CallRight
<1>3. FrameOver' /\ StepsHeard'
  BY <1>1, RestingHeard DEF DeliveryInvariant
<1>4. Clean(script["bg"])'
  BY <1>1 DEF DeliveryInvariant, Clean
<1> QED
  BY <1>2, <1>3, <1>4 DEF DeliveryInvariant, CallRight

LEMMA SetKnobsDelivers ==
    ASSUME BenchInvariant, DeliveryInvariant, SetKnobs PROVE DeliveryInvariant'
<1>1. UNCHANGED <<fsmVars, script, op, tries, taken>> /\ ~Busy("fg")
  BY DEF SetKnobs, callVars, ghosts
<1>2. OtherCall /\ op \notin Writes
  BY <1>1, WhereIs DEF DeliveryInvariant, CallRight
<1>3. OtherCall'
  BY <1>1, <1>2 DEF OtherCall, Clean, Busy, fsmVars, writeVars
<1>4. op'.kind # "write"
  BY <1>1, <1>2, WritesAreCalls
<1>5. FrameOver' /\ StepsHeard'
  BY <1>1, RestingHeard DEF DeliveryInvariant
<1>6. Clean(script["bg"])'
  BY <1>1 DEF DeliveryInvariant, Clean
<1> QED
  BY <1>3, <1>4, <1>5, <1>6 DEF DeliveryInvariant

\* The background monitor takes an IBI while no caller has the bus.
LEMMA SeesStartDelivers ==
    ASSUME BenchInvariant, DeliveryInvariant, MonitorSeesStart PROVE DeliveryInvariant'
<1> PICK s : s = HandleIbiInline(chain, limit, TRUE)
  OBVIOUS
<1>1. FrameOver' /\ StepsHeard'
  BY SeesStartHeard DEF DeliveryInvariant
<1>2. Goto("bg", s) /\ bg = "listening" /\ op' = op /\ tries' = tries /\ taken' = taken
  BY DEF MonitorSeesStart, callVars, ghosts
<1>3. script'["bg"] = s /\ script'["fg"] = script["fg"]
  BY <1>2, ScriptsAfter
<1>4. Clean(s)
  BY InlineMild, MildClean DEF BenchInvariant, KnobTypeOK
<1>5. Clean(script["bg"])'
  BY <1>3, <1>4 DEF Clean
<1>6. ~Busy("fg") \/ At("fg", "take")
  BY <1>2 DEF BenchInvariant, DisabledInCall, MonitorWaits
<1>7. Asked \/ (op \notin Writes /\ OtherCall)
  BY <1>6, WhereIs DEF DeliveryInvariant, CallRight
<1>8. parityErr' = parityErr
  BY DEF MonitorSeesStart, IbiAddrSent, Move, To
<1>9. Asked => Asked'
  BY <1>2, <1>3, <1>8 DEF Asked, At, Busy, LeftFrom, CallLength, CallStep, FirstStep
<1>10. OtherCall => OtherCall'
  BY <1>2, <1>3, <1>8 DEF OtherCall, Clean, Busy
<1>11. op.kind = "write" <=> op \in Writes
  BY WritesAreCalls
<1>12. CallRight'
  BY <1>2, <1>6, <1>7, <1>9, <1>10, <1>11, WhereIs DEF DeliveryInvariant, CallRight
<1> QED
  BY <1>1, <1>5, <1>12 DEF DeliveryInvariant, CallRight

LEMMA TargetDelivers ==
    ASSUME BenchInvariant, DeliveryInvariant, BeginIbi \/ TargetMoves PROVE DeliveryInvariant'
<1>1. FrameOver' /\ StepsHeard'
  BY BeginIbiHeard, TargetHeard DEF DeliveryInvariant
<1>2. UNCHANGED <<script, op, tries, acked, taken, chain>>
  BY DEF BeginIbi, TargetMoves, callVars, ibiVars, ghosts
<1>3. CASE BeginIbi
  <2>1. bus = "available" /\ fsm = "Idle" /\ (parityErr' => parityErr)
    BY <1>3 DEF BeginIbi, InitiateIbi, To
  <2>2. ~NoContest /\ fsm \notin WriteStates
    BY <2>1 DEF NoContest, WriteStates
  <2> QED
    BY <1>1, <1>2, <2>1, <2>2, CallStays DEF DeliveryInvariant, CallRight, Clean
<1>4. CASE TargetMoves
  <2>1. NoContest => NoContest'
    BY <1>4, TargetChanges DEF DeliveryInvariant, NoContest
  <2>2. (parityErr' => parityErr) /\ (fsm \in WriteStates => fsm' = fsm)
    BY <1>4, TargetChanges DEF DeliveryInvariant, WriteStates
  <2> QED
    BY <1>1, <1>2, <2>1, <2>2, CallStays DEF DeliveryInvariant, CallRight, Clean
<1> QED
  BY <1>3, <1>4

LEMMA DeliveryInit == ASSUME Init PROVE DeliveryInvariant
<1>1. script = [who \in {"fg", "bg"} |-> <<>>] /\ op.kind = "none" /\ tries = 0 /\ taken = 0
  BY DEF Init, NoOp
<1>2. fsm = "Idle" /\ ~parityErr
  BY DEF Init, FsmInit
<1>3. script["fg"] = <<>> /\ script["bg"] = <<>>
  BY <1>1
<1>4. Clean(script["fg"]) /\ Clean(script["bg"]) /\ OtherCall
  BY <1>1, <1>2, <1>3 DEF OtherCall, Clean, Busy
<1>5. FrameOver /\ StepsHeard
  BY <1>2, <1>3 DEF FrameOver, StepsHeard, Busy
<1> QED
  BY <1>1, <1>4, <1>5 DEF DeliveryInvariant

LEMMA DeliveryNext ==
    ASSUME MaxRetries > 2, BadWritesStop,
           BenchInvariant, TrackingInvariant, DeliveryInvariant, [Next]_vars
    PROVE  DeliveryInvariant'
<1>1. ScriptsInOrder
  BY DEF TrackingInvariant
<1>2. CASE Test
  BY <1>2, BeginCallDelivers, RecoverDelivers, SetKnobsDelivers DEF Test
<1>3. CASE Coroutines
  <2>1. CASE \E who \in {"fg", "bg"} : Bus(who)
    BY <1>1, <2>1, BusDelivers
  <2>2. CASE SendHdrExit \/ Retry
    BY <1>1, <2>2, HdrExitDelivers, RetryDelivers
  <2>3. CASE TakeBusControl \/ EndCall
    BY <1>1, <2>3, TakeDelivers, EndCallDelivers
  <2>4. CASE MonitorWakes \/ MonitorLeaves \/ MonitorSeesStart \/ MonitorLoops
    BY <2>4, SeesStartDelivers, RestingDelivers
  <2> QED
    BY <1>3, <2>1, <2>2, <2>3, <2>4 DEF Coroutines
<1>4. CASE OfferIbi \/ BeginIbi \/ TargetMoves \/ UNCHANGED vars
  BY <1>4, RestingDelivers, TargetDelivers
<1> QED
  BY <1>2, <1>3, <1>4 DEF Next

\* A write is where its steps say, however often it was retried.
THEOREM DeliveryHolds ==
    ASSUME MaxRetries > 2, BadWritesStop PROVE Spec => []DeliveryInvariant
<1>1. Init => DeliveryInvariant
  BY DeliveryInit
<1>2. BenchInvariant /\ TrackingInvariant /\ DeliveryInvariant /\ [Next]_vars => DeliveryInvariant'
  BY DeliveryNext
<1> QED
  BY <1>1, <1>2, WhoHasTheBus, TargetIsFollowed, PTL DEF Spec

LEMMA DeliveredTells ==
    ASSUME BenchInvariant, DeliveryInvariant PROVE AckTellsDelivery
<1> SUFFICES ASSUME At("fg", "give"), op.kind = "write", op.good
             PROVE  taken = IF acked THEN op.n ELSE 0
  BY DEF AckTellsDelivery
<1> PICK s : s = script["fg"]
  OBVIOUS
<1>1. op \in Writes /\ Underway
  BY WritesAreCalls, WhereIs DEF DeliveryInvariant, CallRight
<1>2. PICK j \in FirstStep(op)..CallLength(op) : LeftFrom(s, op, j) /\ TakenBefore(j)
  BY <1>1 DEF Underway
<1>3. s \in Seq(All) /\ Head(s).do = "give"
  BY ScriptIsSeq DEF At
<1>4. Head(s) = CallStep(op, j)
  BY <1>1, <1>2, <1>3, LeftStep
<1>5. j > 6 + 2 * op.n /\ j \in Nat
  <2>1. op.n \in Nat /\ FirstStep(op) \in {1, 4} /\ CallLength(op) \in Nat
    BY <1>1, WriteFields
  <2>2. j \in Nat /\ (j \in {1, 2, 3, 4, 5, 6} \/ (j > 6 /\ j <= 6 + 2 * op.n) \/ j > 6 + 2 * op.n)
    BY <2>1
  <2>3. j \notin {1, 2, 3, 4, 5, 6}
    BY <1>1, <1>3, <1>4, <2>2, CallSteps DEF start, addr, ack
  <2>4. ASSUME j > 6, j <= 6 + 2 * op.n PROVE FALSE
    <3>1. CallStep(op, j) = IF j % 2 = 1 THEN byte("data") ELSE tbit("data", op.good)
      BY <1>1, <2>2, <2>4, CallSteps
    <3>2. CallStep(op, j) = byte("data") \/ CallStep(op, j) = tbit("data", op.good)
      BY <3>1
    <3> QED
      BY <1>3, <1>4, <3>2 DEF byte, tbit
  <2> QED
    BY <2>2, <2>3, <2>4
<1> PICK l : l <=> j = 7 + 2 * op.n
  OBVIOUS
<1> QED
  BY <1>1, <1>2, <1>5, TakenAfter

\* When a write returns, its acknowledge tells what the target took, all of
\* the data or none, however often the call was retried (i3c_write).  MaxRetries
\* is a hypothesis: a write loses at most two attempts to IBIs, and with less
\* allowed it may give up.  So is BadWritesStop: bad parity that no STOP clears
\* spoils the next write as well.
THEOREM AcksTell ==
    ASSUME MaxRetries > 2, BadWritesStop PROVE Spec => []AckTellsDelivery
<1>1. BenchInvariant /\ DeliveryInvariant => AckTellsDelivery
  BY DeliveredTells
<1> QED
  BY <1>1, WhoHasTheBus, DeliveryHolds, PTL

\* A write never gives up: i3c_write does not raise for the IBIs that keep it
\* off the bus, of which there are two at most.
THEOREM WritesGetThrough ==
    ASSUME MaxRetries > 2, BadWritesStop PROVE Spec => []FewRetries
<1>1. DeliveryInvariant => FewRetries
  <2> SUFFICES ASSUME Asked \/ Underway \/ Lost PROVE tries <= 2
    BY DEF DeliveryInvariant, FewRetries
  <2>1. CASE Asked
    BY <2>1 DEF Asked
  <2>2. CASE Underway
    BY <2>2 DEF Underway
  <2>3. CASE Lost
    BY <2>3 DEF Lost
  <2> QED
    BY <2>1, <2>2, <2>3
<1> QED
  BY <1>1, DeliveryHolds, PTL

=============================================================================
