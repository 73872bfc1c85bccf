----------------------------- MODULE TargetLemmas -----------------------------
(***************************************************************************)
(* Lemmas the proofs about the target share: each action of TargetFsm      *)
(* keeps the types of the machine's state, and a queue that lists a set of *)
(* words (WordLists) does so after a word is appended or taken.            *)
(***************************************************************************)
EXTENDS TargetFsm, WordLists, SequenceTheorems, FiniteSetTheorems, TLAPS

-----------------------------------------------------------------------------
(* The ways an action assigns several variables at once. *)

\* Moving between states (To) keeps the state's types.
LEMMA ToTyped ==
    ASSUME StateTypeOK, NEW s \in FsmStates, To(s)
    PROVE  StateTypeOK'
  BY DEF StateTypeOK, To, AllHeaders

\* A report on the IBI status port keeps the retry counter and the inhibit
\* machine in their ranges.
LEMMA ReportTyped == ASSUME RequestTypeOK, NEW s, Report(s) PROVE RequestTypeOK'
<1>1. retryCnt' \in 0..7
  BY DEF RequestTypeOK, Report
<1>2. inhibit' \in {"None", "ArbLost", "Retry"}
  BY DEF RequestTypeOK, Report
<1> QED
  BY <1>1, <1>2 DEF RequestTypeOK

\* A step that leaves state, header and write flags alone keeps their types.
LEMMA StateKept ==
    ASSUME StateTypeOK, UNCHANGED <<fsm, header, xfer, writeVars>>
    PROVE  StateTypeOK'
  BY DEF StateTypeOK, writeVars

\* So does a step that leaves the IBI requests or the read flags alone.
LEMMA RequestKept == ASSUME RequestTypeOK, NoReport PROVE RequestTypeOK'
  BY DEF RequestTypeOK, NoReport, ibiReqVars

LEMMA ReadKept == ASSUME ReadTypeOK, UNCHANGED readVars PROVE ReadTypeOK'
  BY DEF ReadTypeOK, readVars

\* A step of another component alone changes nothing here.
LEMMA FsmKept == ASSUME FsmTypeOK, UNCHANGED fsmVars PROVE FsmTypeOK'
  BY DEF FsmTypeOK, StateTypeOK, RequestTypeOK, ReadTypeOK, fsmVars, selVars, csrVars,
         ibiReqVars, readVars, writeVars

\* Move (one state to another, nothing else) keeps all types.
LEMMA MoveTyped ==
    ASSUME FsmTypeOK, NEW from, NEW s \in FsmStates, Move(from, s), NoReport
    PROVE  FsmTypeOK'
<1>1. StateTypeOK'
  BY ToTyped DEF FsmTypeOK, Move
<1>2. RequestTypeOK' /\ ReadTypeOK'
  BY RequestKept, ReadKept DEF FsmTypeOK, Move
<1> QED
  BY <1>1, <1>2 DEF FsmTypeOK, Move, csrVars

-----------------------------------------------------------------------------
(* Bus conditions. *)

\* START with or without an IBI pending.
LEMMA StartTyped == ASSUME FsmTypeOK, NEW ibi \in BOOLEAN, Start(ibi) PROVE FsmTypeOK'
<1>1. StateTypeOK'
  <2>1. PICK s \in FsmStates : To(s)
    BY DEF Start, FsmTypeOK, StateTypeOK, FsmStates
  <2> QED
    BY <2>1, ToTyped DEF FsmTypeOK
<1>2. RequestTypeOK'
  BY ReportTyped, RequestKept DEF Start, FsmTypeOK
<1>3. ReadTypeOK'
  BY ReadKept DEF Start, FsmTypeOK
<1> QED
  BY <1>1, <1>2, <1>3 DEF FsmTypeOK, Start, csrVars

\* A repeated START.
LEMMA RepeatedStartTyped == ASSUME FsmTypeOK, RepeatedStart PROVE FsmTypeOK'
<1>1. RestartTarget \in FsmStates
  BY DEF RestartTarget, FsmTypeOK, StateTypeOK, FsmStates
<1>2. StateTypeOK'
  BY <1>1, ToTyped DEF FsmTypeOK, RepeatedStart
<1>3. RequestTypeOK' /\ ReadTypeOK'
  BY RequestKept, ReadKept DEF FsmTypeOK, RepeatedStart
<1> QED
  BY <1>2, <1>3 DEF FsmTypeOK, RepeatedStart, csrVars

\* STOP, also the one the machine does not see.
LEMMA StopTyped == ASSUME FsmTypeOK, Stop PROVE FsmTypeOK'
<1>1. StateTypeOK'
  <2>1. PICK s \in FsmStates : To(s)
    BY DEF Stop, FsmStates, FsmTypeOK, StateTypeOK
  <2> QED
    BY <2>1, ToTyped DEF FsmTypeOK
<1>2. RequestTypeOK' /\ ReadTypeOK'
  BY RequestKept, ReadKept DEF FsmTypeOK, Stop
<1> QED
  BY <1>1, <1>2 DEF FsmTypeOK, Stop, csrVars

\* The bus becomes available.
LEMMA BusAvailableTyped == ASSUME FsmTypeOK, BusAvailable PROVE FsmTypeOK'
  BY DEF BusAvailable, FsmTypeOK, StateTypeOK, RequestTypeOK, ReadTypeOK, selVars, csrVars,
         ibiReqVars, readVars, writeVars

-----------------------------------------------------------------------------
(* The address phases and common command codes. *)

\* An address byte is received, whatever it means to the target.
LEMMA AddressTyped ==
    ASSUME FsmTypeOK, NEW h \in Headers, FByteReceived(h) \/ SByteReceived(h)
    PROVE  FsmTypeOK'
<1>1. StateTypeOK'
  BY HeadersAssumption
     DEF FByteReceived, SByteReceived, Receive, FsmTypeOK, StateTypeOK, FsmStates, writeVars
<1>2. RequestTypeOK' /\ ReadTypeOK'
  BY RequestKept, ReadKept DEF FsmTypeOK, FByteReceived, SByteReceived, Receive
<1> QED
  BY <1>1, <1>2 DEF FsmTypeOK, FByteReceived, SByteReceived, Receive, csrVars

\* An address is judged.
LEMMA CheckTyped ==
    ASSUME FsmTypeOK, NEW avail \in BOOLEAN, CheckFByte(avail) \/ CheckSByte(avail)
    PROVE  FsmTypeOK'
<1>1. PICK from, ack \in FsmStates : Check(from, ack, avail)
  BY DEF CheckFByte, CheckSByte, FsmStates
<1>2. Verdict(ack, avail) \in FsmStates
  BY DEF Verdict, FsmStates
<1>3. StateTypeOK'
  BY <1>1, <1>2 DEF Check, FsmTypeOK, StateTypeOK, writeVars
<1>4. RequestTypeOK' /\ ReadTypeOK'
  BY <1>1, RequestKept, ReadKept DEF FsmTypeOK, Check
<1>5. virtSel' \in BOOLEAN
  <2>1. virtSel \in BOOLEAN
    BY DEF FsmTypeOK
  <2>2. virtSel' = virtSel \/ virtSel' = (header \in Virtual)
    BY <1>1 DEF Check
  <2>3. (header \in Virtual) \in BOOLEAN
    OBVIOUS
  <2> QED
    BY <2>1, <2>2, <2>3
<1> QED
  BY <1>1, <1>3, <1>4, <1>5 DEF FsmTypeOK, Check, csrVars

\* An ACK is sent.
LEMMA AckTyped == ASSUME FsmTypeOK, AckSent PROVE FsmTypeOK'
<1>1. PICK from, s \in FsmStates : Move(from, s)
  BY DEF AckSent, FsmStates
<1> QED
  BY <1>1, MoveTyped DEF AckSent

\* The CCC module is entered and left.
LEMMA CccTyped ==
    ASSUME FsmTypeOK, CccReceived \/ CccDone \/ CccNext \/ LeaveCcc
    PROVE  FsmTypeOK'
<1>1. {"DoCCC", "DoneCCC", "RxSByte", "Idle"} \subseteq FsmStates
  BY DEF FsmStates
<1> QED
  BY <1>1, MoveTyped DEF CccReceived, CccDone, CccNext, LeaveCcc

-----------------------------------------------------------------------------
(* Private writes and reads. *)

\* A byte of a write is received, its T-bit judged, the byte handed over.
LEMMA WriteTyped ==
    ASSUME FsmTypeOK,
           \/ WriteByteReceived
           \/ \E good, ready \in BOOLEAN : WriteTbitReceived(good, ready)
           \/ ByteAccepted
    PROVE  FsmTypeOK'
<1>1. CASE WriteByteReceived
  <2>1. "RxPWriteTbit" \in FsmStates
    BY DEF FsmStates
  <2> QED
    BY <1>1, <2>1, MoveTyped DEF WriteByteReceived
<1>2. CASE \E good, ready \in BOOLEAN : WriteTbitReceived(good, ready)
  <2>1. PICK good, ready \in BOOLEAN : WriteTbitReceived(good, ready)
    BY <1>2
  <2>2. StateTypeOK'
    BY <2>1 DEF WriteTbitReceived, FsmTypeOK, StateTypeOK, FsmStates, selVars
  <2>3. RequestTypeOK' /\ ReadTypeOK'
    BY <2>1, RequestKept, ReadKept DEF FsmTypeOK, WriteTbitReceived
  <2> QED
    BY <2>1, <2>2, <2>3 DEF FsmTypeOK, WriteTbitReceived, selVars, csrVars
<1>3. CASE ByteAccepted
  <2>1. StateTypeOK'
    BY <1>3 DEF ByteAccepted, FsmTypeOK, StateTypeOK, selVars
  <2>2. RequestTypeOK' /\ ReadTypeOK'
    BY <1>3 DEF ByteAccepted, FsmTypeOK, RequestTypeOK, ReadTypeOK, ibiReqVars, readVars
  <2> QED
    BY <1>3, <2>1, <2>2 DEF ByteAccepted, FsmTypeOK, selVars, csrVars
<1> QED
  BY <1>1, <1>2, <1>3

\* The steps of a private read.
LEMMA ReadTyped ==
    ASSUME FsmTypeOK, NEW b \in BOOLEAN,
           \/ ReadByteSent(b) \/ TbitSelected(b) \/ TbitWaits(b)
           \/ ReadContinued \/ ReadAborted \/ ReadEnded
    PROVE  FsmTypeOK'
<1>1. CASE ReadContinued \/ ReadAborted
  <2>1. {"TxPReadData", "RxFByte"} \subseteq FsmStates
    BY DEF FsmStates
  <2> QED
    BY <1>1, <2>1, MoveTyped DEF ReadContinued, ReadAborted
<1>2. CASE ReadByteSent(b) \/ TbitSelected(b) \/ ReadEnded
  <2>1. PICK s \in FsmStates : To(s)
    BY <1>2 DEF ReadByteSent, TbitSelected, ReadEnded, FsmStates
  <2>2. StateTypeOK'
    BY <2>1, ToTyped DEF FsmTypeOK
  <2>3. RequestTypeOK'
    BY <1>2, RequestKept DEF FsmTypeOK, ReadByteSent, TbitSelected, ReadEnded
  <2>4. ReadTypeOK'
    <3>1. prLast' \in BOOLEAN
      BY <1>2 DEF FsmTypeOK, ReadTypeOK, ReadByteSent, TbitSelected, ReadEnded
    <3>2. prUnderrun' \in BOOLEAN
      BY <1>2 DEF FsmTypeOK, ReadTypeOK, ReadByteSent, TbitSelected, ReadEnded
    <3>3. prWait' \in 0..7
      BY <1>2 DEF FsmTypeOK, ReadTypeOK, ReadByteSent, TbitSelected, ReadEnded
    <3> QED
      BY <3>1, <3>2, <3>3 DEF ReadTypeOK
  <2> QED
    BY <1>2, <2>2, <2>3, <2>4 DEF FsmTypeOK, ReadByteSent, TbitSelected, ReadEnded, csrVars
<1>3. CASE TbitWaits(b)
  <2>1. StateTypeOK'
    BY <1>3, StateKept DEF FsmTypeOK, TbitWaits, selVars
  <2>2. RequestTypeOK'
    BY <1>3, RequestKept DEF FsmTypeOK, TbitWaits
  <2>3. ReadTypeOK'
    BY <1>3 DEF FsmTypeOK, ReadTypeOK, TbitWaits
  <2> QED
    BY <1>3, <2>1, <2>2, <2>3 DEF FsmTypeOK, TbitWaits, selVars, csrVars
<1> QED
  BY <1>1, <1>2, <1>3

\* The machine starts well-typed.
LEMMA FsmInitTyped == ASSUME FsmInit PROVE FsmTypeOK
<1>1. StateTypeOK
  BY DEF FsmInit, StateTypeOK, FsmStates
<1>2. RequestTypeOK
  BY DEF FsmInit, RequestTypeOK
<1>3. ReadTypeOK
  <2>1. prWait \in 0..7
    BY DEF FsmInit
  <2> QED
    BY <2>1, Zenon DEF FsmInit, ReadTypeOK
<1> QED
  BY <1>1, <1>2, <1>3, RetryNumsAssumption DEF FsmInit, FsmTypeOK

-----------------------------------------------------------------------------
(* Sequences that list a set of words. *)

\* A word after all of them may be appended.
LEMMA ListsAppend ==
    ASSUME NEW s \in Seq(Words), NEW S \in SUBSET Words, NEW w \in Words,
           Lists(s, S), \A v \in S : Before(v, w)
    PROVE  Lists(Append(s, w), S \cup {w})
<1> DEFINE t == Append(s, w)
<1>1. /\ DOMAIN t = 1..(Len(s) + 1) /\ DOMAIN s = 1..Len(s) /\ Len(s) \in Nat
      /\ t[Len(s) + 1] = w
      /\ \A k \in DOMAIN s : t[k] = s[k]
  OBVIOUS
<1> HIDE DEF t
<1>2. ASSUME NEW k \in DOMAIN t PROVE t[k] \in S \cup {w}
  BY <1>1 DEF Lists
<1>3. ASSUME NEW v \in S \cup {w} PROVE \E k \in DOMAIN t : t[k] = v
  <2>1. CASE v \in S
    <3>1. PICK k \in DOMAIN s : s[k] = v
      BY <2>1 DEF Lists
    <3> QED
      BY <1>1, <3>1
  <2> QED
    BY <1>1, <1>3, <2>1
<1>4. ASSUME NEW j \in DOMAIN t, NEW k \in DOMAIN t, j < k PROVE Before(t[j], t[k])
  <2>1. j \in DOMAIN s
    BY <1>1, <1>4
  <2>2. CASE k \in DOMAIN s
    BY <1>1, <1>4, <2>1, <2>2 DEF Lists
  <2>3. CASE k = Len(s) + 1
    BY <1>1, <2>1, <2>3 DEF Lists
  <2> QED
    BY <1>1, <2>2, <2>3
<1>5. Lists(t, S \cup {w})
  BY <1>2, <1>3, <1>4 DEF Lists
<1> QED
  BY <1>5 DEF t

\* The head is the first of them, and the tail lists the others.
LEMMA ListsTail ==
    ASSUME NEW s \in Seq(Words), NEW S \in SUBSET Words, s # <<>>, Lists(s, S)
    PROVE  /\ Head(s) \in S
           /\ \A w \in S : w = Head(s) \/ Before(Head(s), w)
           /\ Lists(Tail(s), S \ {Head(s)})
<1> DEFINE t == Tail(s)
<1>1. /\ DOMAIN s = 1..Len(s) /\ Len(s) \in Nat \ {0} /\ Head(s) = s[1]
      /\ DOMAIN t = 1..(Len(s) - 1)
      /\ \A k \in DOMAIN t : t[k] = s[k + 1] /\ k + 1 \in DOMAIN s
  OBVIOUS
<1> HIDE DEF t
<1>2. s[1] \in S /\ \A w \in S : w = s[1] \/ Before(s[1], w)
  <2>1. 1 \in DOMAIN s
    BY <1>1
  <2>2. ASSUME NEW w \in S PROVE w = s[1] \/ Before(s[1], w)
    <3>1. PICK k \in DOMAIN s : s[k] = w
      BY DEF Lists
    <3>2. k = 1 \/ 1 < k
      BY <1>1
    <3> QED
      BY <2>1, <3>1, <3>2 DEF Lists
  <2> QED
    BY <2>1, <2>2 DEF Lists
<1>3. ASSUME NEW k \in DOMAIN t PROVE t[k] \in S \ {s[1]}
  <2>1. Before(s[1], s[k + 1]) /\ s[k + 1] \in S
    BY <1>1 DEF Lists
  <2>2. s[1] \in Words
    BY <1>2
  <2>3. s[k + 1] # s[1]
    BY <2>1, <2>2 DEF Before, Words
  <2> QED
    BY <1>1, <2>1, <2>3
<1>4. ASSUME NEW w \in S \ {s[1]} PROVE \E k \in DOMAIN t : t[k] = w
  <2>1. PICK k \in DOMAIN s : s[k] = w
    BY DEF Lists
  <2>2. k - 1 \in DOMAIN t
    BY <1>1, <2>1
  <2> QED
    BY <1>1, <2>1, <2>2
<1>5. ASSUME NEW j \in DOMAIN t, NEW k \in DOMAIN t, j < k PROVE Before(t[j], t[k])
  <2>1. j + 1 < k + 1
    BY <1>1, <1>5
  <2> QED
    BY <1>1, <2>1 DEF Lists
<1>6. Lists(t, S \ {s[1]})
  BY <1>3, <1>4, <1>5 DEF Lists
<1> QED
  BY <1>1, <1>2, <1>6 DEF t

\* A queue that lists the first k words of a message has at least k entries:
\* they are in k places.
LEMMA ListsLength ==
    ASSUME NEW s \in Seq(Words), NEW S, Lists(s, S), NEW m, NEW k \in Nat,
           \A i \in 0..(k - 1) : [msg |-> m, idx |-> i] \in S
    PROVE  k <= Len(s)
<1> DEFINE w(i) == [msg |-> m, idx |-> i]
           place == [i \in 0..(k - 1) |-> CHOOSE j \in DOMAIN s : s[j] = w(i)]
<1>1. ASSUME NEW i \in 0..(k - 1) PROVE place[i] \in DOMAIN s /\ s[place[i]] = w(i)
  <2>1. \E j \in DOMAIN s : s[j] = w(i)
    BY DEF Lists
  <2> QED
    BY <2>1
<1>2. ASSUME NEW i, NEW j, w(i) = w(j) PROVE i = j
  <2>1. w(i).idx = i /\ w(j).idx = j
    OBVIOUS
  <2> QED
    BY <1>2, <2>1
<1>3. place = [i \in 0..(k - 1) |-> place[i]]
  OBVIOUS
<1> HIDE DEF place, w
<1>4. SUFFICES ASSUME Len(s) < k PROVE FALSE
  OBVIOUS
<1>5. /\ IsFiniteSet(1..Len(s)) /\ Cardinality(1..Len(s)) = Len(s)
      /\ IsFiniteSet(0..(k - 1)) /\ Cardinality(0..(k - 1)) = k
  <2>1. Len(s) \in Nat /\ k - 1 \in Int /\ k > 0
    BY <1>4
  <2>2. /\ IsFiniteSet(1..Len(s))
        /\ Cardinality(1..Len(s)) = IF 1 > Len(s) THEN 0 ELSE Len(s) - 1 + 1
    BY <2>1, FS_Interval
  <2>3. /\ IsFiniteSet(0..(k - 1))
        /\ Cardinality(0..(k - 1)) = IF 0 > k - 1 THEN 0 ELSE k - 1 - 0 + 1
    BY <2>1, FS_Interval
  <2> QED
    BY <2>1, <2>2, <2>3
<1>6. PICK i, j \in 0..(k - 1) : i # j /\ place[i] = place[j]
  <2>1. \A i \in 0..(k - 1) : place[i] \in 1..Len(s)
    BY <1>1
  <2>2. place \in [0..(k - 1) -> 1..Len(s)]
    BY <1>3, <2>1, Zenon
  <2>3. Cardinality(1..Len(s)) < Cardinality(0..(k - 1))
    BY <1>4, <1>5
  <2> QED
    BY <1>5, <2>2, <2>3, FS_PigeonHole, Zenon
<1> QED
  BY <1>1, <1>2, <1>6

=============================================================================
