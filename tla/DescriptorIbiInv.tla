--------------------------- MODULE DescriptorIbiInv ---------------------------
(***************************************************************************)
(* The inductive invariant behind the safety properties of DescriptorIbi:  *)
(* which word stands at the head of the queue in every state of the        *)
(* handler, and how many of the words it still needs are queued behind it. *)
(***************************************************************************)
EXTENDS DescriptorIbi

\* Firmware writes the words of an IBI in order, and whole IBIs one after the
\* other.
Follows(v, w) ==
    IF v.idx = WordsFor(v.of) THEN w.idx = 0
    ELSE w.of = v.of /\ w.idx = v.idx + 1

WordOK(w) ==
    /\ w.idx <= WordsFor(w.of)
    /\ w.idx = 0 => w.low = w.of
    /\ w.of # 0 => w.of \in Payloads

Chain ==
    /\ WordOK(fill)
    /\ queue # <<>> => queue[Len(queue)] = fill
    /\ \A i \in 1..Len(queue) : WordOK(queue[i])
    /\ \A i \in 1..(Len(queue) - 1) : Follows(queue[i], queue[i + 1])

\* The next word the queue delivers is a descriptor.
DescriptorDue ==
    IF queue = <<>> THEN fill.idx = WordsFor(fill.of) ELSE Head(queue).idx = 0

\* The next word is word j of an IBI of n bytes, and the rest of it is queued.
WordDue(n, j) ==
    /\ queue # <<>>
    /\ Head(queue).of = n
    /\ Head(queue).idx = j
    /\ Len(queue) >= WordsFor(n) - j + 1

\* The handler has latched the descriptor at the head.
Latched ==
    /\ queue # <<>>
    /\ Head(queue).idx = 0
    /\ len = (Head(queue).of - 1) % 256
    /\ words = WordsFor(Head(queue).of)
    /\ cnt = 0

\* The handler is in the middle of an IBI with a payload.
InPayload == len < NoPayload /\ len + 1 \in Payloads

InIdle == state = "Idle" => DescriptorDue

InDescLatch == state = "DescLatch" => Latched

InDescPop == state = "DescPop" => Latched /\ Len(queue) >= words + 1

InWriteMdb ==
    state = "WriteMdb" =>
        /\ cnt = 0
        /\ IF len = NoPayload THEN DescriptorDue ELSE InPayload /\ WordDue(len + 1, 1)

InWriteData ==
    state = "WriteData" => InPayload /\ cnt <= len /\ WordDue(len + 1, cnt \div 4 + 1)

InFlush ==
    state = "Flush" =>
        /\ InPayload
        /\ cnt % 4 = 0 /\ cnt >= 4
        /\ IF cnt < len THEN WordDue(len + 1, cnt \div 4 + 1) ELSE DescriptorDue

\* The conjunction of the above is inductive, for payloads a flush drains.
Inductive ==
    /\ TypeOK
    /\ Chain
    /\ InIdle /\ InDescLatch /\ InDescPop
    /\ InWriteMdb /\ InWriteData /\ InFlush

\* A flush stops a word short of the end when the last word holds one byte and
\* is not the only one.
Drained == \A n \in Payloads : n = 1 \/ n % 4 # 1

=============================================================================
