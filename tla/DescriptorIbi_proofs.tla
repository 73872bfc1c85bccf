------------------------ MODULE DescriptorIbi_proofs ------------------------
(***************************************************************************)
(* Proofs about the IBI descriptor handler, for every queue depth and      *)
(* every set of payload lengths.                                           *)
(***************************************************************************)
EXTENDS DescriptorIbiInv, SequenceTheorems, TLAPS

-----------------------------------------------------------------------------
(* Words of a payload. *)

\* data_words of an eight-bit length is at most 64, and zero only for zero.
LEMMA WordsForBound ==
    ASSUME NEW n \in 0..255
    PROVE  /\ WordsFor(n) \in 0..64
           /\ n = 0 => WordsFor(n) = 0
           /\ n # 0 => WordsFor(n) # 0
  BY DEF WordsFor

\* data_len is the length minus one; no payload wraps to the largest value.
LEMMA DataLen ==
    ASSUME NEW n \in 0..255
    PROVE  (n - 1) % 256 = IF n = 0 THEN 255 ELSE n - 1
  OBVIOUS

\* A byte is in the word after it, or in the same word, as its index ends a
\* word or not; when it is not the last byte of the payload there is a next word.
LEMMA LastWord ==
    ASSUME NEW n \in 1..255
    PROVE  (n - 1) \div 4 + 1 = WordsFor(n)
  BY DEF WordsFor

LEMMA NextByteNextWord ==
    ASSUME NEW n \in 1..255, NEW c \in 0..255, c < n - 1, c % 4 = 3
    PROVE  c \div 4 + 1 < WordsFor(n) /\ (c + 1) \div 4 = c \div 4 + 1
  BY DEF WordsFor

LEMMA NextByteSameWord ==
    ASSUME NEW c \in 0..255, c % 4 # 3
    PROVE  (c + 1) \div 4 = c \div 4
  OBVIOUS

-----------------------------------------------------------------------------
(* The queue under a write and under a pop. *)

\* A write appends the word firmware owes next: the words stay in order, the
\* head of a queue that was not empty stays where it is, and a descriptor that
\* was due is still due.
LEMMA WriteKeepsOrder ==
    ASSUME TypeOK, Chain, FwWrite
    PROVE  /\ queue' \in Seq(Word) /\ Len(queue') <= Depth
           /\ fill' \in Word
           /\ Chain'
           /\ queue' # <<>> /\ Len(queue') = Len(queue) + 1
           /\ queue # <<>> => Head(queue') = Head(queue)
           /\ DescriptorDue => DescriptorDue'
<1>1. PICK w \in NextWords : queue' = Append(queue, w) /\ fill' = w
  BY DEF FwWrite
<1>2. /\ w \in Word
      /\ WordOK(w)
      /\ Follows(fill, w)
  <2>1. CASE fill.idx = WordsFor(fill.of)
    <3>1. PICK n \in Payloads : w = [low |-> n, of |-> n, idx |-> 0]
      BY <2>1 DEF NextWords
    <3>2. n \in 0..255 /\ WordsFor(n) \in 0..64
      <4>1. n \in 0..255
        BY PayloadsAssumption
      <4> QED
        BY <4>1, WordsForBound
    <3>3. w.low = n /\ w.of = n /\ w.idx = 0 /\ w \in Word
      BY <3>1, <3>2 DEF Word
    <3>4. WordOK(w)
      BY <3>2, <3>3 DEF WordOK
    <3> QED
      BY <2>1, <3>3, <3>4 DEF Follows
  <2>2. CASE fill.idx # WordsFor(fill.of)
    <3>1. PICK b \in LowBytes :
              w = [low |-> b, of |-> fill.of, idx |-> fill.idx + 1]
      BY <2>2 DEF NextWords
    <3>2. b \in 0..255 /\ fill.of \in 0..255 /\ fill.idx \in 0..64
      BY LowBytesAssumption DEF TypeOK, Word
    <3>3. WordsFor(fill.of) \in 0..64
      BY <3>2, WordsForBound
    <3>4. fill.idx < WordsFor(fill.of) /\ (fill.of # 0 => fill.of \in Payloads)
      <4>1. WordOK(fill)
        BY DEF Chain
      <4>2. /\ fill.idx <= WordsFor(fill.of)
            /\ fill.of # 0 => fill.of \in Payloads
        BY <4>1 DEF WordOK
      <4> QED
        BY <2>2, <3>2, <3>3, <4>2
    <3>5. w.of = fill.of /\ w.idx = fill.idx + 1 /\ w \in Word
      BY <3>1, <3>2, <3>3, <3>4 DEF Word
    <3>6. WordOK(w)
      BY <3>2, <3>3, <3>4, <3>5 DEF WordOK
    <3> QED
      BY <2>2, <3>5, <3>6 DEF Follows
  <2> QED
    BY <2>1, <2>2
<1>3. /\ queue \in Seq(Word)
      /\ Len(queue) \in Nat
      /\ Len(queue) < Depth
  BY LenProperties DEF TypeOK, FwWrite
<1>4. /\ queue' \in Seq(Word)
      /\ queue' # <<>>
      /\ Len(queue') = Len(queue) + 1
      /\ \A i \in 1..Len(queue) : queue'[i] = queue[i]
      /\ queue'[Len(queue) + 1] = w
  BY <1>1, <1>2, <1>3, AppendProperties
<1>5. Len(queue') <= Depth
  BY <1>3, <1>4, DepthAssumption
<1>6. queue # <<>> => Len(queue) >= 1 /\ Head(queue') = Head(queue)
  BY <1>3, <1>4, EmptySeq
<1>7. Chain'
  <2>1. \A i \in 1..Len(queue') : WordOK(queue'[i])
    BY <1>2, <1>3, <1>4 DEF Chain, WordOK
  <2>2. \A i \in 1..(Len(queue') - 1) : Follows(queue'[i], queue'[i + 1])
    <3> SUFFICES ASSUME NEW i \in 1..Len(queue)
                 PROVE  Follows(queue'[i], queue'[i + 1])
      BY <1>3, <1>4
    <3>1. CASE i = Len(queue)
      BY <1>2, <1>3, <1>4, <3>1 DEF Chain
    <3>2. CASE i # Len(queue)
      <4>1. i \in 1..(Len(queue) - 1) /\ i + 1 \in 1..Len(queue)
        BY <1>3, <3>2
      <4> QED
        BY <1>4, <4>1 DEF Chain
    <3> QED
      BY <3>1, <3>2
  <2> QED
    BY <1>1, <1>2, <1>4, <2>1, <2>2 DEF Chain, WordOK
<1>8. DescriptorDue => DescriptorDue'
  <2>1. CASE queue = <<>>
    <3>1. Head(queue') = w
      BY <1>4, <2>1
    <3> QED
      BY <1>2, <1>4, <2>1, <3>1 DEF DescriptorDue, Follows
  <2>2. CASE queue # <<>>
    BY <1>4, <1>6, <2>2 DEF DescriptorDue
  <2> QED
    BY <2>1, <2>2
<1> QED
  BY <1>1, <1>2, <1>4, <1>5, <1>6, <1>7, <1>8

\* A pop keeps the words in order.  After the last word of an IBI a descriptor
\* is due; after any other the next word of the same IBI.
LEMMA PopKeepsOrder ==
    ASSUME TypeOK, Chain, queue # <<>>, Pop
    PROVE  /\ queue' \in Seq(Word) /\ Len(queue') <= Depth
           /\ fill' = fill
           /\ Chain'
           /\ Head(queue) \in Word /\ WordOK(Head(queue))
           /\ Len(queue) \in Nat \ {0} /\ Len(queue') = Len(queue) - 1
           /\ Head(queue).idx = WordsFor(Head(queue).of) => DescriptorDue'
           /\ /\ Head(queue).idx # WordsFor(Head(queue).of)
              /\ queue' # <<>>
              => /\ Head(queue').of = Head(queue).of
                 /\ Head(queue').idx = Head(queue).idx + 1
<1>1. queue' = Tail(queue) /\ fill' = fill
  BY DEF Pop
<1>2. queue \in Seq(Word) /\ Len(queue) \in Nat \ {0} /\ Len(queue) <= Depth
  BY EmptySeq, LenProperties DEF TypeOK
<1>3. /\ queue' \in Seq(Word)
      /\ Len(queue') = Len(queue) - 1
      /\ \A i \in 1..Len(queue') : queue'[i] = queue[i + 1]
      /\ Head(queue) \in Word
  BY <1>1, <1>2, HeadTailProperties
<1>4. Len(queue') <= Depth
  BY <1>2, <1>3, DepthAssumption
<1>5. Head(queue) = queue[1] /\ WordOK(Head(queue))
  BY <1>2 DEF Chain
<1>6. queue' = <<>> <=> Len(queue) = 1
  BY <1>2, <1>3, EmptySeq
<1>7. Chain'
  <2>1. queue' # <<>> => queue'[Len(queue')] = fill'
    <3> SUFFICES ASSUME queue' # <<>> PROVE queue'[Len(queue')] = fill
      BY <1>1
    <3>1. Len(queue') \in 1..Len(queue') /\ Len(queue') + 1 = Len(queue)
      BY <1>2, <1>3, <1>6
    <3> QED
      BY <1>3, <3>1 DEF Chain
  <2>2. \A i \in 1..Len(queue') : WordOK(queue'[i])
    <3> SUFFICES ASSUME NEW i \in 1..Len(queue') PROVE WordOK(queue'[i])
      OBVIOUS
    <3>1. i + 1 \in 1..Len(queue)
      BY <1>2, <1>3
    <3> QED
      BY <1>3, <3>1 DEF Chain
  <2>3. \A i \in 1..(Len(queue') - 1) : Follows(queue'[i], queue'[i + 1])
    <3> SUFFICES ASSUME NEW i \in 1..(Len(queue') - 1)
                 PROVE  Follows(queue'[i], queue'[i + 1])
      OBVIOUS
    <3>1. /\ i \in 1..Len(queue') /\ i + 1 \in 1..Len(queue')
          /\ i + 1 \in 1..(Len(queue) - 1)
      BY <1>2, <1>3
    <3> QED
      BY <1>3, <3>1 DEF Chain
  <2> QED
    BY <1>1, <2>1, <2>2, <2>3 DEF Chain, WordOK
<1>8. queue' # <<>> => /\ Head(queue') = queue[2]
                       /\ Follows(queue[1], queue[2])
  <2> SUFFICES ASSUME queue' # <<>>
               PROVE  Head(queue') = queue[2] /\ Follows(queue[1], queue[2])
    OBVIOUS
  <2>1. 1 \in 1..Len(queue') /\ 1 \in 1..(Len(queue) - 1)
    BY <1>2, <1>3, <1>6
  <2>2. Head(queue') = queue'[1]
    BY <1>3
  <2> QED
    BY <1>3, <2>1, <2>2 DEF Chain
<1>9. ASSUME Head(queue).idx = WordsFor(Head(queue).of)
      PROVE  DescriptorDue'
  <2>1. CASE queue' = <<>>
    <3>1. fill = Head(queue)
      BY <1>2, <1>5, <1>6, <2>1 DEF Chain
    <3> QED
      BY <1>1, <1>9, <2>1, <3>1 DEF DescriptorDue
  <2>2. CASE queue' # <<>>
    BY <1>5, <1>8, <1>9, <2>2 DEF DescriptorDue, Follows
  <2> QED
    BY <2>1, <2>2
<1> QED
  BY <1>1, <1>2, <1>3, <1>4, <1>5, <1>7, <1>8, <1>9 DEF Follows

-----------------------------------------------------------------------------
(* Types and the order of the queue, for every set of payload lengths. *)

\* No step puts a variable out of its range or a word out of its place.
LEMMA TypeStep ==
    ASSUME TypeOK, Chain, [Next]_ibiVars
    PROVE  TypeOK' /\ Chain'
<1>1. CASE FwWrite
  <2>1. state' = state /\ len' = len /\ words' = words /\ cnt' = cnt
    BY <1>1 DEF FwWrite
  <2> QED
    BY <1>1, <2>1, WriteKeepsOrder DEF TypeOK
<1>2. CASE QueueReset
  <2>1. /\ queue' = <<>> /\ queue' \in Seq(Word) /\ Len(queue') = 0
        /\ fill' = [low |-> 0, of |-> 0, idx |-> 0]
    BY <1>2, EmptySeq DEF QueueReset
  <2>2. TypeOK'
    BY <1>2, <2>1, DepthAssumption DEF QueueReset, TypeOK, Word, States
  <2>3. WordOK(fill')
    BY <2>1 DEF WordOK, WordsFor
  <2> QED
    BY <2>1, <2>2, <2>3 DEF Chain, WordOK
<1>3. CASE Keep /\ UNCHANGED <<len, words>> /\ (PayloadQueued \/ FlushDone \/ ByteTaken)
  <2>1. state' \in States
    BY <1>3 DEF TypeOK, States, PayloadQueued, FlushDone, ByteTaken,
                MdbTaken, DataTaken, LastDataTaken
  <2>2. cnt' \in {cnt, 0, (cnt + 1) % 256}
    BY <1>3 DEF PayloadQueued, FlushDone, ByteTaken, MdbTaken, DataTaken, LastDataTaken
  <2>3. cnt' \in 0..255
    BY <2>2 DEF TypeOK
  <2> QED
    BY <1>3, <2>1, <2>3 DEF Keep, TypeOK, Chain, WordOK
<1>4. CASE LatchDescriptor
  <2>1. queue # <<>> /\ queue \in Seq(Word)
    BY <1>4 DEF LatchDescriptor, TypeOK
  <2>2. Head(queue) \in Word
    BY <2>1, HeadTailProperties
  <2>3. Head(queue).low \in 0..255
    BY <2>2 DEF Word
  <2>4. WordsFor(Head(queue).low) \in 0..64
    BY <2>3, WordsForBound
  <2>5. (Head(queue).low - 1) % 256 \in 0..255
    BY <2>3
  <2>6. len' \in 0..255 /\ words' \in 0..64
    BY <1>4, <2>4, <2>5 DEF LatchDescriptor
  <2>7. queue' = queue /\ fill' = fill /\ cnt' = 0 /\ state' \in States
    BY <1>4 DEF LatchDescriptor, Keep, States
  <2>8. TypeOK'
    BY <2>6, <2>7 DEF TypeOK
  <2>9. Chain'
    BY <2>7 DEF Chain, WordOK
  <2> QED
    BY <2>8, <2>9
<1>5. CASE Pop /\ (PopDescriptor \/ FlushWord \/ ByteTaken \/ DataFlushed)
  <2>1. len' = len /\ words' = words
    BY <1>5 DEF PopDescriptor, FlushWord, DataFlushed, ByteTaken,
                MdbTaken, DataTaken, LastDataTaken
  <2>2. state' \in States
    <3>1. state' \in {state, "Idle", "WriteMdb", "WriteData", "Flush"}
      BY <1>5 DEF PopDescriptor, FlushWord, DataFlushed, ByteTaken,
                  MdbTaken, DataTaken, LastDataTaken
    <3> QED
      BY <3>1 DEF TypeOK, States
  <2>3. cnt' \in 0..255
    <3>1. cnt \in 0..255
      BY DEF TypeOK
    <3>2. cnt \div 4 # 63 => cnt + 4 \in 0..255 /\ 4 * (cnt \div 4 + 1) \in 0..255
      BY <3>1
    <3>3. (cnt + 1) % 256 \in 0..255
      BY <3>1
    <3> QED
      BY <1>5, <3>1, <3>2, <3>3
         DEF PopDescriptor, FlushWord, DataFlushed, ByteTaken,
             MdbTaken, DataTaken, LastDataTaken, LastWordOfAll
  <2>4. CASE queue = <<>>
    BY <1>5, <2>1, <2>2, <2>3, <2>4 DEF Pop, TypeOK, Chain, WordOK
  <2>5. CASE queue # <<>>
    BY <1>5, <2>1, <2>2, <2>3, <2>5, PopKeepsOrder DEF TypeOK
  <2> QED
    BY <2>4, <2>5
<1>6. CASE UNCHANGED ibiVars
  BY <1>6 DEF ibiVars, TypeOK, Chain, WordOK
<1> QED
  BY <1>1, <1>2, <1>3, <1>4, <1>5, <1>6
     DEF Next, HandlerStep, ByteTaken, LatchDescriptor, PayloadQueued, PopDescriptor,
         FlushDone, FlushWord, MdbTaken, DataTaken, LastDataTaken, DataFlushed

\* Every variable stays in its range, whatever firmware, the target and the
\* controller do.
THEOREM TypeCorrect == Spec => []TypeOK
<1>1. Init => TypeOK /\ Chain
  <2> SUFFICES ASSUME Init PROVE TypeOK /\ Chain
    OBVIOUS
  <2>1. queue = <<>> /\ queue \in Seq(Word) /\ Len(queue) = 0
    BY EmptySeq DEF Init
  <2> QED
    BY <2>1, DepthAssumption DEF Init, TypeOK, Chain, Word, States, WordOK, WordsFor
<1>2. TypeOK /\ Chain /\ [Next]_ibiVars => (TypeOK /\ Chain)'
  BY TypeStep
<1> QED
  BY <1>1, <1>2, PTL DEF Spec

-----------------------------------------------------------------------------
(* The words of the IBI in hand. *)

\* A write does not disturb the IBI the handler is working on.
LEMMA WriteKeepsDue ==
    ASSUME TypeOK, Chain, FwWrite,
           NEW n \in 0..255, NEW j \in 0..64, WordDue(n, j)
    PROVE  WordDue(n, j)'
<1>1. /\ queue # <<>>
      /\ Head(queue).of = n /\ Head(queue).idx = j
      /\ Len(queue) >= WordsFor(n) - j + 1
  BY DEF WordDue
<1>2. WordsFor(n) \in 0..64 /\ Len(queue) \in Nat
  BY WordsForBound, LenProperties DEF TypeOK
<1>3. queue' # <<>> /\ Len(queue') = Len(queue) + 1 /\ Head(queue') = Head(queue)
  BY <1>1, WriteKeepsOrder
<1>4. Len(queue') >= WordsFor(n) - j + 1
  <2>1. PICK k \in 0..64 : k = WordsFor(n)
    BY <1>2
  <2>2. PICK l \in Nat : l = Len(queue)
    BY <1>2
  <2>3. l >= k - j + 1 => l + 1 >= k - j + 1
    BY <2>1, <2>2
  <2> QED
    BY <1>1, <1>3, <2>1, <2>2, <2>3
<1> QED
  BY <1>1, <1>3, <1>4 DEF WordDue

\* Popping a word of an IBI leaves its next word due, or the next descriptor.
LEMMA PopMovesOn ==
    ASSUME TypeOK, Chain, Pop,
           NEW n \in 0..255, NEW j \in 0..64, WordDue(n, j)
    PROVE  /\ j = WordsFor(n) => DescriptorDue'
           /\ j < WordsFor(n) => WordDue(n, j + 1)'
<1>1. /\ queue # <<>>
      /\ Head(queue).of = n /\ Head(queue).idx = j
      /\ Len(queue) >= WordsFor(n) - j + 1
  BY DEF WordDue
<1>2. WordsFor(n) \in 0..64
  BY WordsForBound
<1>3. /\ Len(queue) \in Nat /\ Len(queue') = Len(queue) - 1
      /\ queue' \in Seq(Word)
      /\ j = WordsFor(n) => DescriptorDue'
      /\ j # WordsFor(n) /\ queue' # <<>>
         => Head(queue').of = n /\ Head(queue').idx = j + 1
  BY <1>1, PopKeepsOrder
<1>4. ASSUME j < WordsFor(n) PROVE WordDue(n, j + 1)'
  <2>1. Len(queue') >= WordsFor(n) - (j + 1) + 1 /\ Len(queue') >= 1
    <3>1. PICK k \in 0..64 : k = WordsFor(n)
      BY <1>2
    <3>2. PICK l \in Nat : l = Len(queue)
      BY <1>3
    <3>3. l >= k - j + 1 /\ j < k => l - 1 >= k - (j + 1) + 1 /\ l - 1 >= 1
      BY <3>1, <3>2
    <3> QED
      BY <1>1, <1>3, <1>4, <3>1, <3>2, <3>3
  <2>2. queue' # <<>>
    BY <2>1, EmptySeq
  <2>3. j # WordsFor(n)
    BY <1>2, <1>4
  <2> QED
    BY <1>3, <2>1, <2>2, <2>3 DEF WordDue
<1> QED
  BY <1>3, <1>4

\* The parts of the invariant that speak of the handler's state.
Handler == InIdle /\ InDescLatch /\ InDescPop /\ InWriteMdb /\ InWriteData /\ InFlush

-----------------------------------------------------------------------------
(* One lemma for each kind of step. *)

LEMMA FwWriteStep ==
    ASSUME Inductive, FwWrite
    PROVE  Handler'
<1>1. state' = state /\ len' = len /\ words' = words /\ cnt' = cnt
  BY DEF FwWrite
<1>2. TypeOK /\ Chain
  BY DEF Inductive
<1>3. /\ queue # <<>> => queue' # <<>> /\ Head(queue') = Head(queue)
      /\ Len(queue') = Len(queue) + 1 /\ Len(queue) \in Nat
      /\ DescriptorDue => DescriptorDue'
  BY <1>2, WriteKeepsOrder, LenProperties DEF TypeOK
<1>4. Latched => Latched'
  BY <1>1, <1>3 DEF Latched
<1>5. InIdle' /\ InDescLatch' /\ InDescPop'
  <2>1. words \in 0..64
    BY <1>2 DEF TypeOK
  <2>2. Len(queue) >= words + 1 => Len(queue') >= words' + 1
    BY <1>1, <1>3, <2>1
  <2> QED
    BY <1>1, <1>3, <1>4, <2>2 DEF Inductive, InIdle, InDescLatch, InDescPop
<1>6. InWriteMdb' /\ InWriteData' /\ InFlush'
  <2>1. InPayload => InPayload'
    BY <1>1 DEF InPayload
  <2>2. ASSUME NEW j \in 0..64, InPayload, WordDue(len + 1, j)
        PROVE  WordDue(len + 1, j)'
    <3>1. len + 1 \in 0..255
      BY <1>2, <2>2 DEF InPayload, NoPayload, TypeOK
    <3>2. PICK n \in 0..255 : n = len + 1
      BY <3>1
    <3>3. WordDue(n, j)'
      BY <1>2, <2>2, <3>2, WriteKeepsDue
    <3> QED
      BY <1>1, <3>2, <3>3 DEF WordDue
  <2>3. PICK j \in 0..64 : j = cnt \div 4 + 1
    BY <1>2 DEF TypeOK
  <2>4. InWriteMdb'
    <3>1. CASE len = NoPayload
      BY <1>1, <1>3, <3>1 DEF Inductive, InWriteMdb
    <3>2. CASE len # NoPayload
      BY <1>1, <2>1, <2>2, <3>2 DEF Inductive, InWriteMdb, WordDue
    <3> QED
      BY <3>1, <3>2
  <2>5. InWriteData'
    BY <1>1, <2>1, <2>2, <2>3 DEF Inductive, InWriteData, WordDue
  <2>6. InFlush'
    BY <1>1, <1>3, <2>1, <2>2, <2>3 DEF Inductive, InFlush, WordDue
  <2> QED
    BY <2>4, <2>5, <2>6
<1> QED
  BY <1>5, <1>6 DEF Handler

\* The handler is idle after a reset, and the queue awaits a descriptor.
LEMMA QueueResetStep ==
    ASSUME QueueReset
    PROVE  Handler'
<1>1. state' = "Idle" /\ queue' = <<>> /\ fill' = [low |-> 0, of |-> 0, idx |-> 0]
  BY DEF QueueReset
<1>2. DescriptorDue'
  BY <1>1 DEF DescriptorDue, WordsFor
<1> QED
  BY <1>1, <1>2 DEF Handler, InIdle, InDescLatch, InDescPop, InWriteMdb, InWriteData, InFlush

\* What is latched is the descriptor at the head: a word of index zero holds
\* the length of its IBI.
LEMMA LatchStep ==
    ASSUME Inductive, LatchDescriptor
    PROVE  Handler'
<1>1. /\ state' = "DescLatch" /\ queue' = queue /\ queue # <<>> /\ cnt' = 0
      /\ len' = (Head(queue).low - 1) % 256
      /\ words' = WordsFor(Head(queue).low)
      /\ Head(queue).idx = 0
  BY DEF LatchDescriptor, Keep, Inductive, InIdle, DescriptorDue
<1>2. 1 \in 1..Len(queue) /\ Head(queue) = queue[1]
  BY <1>1, EmptySeq DEF Inductive, TypeOK
<1>3. Head(queue).low = Head(queue).of
  BY <1>1, <1>2 DEF Inductive, Chain, WordOK
<1> QED
  BY <1>1, <1>3
     DEF Handler, Latched, InIdle, InDescLatch, InDescPop, InWriteMdb, InWriteData, InFlush

LEMMA PayloadQueuedStep ==
    ASSUME Inductive, PayloadQueued
    PROVE  Handler'
<1>1. /\ state' = "DescPop" /\ Len(queue) >= words + 1 /\ Latched
      /\ queue' = queue /\ len' = len /\ words' = words /\ cnt' = cnt
  BY DEF PayloadQueued, Keep, Inductive, InDescLatch
<1> QED
  BY <1>1
     DEF Handler, Latched, InIdle, InDescLatch, InDescPop, InWriteMdb, InWriteData, InFlush

\* Behind the popped descriptor stands the first word of its payload, or, when
\* it has none, the next descriptor.
LEMMA PopDescriptorStep ==
    ASSUME Inductive, PopDescriptor
    PROVE  Handler'
<1>1. /\ TypeOK /\ Chain /\ Pop /\ Latched /\ Len(queue) >= words + 1
      /\ state' = "WriteMdb" /\ len' = len /\ cnt' = cnt
  BY DEF PopDescriptor, Inductive, InDescPop
<1>2. /\ Head(queue).of \in 0..255
      /\ Head(queue).of # 0 => Head(queue).of \in Payloads
  BY <1>1, PopKeepsOrder DEF Latched, Word, WordOK
<1>3. PICK n \in 0..255 : n = Head(queue).of
  BY <1>2
<1>4. /\ WordsFor(n) \in 0..64
      /\ n = 0 => WordsFor(n) = 0
      /\ n # 0 => WordsFor(n) # 0
  BY WordsForBound
<1>5. WordDue(n, 0)
  <2>1. queue # <<>> /\ Head(queue).idx = 0 /\ words = WordsFor(n)
    BY <1>1, <1>3 DEF Latched
  <2>2. PICK k \in 0..64 : k = WordsFor(n)
    BY <1>4
  <2>3. k - 0 + 1 = k + 1
    BY <2>2
  <2>4. Len(queue) >= WordsFor(n) - 0 + 1
    BY <1>1, <2>1, <2>2, <2>3
  <2> QED
    BY <1>3, <2>1, <2>4 DEF WordDue
<1>6. /\ 0 = WordsFor(n) => DescriptorDue'
      /\ 0 < WordsFor(n) => WordDue(n, 1)'
  <2>1. PICK j \in 0..64 : j = 0
    OBVIOUS
  <2>2. /\ j = WordsFor(n) => DescriptorDue'
        /\ j < WordsFor(n) => WordDue(n, j + 1)'
    BY <1>1, <1>5, <2>1, PopMovesOn
  <2> QED
    BY <2>1, <2>2 DEF WordDue
<1>7. len = (n - 1) % 256 /\ cnt = 0
  BY <1>1, <1>3 DEF Latched
<1>8. InWriteMdb'
  <2>1. CASE n = 0
    <3>1. DescriptorDue'
      BY <1>4, <1>6, <2>1
    <3>2. (n - 1) % 256 = 255
      BY <2>1, DataLen
    <3> QED
      BY <1>1, <1>7, <3>1, <3>2 DEF InWriteMdb, NoPayload
  <2>2. CASE n # 0
    <3>1. len = n - 1 /\ len < NoPayload /\ n \in Payloads
      BY <1>2, <1>3, <1>7, <2>2 DEF NoPayload
    <3>2. WordDue(n, 1)'
      BY <1>4, <1>6, <2>2
    <3> QED
      BY <1>1, <1>7, <3>1, <3>2 DEF InWriteMdb, InPayload, WordDue
  <2> QED
    BY <2>1, <2>2
<1> QED
  BY <1>1, <1>8 DEF Handler, InIdle, InDescLatch, InDescPop, InWriteData, InFlush

LEMMA MdbTakenStep ==
    ASSUME Inductive, MdbTaken
    PROVE  Handler'
<1>1. /\ InWriteMdb /\ state = "WriteMdb"
      /\ state' = IF len = NoPayload THEN "Idle" ELSE "WriteData"
      /\ queue' = queue /\ fill' = fill /\ len' = len /\ cnt' = cnt
      /\ len \in 0..255
  BY DEF MdbTaken, Keep, Inductive, TypeOK
<1>2. CASE len = NoPayload
  BY <1>1, <1>2
     DEF Handler, InIdle, InDescLatch, InDescPop, InWriteMdb, InWriteData, InFlush,
         DescriptorDue
<1>3. CASE len # NoPayload
  <2>1. cnt = 0 /\ InPayload /\ WordDue(len + 1, 1)
    BY <1>1, <1>3 DEF InWriteMdb
  <2>2. cnt <= len /\ cnt \div 4 + 1 = 1
    BY <1>1, <2>1
  <2> QED
    BY <1>1, <1>3, <2>1, <2>2
       DEF Handler, InIdle, InDescLatch, InDescPop, InWriteMdb, InWriteData, InFlush,
           InPayload, WordDue
<1> QED
  BY <1>2, <1>3

\* The word is popped with its last byte, and only then.
LEMMA DataTakenStep ==
    ASSUME Inductive, DataTaken
    PROVE  Handler'
<1>1. /\ TypeOK /\ Chain /\ InPayload /\ cnt <= len /\ cnt # len
      /\ WordDue(len + 1, cnt \div 4 + 1)
      /\ len \in 0..255 /\ cnt \in 0..255
  BY DEF DataTaken, Inductive, InWriteData, TypeOK
<1>2. /\ state' = "WriteData" /\ len' = len /\ cnt' = (cnt + 1) % 256
      /\ IF cnt % 4 = 3 THEN Pop ELSE Keep
  BY DEF DataTaken
<1>3. PICK n \in 1..255 : n = len + 1
  BY <1>1 DEF InPayload, NoPayload
<1>4. PICK c \in 0..255 : c = cnt /\ c < n - 1
  BY <1>1, <1>3
<1>5. cnt' = c + 1 /\ c + 1 <= n - 1
  BY <1>2, <1>4
<1>6. c \div 4 + 1 \in 0..64
  BY <1>4
<1>7. PICK j \in 0..64 : j = c \div 4 + 1
  BY <1>6
<1>8. WordDue(n, (c + 1) \div 4 + 1)'
  <2>1. CASE c % 4 = 3
    <3>1. j < WordsFor(n) /\ (c + 1) \div 4 = j
      BY <1>4, <1>7, <2>1, NextByteNextWord
    <3>2. Pop /\ WordDue(n, j)
      BY <1>1, <1>2, <1>3, <1>4, <1>7, <2>1
    <3>3. n \in 0..255
      OBVIOUS
    <3>4. WordDue(n, j + 1)'
      BY <1>1, <3>1, <3>2, <3>3, PopMovesOn
    <3> QED
      BY <3>1, <3>4
  <2>2. CASE c % 4 # 3
    <3>1. (c + 1) \div 4 = c \div 4
      BY <2>2, NextByteSameWord
    <3> QED
      BY <1>1, <1>2, <1>3, <1>4, <2>2, <3>1 DEF Keep, WordDue
  <2> QED
    BY <2>1, <2>2
<1> QED
  BY <1>1, <1>2, <1>3, <1>5, <1>8
     DEF Handler, InIdle, InDescLatch, InDescPop, InWriteMdb, InWriteData, InFlush,
         InPayload, WordDue

\* The last byte is in the last word, and its pop leaves the next descriptor.
LEMMA LastDataTakenStep ==
    ASSUME Inductive, LastDataTaken
    PROVE  Handler'
<1>1. /\ TypeOK /\ Chain /\ InPayload /\ cnt = len /\ Pop
      /\ WordDue(len + 1, cnt \div 4 + 1)
      /\ len \in 0..255 /\ state' = "Idle"
  BY DEF LastDataTaken, Inductive, InWriteData, TypeOK
<1>2. PICK n \in 1..255 : n = len + 1
  BY <1>1 DEF InPayload, NoPayload
<1>3. PICK c \in 0..255 : c = cnt /\ c = n - 1
  BY <1>1, <1>2
<1>4. n \in 0..255 /\ c \div 4 + 1 = WordsFor(n)
  BY <1>3, LastWord
<1>5. PICK j \in 0..64 : j = c \div 4 + 1
  BY <1>3
<1>6. WordDue(n, j) /\ j = WordsFor(n)
  BY <1>1, <1>2, <1>3, <1>4, <1>5
<1>7. DescriptorDue'
  BY <1>1, <1>4, <1>6, PopMovesOn
<1> QED
  BY <1>1, <1>7
     DEF Handler, InIdle, InDescLatch, InDescPop, InWriteMdb, InWriteData, InFlush

\* Dropping the word of byte c, on an abort or in a flush, leaves the next word
\* due if the flush goes on and the next descriptor if it is over.  A length that
\* leaves one byte in the last of several words is the exception.
LEMMA DropWord ==
    ASSUME Drained, TypeOK, Chain, Pop,
           NEW n \in 1..255, NEW c \in 0..255, c <= n - 1, n \in Payloads,
           WordDue(n, c \div 4 + 1)
    PROVE  /\ c \div 4 = 63 => DescriptorDue'
           /\ 4 * (c \div 4 + 1) >= n - 1 => DescriptorDue'
           /\ 4 * (c \div 4 + 1) < n - 1 => WordDue(n, c \div 4 + 2)'
<1>1. /\ 4 * (c \div 4 + 1) < n - 1 => c \div 4 + 1 < WordsFor(n)
      /\ 4 * (c \div 4 + 1) >= n - 1 => c \div 4 + 1 = WordsFor(n)
      /\ c \div 4 = 63 => WordsFor(n) = 64
  <2>1. n = 1 \/ n % 4 # 1
    BY DEF Drained
  <2> QED
    BY <2>1 DEF WordsFor
<1>2. PICK j \in 0..64 : j = c \div 4 + 1
  OBVIOUS
<1>3. /\ j = WordsFor(n) => DescriptorDue'
      /\ j < WordsFor(n) => WordDue(n, j + 1)'
  <2>1. n \in 0..255 /\ WordDue(n, j)
    BY <1>2
  <2> QED
    BY <2>1, PopMovesOn
<1>4. j + 1 = c \div 4 + 2 /\ (c \div 4 = 63 => j = 64)
  BY <1>2
<1> QED
  BY <1>1, <1>2, <1>3, <1>4

\* An abort drops the word the byte on offer is in.
LEMMA DataFlushedStep ==
    ASSUME Drained, Inductive, DataFlushed
    PROVE  Handler'
<1>1. /\ TypeOK /\ Chain /\ InPayload /\ cnt <= len /\ Pop
      /\ WordDue(len + 1, cnt \div 4 + 1)
      /\ len \in 0..255 /\ cnt \in 0..255 /\ len' = len
      /\ cnt' = IF cnt \div 4 = 63 THEN 0 ELSE 4 * (cnt \div 4 + 1)
      /\ state' = IF cnt \div 4 = 63 THEN "Idle" ELSE "Flush"
  BY DEF DataFlushed, LastWordOfAll, Inductive, InWriteData, TypeOK
<1>2. PICK n \in 1..255 : n = len + 1
  BY <1>1 DEF InPayload, NoPayload
<1>3. PICK c \in 0..255 : c = cnt /\ c <= n - 1
  BY <1>1, <1>2
<1>4. /\ c \div 4 = 63 => DescriptorDue'
      /\ 4 * (c \div 4 + 1) >= n - 1 => DescriptorDue'
      /\ 4 * (c \div 4 + 1) < n - 1 => WordDue(n, c \div 4 + 2)'
  <2>1. n \in Payloads /\ WordDue(n, c \div 4 + 1)
    BY <1>1, <1>2, <1>3 DEF InPayload
  <2> QED
    BY <1>1, <1>3, <2>1, DropWord
<1>5. CASE c \div 4 = 63
  BY <1>1, <1>3, <1>4, <1>5
     DEF Handler, InIdle, InDescLatch, InDescPop, InWriteMdb, InWriteData, InFlush
<1>6. CASE c \div 4 # 63
  <2>1. PICK d \in 4..255 : d = 4 * (c \div 4 + 1) /\ d % 4 = 0 /\ d \div 4 + 1 = c \div 4 + 2
    BY <1>6
  <2>2. /\ d >= n - 1 => DescriptorDue'
        /\ d < n - 1 => WordDue(n, d \div 4 + 1)'
    BY <1>4, <2>1
  <2>3. cnt' = d /\ state' = "Flush" /\ len' = n - 1 /\ len' + 1 = n
    BY <1>1, <1>2, <1>3, <1>6, <2>1
  <2>4. InFlush'
    BY <1>1, <2>1, <2>2, <2>3 DEF InFlush, InPayload, WordDue
  <2> QED
    BY <2>3, <2>4 DEF Handler, InIdle, InDescLatch, InDescPop, InWriteMdb, InWriteData
<1> QED
  BY <1>5, <1>6

\* A flush drops the words that are left one by one.
LEMMA FlushWordStep ==
    ASSUME Drained, Inductive, FlushWord
    PROVE  Handler'
<1>1. /\ TypeOK /\ Chain /\ InPayload /\ cnt < len /\ cnt % 4 = 0 /\ Pop
      /\ WordDue(len + 1, cnt \div 4 + 1)
      /\ len \in 0..255 /\ cnt \in 0..255 /\ len' = len
      /\ cnt' = IF cnt \div 4 = 63 THEN 0 ELSE cnt + 4
      /\ state' = IF cnt \div 4 = 63 THEN "Idle" ELSE "Flush"
  BY DEF FlushWord, LastWordOfAll, Inductive, InFlush, TypeOK
<1>2. PICK n \in 1..255 : n = len + 1
  BY <1>1 DEF InPayload, NoPayload
<1>3. PICK c \in 0..255 : c = cnt /\ c <= n - 1
  BY <1>1, <1>2
<1>4. /\ c \div 4 = 63 => DescriptorDue'
      /\ 4 * (c \div 4 + 1) >= n - 1 => DescriptorDue'
      /\ 4 * (c \div 4 + 1) < n - 1 => WordDue(n, c \div 4 + 2)'
  <2>1. n \in Payloads /\ WordDue(n, c \div 4 + 1)
    BY <1>1, <1>2, <1>3 DEF InPayload
  <2> QED
    BY <1>1, <1>3, <2>1, DropWord
<1>5. CASE c \div 4 = 63
  BY <1>1, <1>3, <1>4, <1>5
     DEF Handler, InIdle, InDescLatch, InDescPop, InWriteMdb, InWriteData, InFlush
<1>6. CASE c \div 4 # 63
  <2>1. c % 4 = 0
    BY <1>1, <1>3
  <2>2. PICK d \in 4..255 : /\ d = c + 4 /\ d = 4 * (c \div 4 + 1)
                            /\ d % 4 = 0 /\ d \div 4 + 1 = c \div 4 + 2
    BY <1>6, <2>1
  <2>3. /\ d >= n - 1 => DescriptorDue'
        /\ d < n - 1 => WordDue(n, d \div 4 + 1)'
    BY <1>4, <2>2
  <2>4. cnt' = d /\ state' = "Flush" /\ len' = n - 1 /\ len' + 1 = n
    BY <1>1, <1>2, <1>3, <1>6, <2>2
  <2>5. InFlush'
    BY <1>1, <2>2, <2>3, <2>4 DEF InFlush, InPayload, WordDue
  <2> QED
    BY <2>4, <2>5 DEF Handler, InIdle, InDescLatch, InDescPop, InWriteMdb, InWriteData
<1> QED
  BY <1>5, <1>6

LEMMA FlushDoneStep ==
    ASSUME Inductive, FlushDone
    PROVE  Handler'
<1>1. /\ state' = "Idle" /\ queue' = queue /\ fill' = fill
      /\ ~(cnt < len) /\ InFlush /\ state = "Flush"
  BY DEF FlushDone, Keep, Inductive, TypeOK
<1>2. DescriptorDue
  BY <1>1 DEF InFlush
<1> QED
  BY <1>1, <1>2
     DEF Handler, InIdle, InDescLatch, InDescPop, InWriteMdb, InWriteData, InFlush,
         DescriptorDue

-----------------------------------------------------------------------------
(* The invariant and what it implies. *)

\* Inductive holds initially.
LEMMA InductiveInit == Init => Inductive
<1> SUFFICES ASSUME Init PROVE Inductive
  OBVIOUS
<1>1. queue = <<>> /\ queue \in Seq(Word) /\ Len(queue) = 0
  BY EmptySeq DEF Init
<1>2. TypeOK /\ Chain
  BY <1>1, DepthAssumption DEF Init, TypeOK, Chain, Word, States, WordOK, WordsFor
<1>3. state = "Idle" /\ DescriptorDue
  BY <1>1 DEF Init, DescriptorDue, WordsFor
<1> QED
  BY <1>2, <1>3
     DEF Inductive, InIdle, InDescLatch, InDescPop, InWriteMdb, InWriteData, InFlush

\* Every step preserves Inductive when the payloads are ones a flush drains.
LEMMA InductiveStep ==
    ASSUME Drained, Inductive, [Next]_ibiVars
    PROVE  Inductive'
<1>1. TypeOK' /\ Chain'
  BY TypeStep DEF Inductive
<1>2. Handler'
  <2>1. CASE FwWrite
    BY <2>1, FwWriteStep
  <2>2. CASE QueueReset
    BY <2>2, QueueResetStep
  <2>3. CASE HandlerStep
    BY <2>3, LatchStep, PayloadQueuedStep, PopDescriptorStep, FlushDoneStep, FlushWordStep
       DEF HandlerStep
  <2>4. CASE ByteTaken
    BY <2>4, MdbTakenStep, DataTakenStep, LastDataTakenStep DEF ByteTaken
  <2>5. CASE DataFlushed
    BY <2>5, DataFlushedStep
  <2>6. CASE UNCHANGED ibiVars
    BY <2>6
       DEF ibiVars, Inductive, Handler, InIdle, InDescLatch, InDescPop, InWriteMdb,
           InWriteData, InFlush, Latched, InPayload, WordDue, DescriptorDue
  <2> QED
    BY <2>1, <2>2, <2>3, <2>4, <2>5, <2>6 DEF Next
<1> QED
  BY <1>1, <1>2 DEF Inductive, Handler

\* The safety properties follow from Inductive.
LEMMA InductiveImplies ==
    Inductive => HeadIsDescriptor /\ NeverRunsDry /\ ByteFromItsWord
  BY DEF Inductive, HeadIsDescriptor, NeverRunsDry, ByteFromItsWord, InIdle, InDescLatch,
         InDescPop, InWriteData, DescriptorDue, Latched, WordDue

\* Inductive holds in every reachable state.
THEOREM InvariantHolds ==
    ASSUME Drained
    PROVE  Spec => []Inductive
<1>1. Inductive /\ [Next]_ibiVars => Inductive'
  BY InductiveStep
<1> QED
  BY InductiveInit, <1>1, PTL DEF Spec

\* A handler that is ready for the next IBI finds a descriptor at the head of
\* the queue, however the IBIs before it ended.
THEOREM DescriptorsAligned ==
    ASSUME Drained
    PROVE  Spec => []HeadIsDescriptor
  BY InvariantHolds, InductiveImplies, PTL

\* The queue never runs dry in the middle of an IBI, which the target FSM
\* relies on without looking.
THEOREM QueueNeverRunsDry ==
    ASSUME Drained
    PROVE  Spec => []NeverRunsDry
  BY InvariantHolds, InductiveImplies, PTL

\* Every payload byte is taken from its own word of its own IBI.
THEOREM BytesFromTheirWords ==
    ASSUME Drained
    PROVE  Spec => []ByteFromItsWord
  BY InvariantHolds, InductiveImplies, PTL

=============================================================================
