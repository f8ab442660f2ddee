------------------------- MODULE PacketFifo_proofs -------------------------
(***************************************************************************)
(* PacketFifo for any sizes of the HyperRAM and of the output FIFO: no     *)
(* strobe of the controller loses or invents a word, and the whole is a    *)
(* queue, StreamQueue.                                                     *)
(***************************************************************************)
EXTENDS PacketFifo, SequenceTheorems, TLAPS

(* The stream says that a word is the last one unless another follows, so  *)
(* that a burst that goes on finds one.                                    *)
LastIsHonest == input.valid /\ ~ input.last => ring > 0

(* The words lie between the two addresses, and the controller is at the   *)
(* one that it moves.                                                      *)
AddressesMeet ==
  /\ write_address = Behind(read_address, word_count)
  /\ Transferring(TRUE) => psram.address = write_address
  /\ Transferring(FALSE) => psram.address = read_address

IInv == TypeOK /\ EveryStrobeCounts /\ LastIsHonest /\ AddressesMeet
-----------------------------------------------------------------------------
LEMMA AfterType ==
  ASSUME NEW size \in Nat \ {0}, NEW n \in 0 .. size - 1
  PROVE  After(n, size) \in 0 .. size - 1
  BY DEF After

LEMMA BehindType ==
  ASSUME NEW a \in Address, NEW n \in 0 .. Depth
  PROVE  Behind(a, n) \in Address
  BY PacketFifoAssumption DEF Behind, Address

(* A step of either address, in terms of the distance between them.        *)
LEMMA AfterBehind ==
  ASSUME NEW a \in Address, NEW n \in 0 .. Depth - 1
  PROVE  /\ After(Behind(a, n), Depth) = Behind(a, n + 1)
         /\ Behind(After(a, Depth), n) = Behind(a, n + 1)
  BY PacketFifoAssumption DEF Behind, Address, After

(* The stream shows a word when one was left behind the word it showed.    *)
LEMMA SourceKeeps ==
  ASSUME TypeOK, LastIsHonest, NEW taken \in BOOLEAN, Source(taken)
  PROVE  /\ ring' \in 0 .. RingWords /\ input' \in Stream /\ following' \in Word
         /\ LastIsHonest'
         /\ input.valid /\ (~ taken \/ ~ input.last) => input'.valid
         /\ ~ taken /\ input.valid => input' = input
  <1>1. CASE input.valid /\ ~ taken
    BY <1>1, PacketFifoAssumption DEF Source, Commits, TypeOK, LastIsHonest
  <1>2. CASE ~ (input.valid /\ ~ taken) /\ ring = 0
    <2>1. input' \in Stream /\ ~ input'.valid
      BY <1>2 DEF Source, TypeOK, Stream
    <2>2. ring' \in 0 .. RingWords /\ following' \in Word
      BY <1>2, PacketFifoAssumption DEF Source, Commits, TypeOK
    <2>3. QED
      BY <1>2, <2>1, <2>2 DEF LastIsHonest
  <1>3. CASE ~ (input.valid /\ ~ taken) /\ ring # 0
    <2>1. /\ input' = [valid |-> TRUE, last |-> ring = 1, word |-> following]
          /\ ring' \in ring - 1 .. RingWords
          /\ following' = After(following, NumWords)
      BY <1>3 DEF Source, Commits
    <2>2. following' \in Word
      BY <2>1, AfterType, PacketFifoAssumption DEF TypeOK, Word
    <2>3. input' \in Stream
      BY <2>1 DEF TypeOK, Stream
    <2>4. LastIsHonest'
      <3>1. CASE ring = 1
        BY <2>1, <3>1 DEF LastIsHonest
      <3>2. CASE ring > 1
        BY <2>1, <3>2, PacketFifoAssumption DEF LastIsHonest, TypeOK
      <3>3. QED
        BY <1>3, <3>1, <3>2 DEF TypeOK
    <2>5. QED
      BY <1>3, <2>1, <2>2, <2>3, <2>4, PacketFifoAssumption DEF TypeOK
  <1>4. QED
    BY <1>1, <1>2, <1>3

LEMMA DrainedType ==
  ASSUME TypeOK, NEW q \in Drained
  PROVE  /\ q \in Seq(Word)
         /\ Len(q) <= Len(out)
         /\ q = out \/ (out # <<>> /\ q = Tail(out) /\ Len(q) = Len(out) - 1)
  BY DEF TypeOK, Drained

LEMMA InitIInv == Init => IInv
  <1>1. SUFFICES ASSUME Init PROVE IInv
    OBVIOUS
  <1>2. 0 \in Word /\ 0 \in Address
    BY PacketFifoAssumption DEF Word, Address
  <1>3. psram \in Controller /\ psram.state = "idle"
    BY <1>1, <1>2 DEF Init, Idle, Controller
  <1>4. input \in Stream /\ ~ input.valid
    BY <1>1, <1>2 DEF Init, Stream
  <1>5. ram \in [Address -> Word] /\ out \in Seq(Word) /\ Len(out) = 0
    BY <1>1, <1>2 DEF Init
  <1>6. TypeOK
    <2>1. ring \in 0 .. RingWords /\ word_count \in 0 .. Depth
      BY <1>1, PacketFifoAssumption DEF Init
    <2>2. Len(out) <= OutDepth
      BY <1>5, PacketFifoAssumption
    <2>3. QED
      BY <1>1, <1>2, <1>3, <1>4, <1>5, <2>1, <2>2 DEF Init, TypeOK
  <1>7. EveryStrobeCounts /\ LastIsHonest
    BY <1>3, <1>4 DEF EveryStrobeCounts, LastIsHonest, Transferring
  <1>8. AddressesMeet
    BY <1>1, <1>3, PacketFifoAssumption
    DEF Init, AddressesMeet, Behind, Transferring
  <1>9. QED
    BY <1>6, <1>7, <1>8 DEF IInv

LEMMA StartKeeps ==
  ASSUME IInv, NEW write \in BOOLEAN, NEW address \in Address,
         Start(write, address), discarding' \in BOOLEAN,
         write => input.valid /\ word_count < Depth /\ address = write_address,
         ~ write => /\ word_count > 0 /\ Len(out) < OutDepth
                    /\ address = read_address
  PROVE  IInv'
  <1>1. /\ ring' \in 0 .. RingWords /\ input' \in Stream /\ following' \in Word
        /\ LastIsHonest'
        /\ input.valid => input'.valid
    BY SourceKeeps DEF IInv, Start
  <1>2. out' \in Seq(Word) /\ Len(out') <= Len(out)
    BY DrainedType DEF IInv, Start
  <1>3. psram' = [state |-> "transfer", address |-> address] /\ is_write' = write
    BY DEF Start
  <1>4. TypeOK'
    <2>1. psram' \in Controller
      BY <1>3 DEF Controller
    <2>2. QED
      BY <1>1, <1>2, <1>3, <2>1, PacketFifoAssumption DEF IInv, TypeOK, Start
  <1>5. EveryStrobeCounts'
    BY <1>1, <1>2, <1>3, PacketFifoAssumption
    DEF IInv, TypeOK, EveryStrobeCounts, Transferring, Start
  <1>6. AddressesMeet'
    BY <1>3 DEF IInv, AddressesMeet, Behind, Transferring, Start
  <1>7. QED
    BY <1>1, <1>4, <1>5, <1>6 DEF IInv

LEMMA WriteWordKeeps ==
  ASSUME IInv, WriteWord, discarding' \in BOOLEAN
  PROVE  IInv'
  <1>1. /\ input.valid /\ word_count < Depth
        /\ psram.state = "transfer" /\ is_write = TRUE /\ is_write' = TRUE
        /\ psram.address = write_address
    BY DEF WriteWord, Transferring, IInv, EveryStrobeCounts, AddressesMeet
  <1>2. /\ ring' \in 0 .. RingWords /\ input' \in Stream /\ following' \in Word
        /\ LastIsHonest'
        /\ ~ input.last => input'.valid
    BY <1>1, SourceKeeps DEF IInv, WriteWord
  <1>3. out' \in Seq(Word) /\ Len(out') <= Len(out)
    BY DrainedType DEF IInv, WriteWord
  <1>4. /\ write_address' \in Address
        /\ write_address' = Behind(read_address, word_count')
        /\ read_address' = read_address
        /\ word_count' \in 0 .. Depth /\ word_count' = word_count + 1
    BY <1>1, AfterType, AfterBehind, PacketFifoAssumption
    DEF IInv, TypeOK, WriteWord, AddressesMeet, Address
  <1>5. /\ psram' \in Controller
        /\ psram'.address = write_address'
        /\ psram'.state = "transfer" => word_count' < Depth /\ ~ input.last
    <2>1. psram' = [state |-> IF word_count = Depth - 1 \/ input.last
                              THEN "recovery" ELSE "transfer",
                    address |-> write_address']
      BY <1>1 DEF WriteWord, Continue, final_word
    <2>2. QED
      BY <1>4, <2>1, PacketFifoAssumption DEF Controller, IInv, TypeOK
  <1>6. TypeOK'
    BY <1>1, <1>2, <1>3, <1>4, <1>5, PacketFifoAssumption
    DEF IInv, TypeOK, WriteWord, Stream
  <1>7. EveryStrobeCounts'
    BY <1>1, <1>2, <1>5 DEF EveryStrobeCounts, Transferring
  <1>8. AddressesMeet'
    BY <1>1, <1>4, <1>5 DEF AddressesMeet, Transferring, Behind
  <1>9. QED
    BY <1>2, <1>6, <1>7, <1>8 DEF IInv

LEMMA ReadWordKeeps ==
  ASSUME IInv, ReadWord, discarding' \in BOOLEAN
  PROVE  IInv'
  <1>1. /\ word_count > 0 /\ Len(out) < OutDepth
        /\ psram.state = "transfer" /\ is_write = FALSE /\ is_write' = FALSE
        /\ psram.address = read_address
    BY DEF ReadWord, Transferring, IInv, EveryStrobeCounts, AddressesMeet
  <1>2. /\ ring' \in 0 .. RingWords /\ input' \in Stream /\ following' \in Word
        /\ LastIsHonest'
    BY SourceKeeps DEF IInv, ReadWord
  <1>3. out' \in Seq(Word) /\ Len(out') <= Len(out) + 1
    <2>1. ram[psram.address] \in Word
      BY DEF IInv, TypeOK, Controller
    <2>2. PICK q \in Drained : out' = Append(q, ram[psram.address])
      BY <1>1, PacketFifoAssumption DEF ReadWord, Enqueued, IInv, TypeOK
    <2>3. QED
      BY <2>1, <2>2, DrainedType DEF IInv
  <1>4. /\ read_address' \in Address
        /\ write_address' = write_address
        /\ write_address = Behind(read_address', word_count')
        /\ word_count' \in 0 .. Depth /\ word_count' = word_count - 1
    BY <1>1, AfterType, AfterBehind, PacketFifoAssumption
    DEF IInv, TypeOK, ReadWord, AddressesMeet, Address
  <1>5. /\ psram' \in Controller
        /\ psram'.address = read_address'
        /\ psram'.state = "transfer"
             => word_count' > 0 /\ Len(out) # OutDepth - 1
    <2>1. psram' = [state |-> IF word_count = 1 \/ Len(out) = OutDepth - 1
                              THEN "recovery" ELSE "transfer",
                    address |-> read_address']
      BY <1>1 DEF ReadWord, Continue, final_word
    <2>2. QED
      BY <1>1, <1>4, <2>1, PacketFifoAssumption DEF Controller, IInv, TypeOK
  <1>6. TypeOK'
    BY <1>1, <1>2, <1>3, <1>4, <1>5, PacketFifoAssumption
    DEF IInv, TypeOK, ReadWord
  <1>7. EveryStrobeCounts'
    BY <1>1, <1>3, <1>5, <1>6, PacketFifoAssumption
    DEF EveryStrobeCounts, Transferring, TypeOK, IInv
  <1>8. AddressesMeet'
    BY <1>1, <1>4, <1>5 DEF AddressesMeet, Transferring, Behind
  <1>9. QED
    BY <1>2, <1>6, <1>7, <1>8 DEF IInv

LEMMA RestKeeps ==
  ASSUME IInv, Rest, discarding' \in BOOLEAN
  PROVE  IInv'
  <1>1. /\ ring' \in 0 .. RingWords /\ input' \in Stream /\ following' \in Word
        /\ LastIsHonest'
        /\ input.valid => input'.valid
    BY SourceKeeps DEF IInv, Rest
  <1>2. out' \in Seq(Word) /\ Len(out') <= Len(out)
    BY DrainedType DEF IInv, Rest
  <1>3. /\ psram' \in Controller /\ psram'.address = psram.address
        /\ psram'.state = "transfer" => psram.state = "transfer"
        /\ fsm' \in {"IDLE", "BUSY"}
    BY DEF Rest, Recover, Finish, Wait, IInv, TypeOK, Controller
  <1>4. TypeOK'
    BY <1>1, <1>2, <1>3, PacketFifoAssumption DEF IInv, TypeOK, Rest
  <1>5. EveryStrobeCounts'
    BY <1>1, <1>2, <1>3, PacketFifoAssumption
    DEF IInv, TypeOK, EveryStrobeCounts, Transferring, Rest
  <1>6. AddressesMeet'
    BY <1>3 DEF IInv, AddressesMeet, Behind, Transferring, Rest
  <1>7. QED
    BY <1>1, <1>4, <1>5, <1>6 DEF IInv

LEMMA DiscardKeeps ==
  ASSUME IInv, Discard, discarding' \in BOOLEAN
  PROVE  IInv'
  <1>1. 0 \in Word /\ 0 \in Address
    BY PacketFifoAssumption DEF Word, Address
  <1>2. psram' \in Controller /\ psram'.state = "idle"
    BY <1>1 DEF Discard, Idle, Controller
  <1>3. input' \in Stream /\ ~ input'.valid
    BY DEF Discard, IInv, TypeOK, Stream
  <1>4. TypeOK'
    <2>1. ring' \in 0 .. RingWords /\ word_count' \in 0 .. Depth
      BY PacketFifoAssumption DEF Discard
    <2>2. out' \in Seq(Word) /\ Len(out') <= OutDepth
      BY PacketFifoAssumption DEF Discard
    <2>3. QED
      BY <1>1, <1>2, <1>3, <2>1, <2>2 DEF Discard, IInv, TypeOK
  <1>5. EveryStrobeCounts' /\ LastIsHonest'
    BY <1>2, <1>3 DEF EveryStrobeCounts, LastIsHonest, Transferring
  <1>6. AddressesMeet'
    BY <1>2, PacketFifoAssumption DEF Discard, AddressesMeet, Behind, Transferring
  <1>7. QED
    BY <1>4, <1>5, <1>6 DEF IInv

LEMMA NextIInv == IInv /\ [Next]_vars => IInv'
  <1>1. SUFFICES ASSUME IInv, [Next]_vars PROVE IInv'
    OBVIOUS
  <1>2. CASE UNCHANGED vars
    BY <1>1, <1>2
    DEF vars, source, IInv, TypeOK, EveryStrobeCounts, LastIsHonest,
        AddressesMeet, Transferring, Behind
  <1>3. CASE Next
    <2>1. discarding' \in BOOLEAN
      BY <1>3 DEF Next
    <2>2. CASE discarding
      BY <1>1, <1>3, <2>1, <2>2, DiscardKeeps DEF Next
    <2>3. CASE ~ discarding
      <3>1. CASE BeginWrite
        <4>1. input.valid /\ word_count < Depth /\ write_address \in Address
          BY <1>1, <3>1, PacketFifoAssumption
          DEF BeginWrite, CanWrite, full, IInv, TypeOK
        <4>2. QED
          BY <1>1, <2>1, <3>1, <4>1, StartKeeps DEF BeginWrite
      <3>2. CASE BeginRead
        <4>1. word_count > 0 /\ Len(out) < OutDepth /\ read_address \in Address
          BY <1>1, <3>2, PacketFifoAssumption DEF BeginRead, CanRead, empty, IInv, TypeOK
        <4>2. QED
          BY <1>1, <2>1, <3>2, <4>1, StartKeeps DEF BeginRead
      <3>3. CASE WriteWord
        BY <1>1, <2>1, <3>3, WriteWordKeeps
      <3>4. CASE ReadWord
        BY <1>1, <2>1, <3>4, ReadWordKeeps
      <3>5. CASE Rest
        BY <1>1, <2>1, <3>5, RestKeeps
      <3>6. QED
        BY <1>3, <2>3, <3>1, <3>2, <3>3, <3>4, <3>5 DEF Next, Run
    <2>4. QED
      BY <1>1, <2>2, <2>3 DEF IInv, TypeOK
  <1>4. QED
    BY <1>1, <1>2, <1>3
-----------------------------------------------------------------------------
LEMMA Inductive == Spec => []IInv
  <1>1. QED
    BY InitIInv, NextIInv, PTL DEF Spec

(* For any sizes, no strobe of the HyperRAM controller takes a word that   *)
(* the analyzer does not show, or has no room for, or delivers one that is *)
(* not there, or for which out_fifo has no room (HyperRAMPacketFIFO).      *)
THEOREM StrobesCount == Spec => []EveryStrobeCounts
  <1>1. IInv => EveryStrobeCounts
    BY DEF IInv
  <1>2. QED
    BY <1>1, Inductive, PTL
-----------------------------------------------------------------------------
(* Sequences.                                                              *)

LEMMA HeadInFront ==
  ASSUME NEW S, NEW r \in Seq(S), r # <<>>
  PROVE  <<Head(r)>> \o Tail(r) = r
  <1>1. /\ Head(r) \in S /\ Tail(r) \in Seq(S) /\ Len(Tail(r)) = Len(r) - 1
        /\ \A i \in 1 .. Len(Tail(r)) : Tail(r)[i] = r[i + 1]
        /\ Head(r) = r[1] /\ Len(r) \in Nat \ {0}
    BY HeadTailProperties, EmptySeq
  <1>2. <<Head(r)>> \in Seq(S) /\ Len(<<Head(r)>>) = 1
    BY <1>1
  <1>3. \A i \in 1 .. Len(r) : (<<Head(r)>> \o Tail(r))[i] = r[i]
    BY <1>1, <1>2, ConcatProperties
  <1>4. /\ <<Head(r)>> \o Tail(r) \in Seq(S)
        /\ Len(<<Head(r)>> \o Tail(r)) = Len(r)
    BY <1>1, <1>2, ConcatProperties
  <1>5. QED
    BY <1>3, <1>4, SeqEqual

LEMMA TailOfConcat ==
  ASSUME NEW S, NEW q \in Seq(S), NEW r \in Seq(S), q # <<>>
  PROVE  q \o r # <<>> /\ Head(q \o r) = Head(q) /\ Tail(q \o r) = Tail(q) \o r
  <1>1. /\ Tail(q) \in Seq(S) /\ Len(Tail(q)) = Len(q) - 1
        /\ \A i \in 1 .. Len(Tail(q)) : Tail(q)[i] = q[i + 1]
        /\ Len(q) \in Nat \ {0} /\ Len(r) \in Nat
    BY HeadTailProperties, EmptySeq, LenProperties
  <1>2. /\ q \o r \in Seq(S) /\ Len(q \o r) = Len(q) + Len(r)
        /\ \A i \in 1 .. Len(q) + Len(r) :
             (q \o r)[i] = IF i <= Len(q) THEN q[i] ELSE r[i - Len(q)]
    BY ConcatProperties
  <1>3. q \o r # <<>>
    BY <1>1, <1>2
  <1>4. Head(q \o r) = Head(q)
    BY <1>1, <1>2, <1>3
  <1>5. /\ Tail(q \o r) \in Seq(S) /\ Len(Tail(q \o r)) = Len(q) + Len(r) - 1
        /\ \A i \in 1 .. Len(q) + Len(r) - 1 : Tail(q \o r)[i] = (q \o r)[i + 1]
    BY <1>2, <1>3, HeadTailProperties
  <1>6. /\ Tail(q) \o r \in Seq(S) /\ Len(Tail(q) \o r) = Len(q) + Len(r) - 1
        /\ \A i \in 1 .. Len(q) + Len(r) - 1 :
             (Tail(q) \o r)[i] = IF i <= Len(q) - 1 THEN Tail(q)[i]
                                 ELSE r[i - (Len(q) - 1)]
    BY <1>1, ConcatProperties
  <1>7. \A i \in 1 .. Len(q) + Len(r) - 1 : Tail(q \o r)[i] = (Tail(q) \o r)[i]
    BY <1>1, <1>2, <1>5, <1>6
  <1>8. Tail(q \o r) = Tail(q) \o r
    BY <1>5, <1>6, <1>7, SeqEqual
  <1>9. QED
    BY <1>3, <1>4, <1>8

LEMMA HeadMovesOver ==
  ASSUME NEW S, NEW q \in Seq(S), NEW r \in Seq(S), r # <<>>
  PROVE  Append(q, Head(r)) \o Tail(r) = q \o r
  <1>1. Head(r) \in S /\ Tail(r) \in Seq(S) /\ <<Head(r)>> \in Seq(S)
    BY HeadTailProperties
  <1>2. Append(q, Head(r)) = q \o <<Head(r)>>
    BY <1>1
  <1>3. (q \o <<Head(r)>>) \o Tail(r) = q \o (<<Head(r)>> \o Tail(r))
    BY <1>1, ConcatAssociative
  <1>4. QED
    BY <1>2, <1>3, HeadInFront

LEMMA AppendBehind ==
  ASSUME NEW S, NEW q \in Seq(S), NEW r \in Seq(S), NEW e \in S
  PROVE  q \o Append(r, e) = (q \o r) \o <<e>>
  <1>1. Append(r, e) = r \o <<e>> /\ <<e>> \in Seq(S)
    OBVIOUS
  <1>2. QED
    BY <1>1, ConcatAssociative
-----------------------------------------------------------------------------
(* The words in a memory, before and after a strobe.                       *)

LEMMA WordsAtType ==
  ASSUME NEW memory \in [Address -> Word], NEW a \in Address,
         NEW n \in 0 .. Depth
  PROVE  WordsAt(memory, a, n) \in Seq(Word) /\ Len(WordsAt(memory, a, n)) = n
  <1>1. \A i \in 1 .. n : memory[Behind(a, i - 1)] \in Word
    <2>1. \A i \in 1 .. n : Behind(a, i - 1) \in Address
      BY PacketFifoAssumption DEF Behind, Address
    <2>2. QED
      BY <2>1
  <1>2. n \in Nat
    BY PacketFifoAssumption
  <1>3. QED
    BY <1>1, <1>2 DEF WordsAt

LEMMA WriteAppends ==
  ASSUME NEW memory \in [Address -> Word], NEW a \in Address,
         NEW n \in 0 .. Depth - 1, NEW word \in Word
  PROVE  WordsAt([memory EXCEPT ![Behind(a, n)] = word], a, n + 1)
           = Append(WordsAt(memory, a, n), word)
  <1> DEFINE written == [memory EXCEPT ![Behind(a, n)] = word]
             before == WordsAt(memory, a, n)
             behind == WordsAt(written, a, n + 1)
  <1>1. n \in Nat /\ n \in 0 .. Depth /\ n + 1 \in 0 .. Depth /\ Depth \in Nat
    BY PacketFifoAssumption
  <1>2. Behind(a, n) \in Address /\ written \in [Address -> Word]
    BY <1>1, BehindType
  <1>3. before \in Seq(Word) /\ Len(before) = n
    BY <1>1, WordsAtType
  <1>4. behind \in Seq(Word) /\ Len(behind) = n + 1
    BY <1>1, <1>2, WordsAtType
  <1>5. Append(before, word) \in Seq(Word) /\ Len(Append(before, word)) = n + 1
    BY <1>3
  <1>6. ASSUME NEW i \in 1 .. n + 1 PROVE behind[i] = Append(before, word)[i]
    <2>1. behind[i] = written[Behind(a, i - 1)]
      BY <1>1 DEF WordsAt
    <2>2. Behind(a, i - 1) \in Address
      BY <1>1 DEF Behind, Address
    <2>3. CASE i <= n
      <3>1. Behind(a, i - 1) # Behind(a, n)
        BY <1>1, <2>3 DEF Behind, Address
      <3>2. behind[i] = memory[Behind(a, i - 1)]
        BY <2>1, <2>2, <3>1
      <3>3. before[i] = memory[Behind(a, i - 1)]
        BY <1>1, <2>3 DEF WordsAt
      <3>4. Append(before, word)[i] = before[i]
        BY <1>1, <1>3, <2>3
      <3>5. QED
        BY <3>2, <3>3, <3>4
    <2>4. CASE i = n + 1
      <3>1. behind[i] = word
        BY <1>1, <1>2, <2>1, <2>4
      <3>2. Append(before, word)[i] = word
        BY <1>1, <1>3, <2>4
      <3>3. QED
        BY <3>1, <3>2
    <2>5. i <= n \/ i = n + 1
      BY <1>1
    <2>6. QED
      BY <2>3, <2>4, <2>5
  <1>7. behind = Append(before, word)
    <2> HIDE DEF behind, before
    <2>1. QED
      BY <1>4, <1>5, <1>6, SeqEqual
  <1>8. QED
    BY <1>7

LEMMA ReadTakesHead ==
  ASSUME NEW memory \in [Address -> Word], NEW a \in Address,
         NEW n \in 1 .. Depth
  PROVE  /\ WordsAt(memory, a, n) # <<>>
         /\ Head(WordsAt(memory, a, n)) = memory[a]
         /\ Tail(WordsAt(memory, a, n)) = WordsAt(memory, After(a, Depth), n - 1)
  <1> DEFINE before == WordsAt(memory, a, n)
             behind == WordsAt(memory, After(a, Depth), n - 1)
  <1>1. /\ n \in Nat /\ n \in 0 .. Depth /\ n - 1 \in 0 .. Depth
        /\ Depth \in Nat \ {0}
    BY PacketFifoAssumption
  <1>2. After(a, Depth) \in Address
    BY <1>1, AfterType DEF Address
  <1>3. before \in Seq(Word) /\ Len(before) = n
    BY <1>1, WordsAtType
  <1>4. behind \in Seq(Word) /\ Len(behind) = n - 1
    BY <1>1, <1>2, WordsAtType
  <1>5. before # <<>>
    BY <1>1, <1>3
  <1>6. Head(before) = memory[a]
    <2>1. before[1] = memory[Behind(a, 0)] /\ Behind(a, 0) = a
      BY <1>1 DEF WordsAt, Behind, Address
    <2>2. Head(before) = before[1]
      BY <1>3, <1>5
    <2>3. QED
      BY <2>1, <2>2
  <1>7. /\ Tail(before) \in Seq(Word) /\ Len(Tail(before)) = n - 1
        /\ \A i \in 1 .. n - 1 : Tail(before)[i] = before[i + 1]
    <2> HIDE DEF before
    <2>1. QED
      BY <1>3, <1>5, HeadTailProperties
  <1>8. ASSUME NEW i \in 1 .. n - 1 PROVE Tail(before)[i] = behind[i]
    <2>1. before[i + 1] = memory[Behind(a, i)]
      BY <1>1 DEF WordsAt
    <2>2. behind[i] = memory[Behind(After(a, Depth), i - 1)]
      BY <1>1 DEF WordsAt
    <2>3. Behind(After(a, Depth), i - 1) = Behind(a, i)
      BY <1>1, AfterBehind
    <2>4. QED
      BY <1>7, <2>1, <2>2, <2>3
  <1>9. Tail(before) = behind
    <2> HIDE DEF before, behind
    <2>1. QED
      BY <1>4, <1>7, <1>8, SeqEqual
  <1>10. QED
    BY <1>5, <1>6, <1>9
-----------------------------------------------------------------------------
(* The steps, as steps of the queue.                                       *)

LEMMA InRamType ==
  ASSUME TypeOK
  PROVE  InRam \in Seq(Word) /\ Len(InRam) = word_count
  BY WordsAtType DEF InRam, TypeOK

(* What the reader took, if anything, was at the front.                    *)
LEMMA DrainedTakes ==
  ASSUME TypeOK, NEW q \in Drained
  PROVE  q \in Seq(Word) /\ q \o InRam \in Promise!Take
  <1>1. q \in Seq(Word)
    BY DrainedType
  <1>2. CASE q = out
    BY <1>1, <1>2 DEF Promise!Take
  <1>3. CASE out # <<>> /\ q = Tail(out)
    <2>1. q \o InRam = Tail(out \o InRam)
      BY <1>3, InRamType, TailOfConcat DEF TypeOK
    <2>2. Head(out) # None
      BY <1>3, HeadTailProperties, PacketFifoAssumption DEF TypeOK, Word
    <2>3. QED
      BY <1>1, <1>3, <2>1, <2>2 DEF Promise!Take
  <1>4. QED
    BY <1>1, <1>2, <1>3, DrainedType

LEMMA OutputIsFront ==
  ASSUME NEW q \in Seq(Word), NEW r \in Seq(Word)
  PROVE  (IF q = <<>> THEN None ELSE Head(q)) \in Promise!Front(q \o r)
  <1>1. CASE q = <<>>
    BY <1>1 DEF Promise!Front
  <1>2. CASE q # <<>>
    <2>1. Head(q \o r) = Head(q) /\ q \o r # <<>>
      BY <1>2, TailOfConcat
    <2>2. QED
      BY <1>2, <2>1 DEF Promise!Front
  <1>3. QED
    BY <1>1, <1>2

(* The obligations of a step of the queue that is not a discard.           *)
LEMMA MoveIfQueued ==
  ASSUME IInv', ~ discarding,
         NEW q \in Promise!Take, out' \o InRam' \in Promise!Put(q)
  PROVE  Promise!Move
  <1>1. InRam' \in Seq(Word) /\ Len(InRam') <= Depth
    <2>1. /\ ram' \in [Address -> Word] /\ read_address' \in Address
          /\ word_count' \in 0 .. Depth
      BY DEF IInv, TypeOK
    <2>2. InRam' = WordsAt(ram', read_address', word_count')
      BY DEF InRam, WordsAt, Behind
    <2>3. QED
      BY <2>1, <2>2, WordsAtType, PacketFifoAssumption
  <1>2. out' \in Seq(Word) /\ Len(out') <= OutDepth
    BY DEF IInv, TypeOK
  <1>3. Len(out' \o InRam') <= Depth + OutDepth
    BY <1>1, <1>2, ConcatProperties, LenProperties, PacketFifoAssumption
  <1>4. (IF out' = <<>> THEN None ELSE Head(out')) \in Promise!Front(out' \o InRam')
    BY <1>1, <1>2, OutputIsFront
  <1>5. QED
    BY <1>3, <1>4 DEF Promise!Move

LEMMA NotStrobed ==
  ASSUME IInv, IInv', ~ discarding, out' \in Drained,
         UNCHANGED <<read_address, word_count, ram>>
  PROVE  Promise!Move
  <1>1. InRam' = InRam
    BY DEF InRam, WordsAt, Behind
  <1>2. out' \o InRam' \in Promise!Take
    BY <1>1, DrainedTakes DEF IInv
  <1>3. out' \o InRam' \in Promise!Put(out' \o InRam')
    BY DEF Promise!Put
  <1>4. QED
    BY <1>2, <1>3, MoveIfQueued

LEMMA WriteWordPuts ==
  ASSUME IInv, IInv', ~ discarding, WriteWord
  PROVE  Promise!Move
  <1>1. /\ word_count \in 0 .. Depth - 1 /\ read_address \in Address
        /\ ram \in [Address -> Word] /\ input.valid /\ input.word \in Word
        /\ psram.address = Behind(read_address, word_count)
    BY PacketFifoAssumption
    DEF IInv, TypeOK, EveryStrobeCounts, AddressesMeet, WriteWord,
        Transferring, Stream
  <1>2. InRam' = Append(InRam, input.word)
    <2>1. InRam' = WordsAt(ram', read_address', word_count')
      BY DEF InRam, WordsAt, Behind
    <2>2. /\ ram' = [ram EXCEPT ![Behind(read_address, word_count)] = input.word]
          /\ read_address' = read_address /\ word_count' = word_count + 1
      BY <1>1 DEF WriteWord
    <2>3. QED
      BY <1>1, <2>1, <2>2, WriteAppends DEF InRam
  <1>3. out' \in Drained /\ out' \in Seq(Word) /\ InRam \in Seq(Word)
    BY InRamType DEF WriteWord, IInv, TypeOK
  <1>4. out' \o InRam \in Promise!Take
    BY <1>3, DrainedTakes DEF IInv
  <1>5. out' \o InRam' = (out' \o InRam) \o <<input.word>>
    BY <1>1, <1>2, <1>3, AppendBehind
  <1>6. out' \o InRam' \in Promise!Put(out' \o InRam)
    BY <1>1, <1>5 DEF Promise!Put
  <1>7. QED
    BY <1>4, <1>6, MoveIfQueued

LEMMA ReadWordMoves ==
  ASSUME IInv, IInv', ~ discarding, ReadWord
  PROVE  Promise!Move
  <1>1. /\ word_count \in 1 .. Depth /\ read_address \in Address
        /\ ram \in [Address -> Word] /\ Len(out) # OutDepth
        /\ psram.address = read_address
    BY PacketFifoAssumption
    DEF IInv, TypeOK, EveryStrobeCounts, AddressesMeet, ReadWord, Transferring
  <1>2. PICK q \in Drained : out' = Append(q, ram[read_address])
    BY <1>1 DEF ReadWord, Enqueued
  <1>3. /\ InRam # <<>> /\ Head(InRam) = ram[read_address]
        /\ InRam' = Tail(InRam)
    <2>1. InRam' = WordsAt(ram', read_address', word_count')
      BY DEF InRam, WordsAt, Behind
    <2>2. /\ ram' = ram /\ read_address' = After(read_address, Depth)
          /\ word_count' = word_count - 1
      BY DEF ReadWord
    <2>3. QED
      BY <1>1, <2>1, <2>2, ReadTakesHead DEF InRam
  <1>4. q \in Seq(Word) /\ q \o InRam \in Promise!Take /\ InRam \in Seq(Word)
    BY DrainedTakes, InRamType DEF IInv
  <1>5. out' \o InRam' = q \o InRam
    BY <1>2, <1>3, <1>4, HeadMovesOver
  <1>6. out' \o InRam' \in Promise!Put(q \o InRam)
    BY <1>5 DEF Promise!Put
  <1>7. QED
    BY <1>4, <1>6, MoveIfQueued

LEMMA DiscardEmpties ==
  ASSUME IInv, IInv', discarding, Discard
  PROVE  Promise!Discard
  <1>1. out' = <<>> /\ word_count' = 0
    BY DEF Discard
  <1>2. InRam' = <<>>
    BY <1>1 DEF InRam, WordsAt
  <1>3. QED
    BY <1>1, <1>2 DEF Promise!Discard

LEMMA StepQueues == IInv /\ IInv' /\ [Next]_vars => [Promise!Next]_(Promise!vars)
  <1>1. SUFFICES ASSUME IInv, IInv', [Next]_vars
                 PROVE  [Promise!Next]_(Promise!vars)
    OBVIOUS
  <1>2. CASE UNCHANGED vars
    <2>1. InRam' = InRam
      BY <1>2 DEF vars, InRam, WordsAt, Behind
    <2>2. QED
      BY <1>2, <2>1 DEF vars, source, Promise!vars
  <1>3. CASE Next /\ discarding
    BY <1>1, <1>3, DiscardEmpties DEF Next, Promise!Next
  <1>4. CASE Next /\ ~ discarding
    <2>1. CASE BeginWrite \/ BeginRead
      BY <1>1, <1>4, <2>1, NotStrobed DEF BeginWrite, BeginRead, Start, Promise!Next
    <2>2. CASE WriteWord
      BY <1>1, <1>4, <2>2, WriteWordPuts DEF Promise!Next
    <2>3. CASE ReadWord
      BY <1>1, <1>4, <2>3, ReadWordMoves DEF Promise!Next
    <2>4. CASE Rest
      BY <1>1, <1>4, <2>4, NotStrobed DEF Rest, Promise!Next
    <2>5. QED
      BY <1>4, <2>1, <2>2, <2>3, <2>4 DEF Next, Run
  <1>5. QED
    BY <1>1, <1>2, <1>3, <1>4

LEMMA InitQueues == Init => Promise!Init
  <1>1. SUFFICES ASSUME Init PROVE Promise!Init
    OBVIOUS
  <1>2. InRam = <<>> /\ out = <<>>
    BY <1>1 DEF Init, InRam, WordsAt
  <1>3. QED
    BY <1>2 DEF Promise!Init

(* For any sizes, what lies between the analyzer's stream and the reader   *)
(* is a queue of words: the two bursts, the addresses that wrap and the    *)
(* output FIFO lose none, double none and let none overtake another, until *)
(* a discard empties it (HyperRAMPacketFIFO).                              *)
THEOREM FifoImplementsQueue == Spec => WordsQueued
  <1>1. QED
    BY InitQueues, StepQueues, Inductive, PTL
    DEF Spec, WordsQueued, Promise!Spec
=============================================================================
