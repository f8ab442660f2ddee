-------------------------- MODULE Analyzer_proofs --------------------------
(***************************************************************************)
(* Proofs about Analyzer: type correctness, that the ring overflows only   *)
(* where nothing is checked, and that the capture implements PacketLog.    *)
(* IInv relates the registers of a packet in progress to what has been on  *)
(* the bus, and the words pending to the words free; Laid says where in    *)
(* the ring the packet and its header are.                                 *)
(***************************************************************************)
EXTENDS Analyzer, SequenceTheorems, TLAPS

Memory == [0 .. 2 * Words - 1 -> Byte]

(* The bytes of the packet on the bus that this cycle is too early for.    *)
Arriving == IF bus.valid THEN 1 ELSE 0

(* A packet is captured from its first byte on, and byte by byte.          *)
Counted ==
  /\ state = "CAPTURE_PACKET" =>
       /\ packet_size = Len(bus.bytes) - Arriving
       /\ fifo.pending <= HEADER_SIZE_WORDS + packet_size
  /\ state = "AWAIT_PACKET" /\ bus.active => bus.bytes = <<>>

(* The receiver: UTMI.                                                     *)
Receiving ==
  /\ Len(bus.bytes) <= MaxSize
  /\ bus.active => bus.packet > 0
  /\ bus.valid => bus.active /\ bus.bytes # <<>>

(* While there is room wherever nothing is checked, what is pending fits.  *)
Roomy ==
  ~ tight =>
    /\ ~ overfull
    /\ state = "CAPTURE_PACKET" => fifo.count + fifo.pending <= Words - 2

IInv == TypeOK /\ Receiving /\ Counted /\ Roomy
-----------------------------------------------------------------------------
(* Numbers.                                                                *)
LEMMA ModRange ==
  ASSUME NEW m \in Nat \ {0}, NEW n \in Int
  PROVE  n % m \in 0 .. m - 1
OBVIOUS

LEMMA ModSmall ==
  ASSUME NEW m \in Nat \ {0}, NEW n \in 0 .. m - 1
  PROVE  n % m = n
OBVIOUS

LEMMA Constants ==
  /\ Words \in Nat /\ Words >= 4
  /\ TimeModulus \in Nat /\ TimeModulus >= 2
  /\ MaxSize \in Nat /\ NumPackets \in Nat /\ MaxCaptures \in Nat
  /\ \A p \in 1 .. NumPackets, i \in 1 .. MaxSize : ByteOf(p, i) \in Byte
  /\ None \notin WordValue
BY SMT, AnalyzerAssumption

(* Every register is wide enough.                                          *)
LEMMA BytesOfWord ==
  /\ \A high, low \in Byte : 256 * high + low \in WordValue
  /\ \A value \in WordValue : value \div 256 \in Byte /\ value % 256 \in Byte
  /\ 256 * 255 \in WordValue
<1>1. ASSUME NEW high \in Byte, NEW low \in Byte
      PROVE  256 * high + low \in WordValue
  BY SMT DEF Byte, WordValue
<1>2. ASSUME NEW value \in WordValue
      PROVE  value \div 256 \in Byte /\ value % 256 \in Byte
  BY SMT DEF Byte, WordValue
<1>3. 256 * 255 \in WordValue
  BY SMT DEF WordValue
<1>4. QED
  BY <1>1, <1>2, <1>3

LEMMA Widths ==
  /\ 0 .. MaxSize \subseteq WordValue
  /\ 0 .. TimeModulus - 1 \subseteq WordValue
  /\ 0 .. MaxSize + HEADER_SIZE_WORDS \subseteq PendingValue
  /\ PendingValue \subseteq Nat
<1>1. MaxSize \in Nat /\ MaxSize + 2 < 2 ^ 11 /\ TimeModulus \in 2 .. 2 ^ 16
  BY SMT, AnalyzerAssumption
<1>2. 2 ^ 11 \in Nat /\ 2 ^ 16 \in Nat /\ 2 ^ 11 <= 2 ^ 16
  BY SMT
<1>3. ASSUME NEW n \in 0 .. MaxSize
      PROVE  n \in WordValue
  BY SMT, <1>1, <1>2 DEF WordValue
<1>4. ASSUME NEW n \in 0 .. TimeModulus - 1
      PROVE  n \in WordValue
  BY SMT, <1>1, <1>2 DEF WordValue
<1>5. ASSUME NEW n \in 0 .. MaxSize + HEADER_SIZE_WORDS
      PROVE  n \in PendingValue
  BY SMT, <1>1, <1>2 DEF PendingValue, HEADER_SIZE_WORDS
<1>6. PendingValue \subseteq Nat
  BY SMT, <1>2 DEF PendingValue
<1>7. QED
  BY <1>3, <1>4, <1>5, <1>6

LEMMA FifoFields ==
  ASSUME NEW f \in Fifo
  PROVE  /\ f.read \in 0 .. Words - 1 /\ f.count \in 0 .. Words - 1
         /\ f.count \in Nat
         /\ f.pending \in PendingValue /\ f.pending \in Nat
<1>1. /\ f.read \in 0 .. Words - 1 /\ f.count \in 0 .. Words - 1
      /\ f.pending \in PendingValue
  BY DEF Fifo
<1>2. f.pending \in Nat
  BY <1>1, Widths
<1>3. f.count \in Nat
  BY <1>1, Constants
<1>4. QED
  BY <1>1, <1>2, <1>3

(* An address of the ring wraps at its end.                                *)
LEMMA Wraps == \A n \in Nat : n % Words \in 0 .. Words - 1
BY Constants, ModRange

LEMMA WordType ==
  ASSUME NEW memory \in Memory, NEW word \in 0 .. Words - 1
  PROVE  WordAt(memory, word) \in WordValue
<1>1. 2 * word \in 0 .. 2 * Words - 1 /\ 2 * word + 1 \in 0 .. 2 * Words - 1
  BY Constants
<1>2. memory[2 * word] \in Byte /\ memory[2 * word + 1] \in Byte
  BY <1>1 DEF Memory
<1>3. QED
  BY <1>2, BytesOfWord DEF WordAt

(* A sync cycle of the reader takes at most one word.                      *)
LEMMA PopType ==
  ASSUME NEW f \in Fifo, NEW ready \in BOOLEAN, NEW memory \in Memory
  PROVE  /\ Pop(f, ready, memory) \in Fifo
         /\ Pop(f, ready, memory).count <= f.count
         /\ Pop(f, ready, memory).pending = f.pending
<1>1. f.read \in 0 .. Words - 1 /\ f.count \in 0 .. Words - 1
  BY FifoFields
<1>2. WordAt(memory, f.read) \in WordValue
  BY <1>1, WordType
<1>3. (f.read + 1) % Words \in 0 .. Words - 1
  BY <1>1, Wraps
<1>4. f.count # 0 => f.count - 1 \in 0 .. Words - 1
  BY <1>1, Constants
<1> DEFINE idle == [f EXCEPT !.stream = None]
           popped == [f EXCEPT !.stream = WordAt(memory, f.read),
                               !.read = (f.read + 1) % Words,
                               !.count = f.count - 1]
<1>5. /\ idle \in Fifo /\ idle.count = f.count /\ idle.pending = f.pending
  BY DEF Fifo
<1>6. ASSUME f.count # 0
      PROVE  popped \in Fifo /\ popped.count = f.count - 1
             /\ popped.pending = f.pending
  BY <1>2, <1>3, <1>4, <1>6 DEF Fifo
<1>7. \/ Pop(f, ready, memory) \in {f, idle}
      \/ f.count # 0 /\ Pop(f, ready, memory) = popped
  BY DEF Pop
<1> HIDE DEF idle, popped
<1>8. QED
  BY <1>1, <1>5, <1>6, <1>7

(* A write puts the two bytes of a value into the memory.                  *)
LEMMA StoreType ==
  ASSUME NEW memory \in Memory, NEW word \in Nat, NEW value \in WordValue
  PROVE  Store(memory, word, value) \in Memory
<1>1. word % Words \in 0 .. Words - 1
  BY Wraps
<1>2. value \div 256 \in Byte /\ value % 256 \in Byte
  BY BytesOfWord
<1>3. QED
  BY <1>1, <1>2 DEF Store, Memory

(* The two sync cycles of a usb cycle.                                     *)
LEMMA SyncType ==
  ASSUME TypeOK, NEW first \in Memory, NEW second \in Memory,
         NEW pending \in PendingValue, NEW commit \in PendingValue,
         Sync(first, second, pending, commit)
  PROVE  /\ mem' \in Memory /\ fifo' \in Fifo
         /\ fifo'.pending = pending
         /\ overfull' \in BOOLEAN
         /\ commit = 0 => fifo'.count <= fifo.count
         /\ fifo.count + commit < Words => (overfull' <=> overfull)
<1>1. PICK early \in BOOLEAN, late \in BOOLEAN :
        LET half == Half(pending, early)
        IN  /\ mem' = second
            /\ fifo' = [Pop(half, late, first) EXCEPT
                          !.count = (@ + commit) % Words]
            /\ overfull' = (overfull \/ commit + half.count >= Words)
  BY DEF Sync
<1> DEFINE half == Half(pending, early)
           whole == Pop(half, late, first)
<1>2. fifo \in Fifo /\ mem \in Memory /\ overfull \in BOOLEAN
  BY DEF TypeOK, Memory
<1>3. Pop(fifo, early, mem) \in Fifo /\ Pop(fifo, early, mem).count <= fifo.count
  BY <1>2, PopType
<1>4. half \in Fifo /\ half.pending = pending /\ half.count <= fifo.count
  BY <1>3 DEF Half, Fifo
<1>5. whole \in Fifo /\ whole.pending = pending /\ whole.count <= half.count
  BY <1>4, PopType
<1>6. /\ fifo' = [whole EXCEPT !.count = (@ + commit) % Words]
      /\ overfull' = (overfull \/ commit + half.count >= Words)
      /\ mem' = second
  BY <1>1
<1> HIDE DEF half, whole
<1>7. whole.count \in 0 .. Words - 1 /\ half.count \in 0 .. Words - 1
      /\ fifo.count \in 0 .. Words - 1
  BY <1>2, <1>4, <1>5, FifoFields
<1>8. (whole.count + commit) % Words \in 0 .. Words - 1
  BY <1>7, Widths, Wraps
<1>9. fifo' \in Fifo /\ fifo'.pending = pending
      /\ fifo'.count = (whole.count + commit) % Words
  BY <1>5, <1>6, <1>8 DEF Fifo
<1>10. commit = 0 => fifo'.count <= fifo.count
  BY <1>4, <1>5, <1>7, <1>9, Constants, ModSmall
<1>11. ASSUME fifo.count + commit < Words
       PROVE  overfull' <=> overfull
  <2>1. ~ commit + half.count >= Words
    BY <1>4, <1>7, <1>11, Constants, Widths
  <2>2. QED
    BY <1>2, <1>6, <2>1
<1>12. overfull' \in BOOLEAN
  BY <1>2, <1>6
<1>13. QED
  BY <1>6, <1>9, <1>10, <1>11, <1>12
LEMMA DrainType ==
  ASSUME TypeOK, NEW pending \in PendingValue, Drain(pending)
  PROVE  /\ mem' \in Memory /\ fifo' \in Fifo
         /\ fifo'.pending = pending /\ fifo'.count <= fifo.count
         /\ overfull' \in BOOLEAN
         /\ overfull' <=> overfull
<1>1. 0 \in PendingValue
  BY Widths, Constants DEF HEADER_SIZE_WORDS
<1>2. mem \in Memory /\ fifo.count \in 0 .. Words - 1
  BY FifoFields DEF TypeOK, Memory
<1>3. Sync(mem, mem, pending, 0)
  BY DEF Drain, NoCommit
<1>4. QED
  BY <1>1, <1>2, <1>3, SyncType, Constants
-----------------------------------------------------------------------------
(* Steps.                                                                  *)

(* What the receiver does to the packet on the bus in a cycle.             *)
LEMMA InputsStep ==
  ASSUME TypeOK, Receiving, Inputs
  PROVE  /\ bus' \in Bus /\ capture_enable' \in BOOLEAN
         /\ captures' \in 0 .. MaxCaptures
         /\ Receiving'
         /\ bus.active =>
              \/ bus'.bytes = bus.bytes /\ ~ bus'.valid
              \/ bus'.valid /\ Len(bus'.bytes) = Len(bus.bytes) + 1
         /\ bus.active /\ bus.bytes = <<>> =>
              bus'.valid /\ Len(bus'.bytes) = 1
         /\ ~ bus.active /\ bus'.active => bus'.bytes = <<>>
<1> DEFINE Goal ==
      /\ bus' \in Bus
      /\ Receiving'
      /\ bus.active =>
           \/ bus'.bytes = bus.bytes /\ ~ bus'.valid
           \/ bus'.valid /\ Len(bus'.bytes) = Len(bus.bytes) + 1
      /\ bus.active /\ bus.bytes = <<>> => bus'.valid /\ Len(bus'.bytes) = 1
      /\ ~ bus.active /\ bus'.active => bus'.bytes = <<>>
<1>1. bus \in Bus /\ capture_enable \in BOOLEAN /\ captures \in 0 .. MaxCaptures
  BY DEF TypeOK
<1>2. bus.bytes \in Seq(Byte) /\ Len(bus.bytes) \in Nat /\ bus.packet \in 0 .. NumPackets
  BY <1>1 DEF Bus
<1>3. ASSUME Silent PROVE Goal
  BY <1>1, <1>2, <1>3 DEF Silent, Bus, Receiving
<1>4. ASSUME Begins PROVE Goal
  BY <1>1, <1>2, <1>4, Constants DEF Begins, Bus, Receiving
<1>5. ASSUME Receives PROVE Goal
  <2> DEFINE byte == ByteOf(bus.packet, Len(bus.bytes) + 1)
  <2>1. bus.active /\ Len(bus.bytes) < MaxSize
        /\ bus' = [bus EXCEPT !.valid = TRUE, !.bytes = Append(bus.bytes, byte)]
    BY <1>5 DEF Receives
  <2>2. bus.packet \in 1 .. NumPackets /\ Len(bus.bytes) + 1 \in 1 .. MaxSize
    BY <1>2, <2>1, Constants DEF Receiving
  <2>3. byte \in Byte
    BY <2>2, Constants
  <2> HIDE DEF byte
  <2> DEFINE longer == Append(bus.bytes, byte)
  <2>4. longer \in Seq(Byte) /\ Len(longer) = Len(bus.bytes) + 1 /\ longer # <<>>
    BY <1>2, <2>3
  <2>5. bus.bytes = <<>> => Len(longer) = 1
    BY <2>4
  <2> HIDE DEF longer
  <2>6. bus' = [bus EXCEPT !.valid = TRUE, !.bytes = longer]
    BY <2>1 DEF longer
  <2>7. bus' \in Bus /\ bus'.bytes = longer /\ bus'.valid /\ bus'.active
        /\ bus'.packet = bus.packet
    BY <1>1, <2>1, <2>4, <2>6 DEF Bus
  <2>8. QED
    BY <1>2, <2>1, <2>2, <2>4, <2>5, <2>7, Constants DEF Receiving
<1>6. ASSUME Pauses PROVE Goal
  BY <1>1, <1>2, <1>6 DEF Pauses, Bus, Receiving
<1>7. Goal
  BY <1>3, <1>4, <1>5, <1>6 DEF Inputs
<1>8. capture_enable' \in BOOLEAN /\ captures' \in 0 .. MaxCaptures
  BY <1>1, Constants DEF Inputs, Controls
<1>9. QED
  BY <1>7, <1>8

LEMMA NextWordType ==
  ASSUME TypeOK
  PROVE  /\ Odd \in {0, 1}
         /\ NextWord \in 0 .. Words - 1
         /\ PastHeader \in 0 .. 2 * Words - 1
<1>1. write_byte_addr \in Nat
  BY Constants DEF TypeOK
<1>2. Odd \in {0, 1}
  BY <1>1 DEF Odd
<1>3. (write_byte_addr + Odd) \div 2 \in Nat
  BY <1>1, <1>2
<1>4. write_byte_addr + Odd + 2 * HEADER_SIZE_WORDS \in Int
  BY <1>1, <1>2 DEF HEADER_SIZE_WORDS
<1>5. 2 * Words \in Nat \ {0}
  BY Constants
<1>6. QED
  BY <1>2, <1>3, <1>4, <1>5, Wraps, ModRange DEF NextWord, PastHeader

(* A cycle that neither discards nor reads a register of the packet.       *)
LEMMA StepTypes ==
  ASSUME IInv, Inputs,
         state' \in {"AWAIT_START", "AWAIT_PACKET", "CAPTURE_PACKET", "OVERRUN"},
         write_byte_addr' \in 0 .. 2 * Words - 1,
         header_word_addr' \in 0 .. Words - 1,
         packet_size' \in 0 .. MaxSize,
         packet_time' \in 0 .. TimeModulus - 1,
         current_time' \in 0 .. TimeModulus - 1,
         mem' \in Memory, fifo' \in Fifo,
         overfull' \in BOOLEAN, tight' \in BOOLEAN
  PROVE  TypeOK' /\ Receiving'
BY InputsStep DEF IInv, TypeOK, Memory

LEMMA TickType ==
  ASSUME TypeOK, Tick
  PROVE  current_time' \in 0 .. TimeModulus - 1
BY Constants, ModRange DEF TypeOK, Tick

LEMMA DiscardStep ==
  ASSUME IInv, Inputs, Discard
  PROVE  IInv'
<1>1. Empty \in Fifo
  BY Constants DEF Empty, Fifo, PendingValue
<1>2. /\ state' \in {"AWAIT_START", "AWAIT_PACKET"}
      /\ state' = "AWAIT_PACKET" => ~ bus.active
      /\ fifo' = Empty /\ write_byte_addr' = 0
      /\ overfull' = FALSE /\ tight' = FALSE
      /\ UNCHANGED <<header_word_addr, packet_size, packet_time, mem>>
  BY DEF Discard
<1>3. current_time' \in 0 .. TimeModulus - 1
  BY Constants, TickType DEF Discard, IInv
<1>4. TypeOK' /\ Receiving'
  <2>1. 0 \in 0 .. 2 * Words - 1
    BY Constants
  <2>2. /\ mem' \in Memory /\ header_word_addr' \in 0 .. Words - 1
        /\ packet_size' \in 0 .. MaxSize /\ packet_time' \in 0 .. TimeModulus - 1
    BY <1>2 DEF IInv, TypeOK, Memory
  <2>3. QED
    BY <1>1, <1>2, <1>3, <2>1, <2>2, StepTypes
<1>5. Counted' /\ Roomy'
  BY <1>2, InputsStep DEF Counted, Roomy, IInv
<1>6. QED
  BY <1>4, <1>5 DEF IInv

LEMMA HaltedStep ==
  ASSUME IInv, Inputs, Halted
  PROVE  IInv'
<1>1. /\ state' \in {"AWAIT_START", "OVERRUN"}
      /\ Drain(fifo.pending) /\ Tick
      /\ UNCHANGED <<write_byte_addr, header_word_addr, packet_size, packet_time,
                     tight>>
  BY DEF Halted
<1>2. /\ mem' \in Memory /\ fifo' \in Fifo /\ overfull' \in BOOLEAN
      /\ overfull' <=> overfull
  BY <1>1, DrainType, FifoFields DEF IInv, TypeOK
<1>3. TypeOK' /\ Receiving'
  BY <1>1, <1>2, TickType, StepTypes DEF IInv, TypeOK
<1>4. Counted' /\ Roomy'
  BY <1>1, <1>2 DEF Counted, Roomy, IInv
<1>5. QED
  BY <1>3, <1>4 DEF IInv

LEMMA BeginPacketStep ==
  ASSUME IInv, Inputs, BeginPacket
  PROVE  IInv'
<1>1. /\ state = "AWAIT_PACKET" /\ bus.active
      /\ state' = "CAPTURE_PACKET"
      /\ header_word_addr' = NextWord /\ write_byte_addr' = PastHeader
      /\ packet_size' = 0 /\ packet_time' = current_time /\ current_time' = 0
      /\ Drain(HEADER_SIZE_WORDS)
      /\ tight' = (tight \/ fifo.count + HEADER_SIZE_WORDS > Words - 2)
  BY DEF BeginPacket
<1>2. HEADER_SIZE_WORDS \in PendingValue /\ HEADER_SIZE_WORDS = 2
  BY Widths, Constants DEF HEADER_SIZE_WORDS
<1>3. /\ mem' \in Memory /\ fifo' \in Fifo /\ overfull' \in BOOLEAN
      /\ overfull' <=> overfull
      /\ fifo'.count <= fifo.count /\ fifo'.pending = 2
  BY <1>1, <1>2, DrainType DEF IInv
<1>4. TypeOK' /\ Receiving'
  BY <1>1, <1>3, NextWordType, StepTypes, Constants DEF IInv, TypeOK
<1>5. Counted'
  <2>1. bus.bytes = <<>>
    BY <1>1 DEF IInv, Counted
  <2>2. bus'.valid /\ Len(bus'.bytes) = 1
    BY <1>1, <2>1, InputsStep DEF IInv
  <2>3. QED
    BY <1>1, <1>2, <1>3, <2>2 DEF Counted, Arriving
<1>6. Roomy'
  <2>1. fifo.count \in Nat /\ fifo'.count \in Nat
    BY <1>3, FifoFields DEF IInv, TypeOK
  <2>2. ASSUME ~ tight'
        PROVE  ~ tight /\ ~ (fifo.count + HEADER_SIZE_WORDS > Words - 2)
    BY <1>1, <2>2
  <2>3. ~ tight' => ~ overfull'
    BY <1>3, <2>2 DEF Roomy, IInv
  <2>4. ~ tight' => fifo'.count + fifo'.pending <= Words - 2
    BY <1>2, <1>3, <2>1, <2>2, Constants
  <2>5. QED
    BY <2>3, <2>4 DEF Roomy
<1>7. QED
  BY <1>4, <1>5, <1>6 DEF IInv

LEMMA AwaitPacketStep ==
  ASSUME IInv, Inputs, AwaitPacket
  PROVE  IInv'
<1>1. /\ state = "AWAIT_PACKET" /\ state' = "AWAIT_PACKET" /\ ~ bus.active
      /\ Drain(fifo.pending) /\ Tick
      /\ UNCHANGED <<write_byte_addr, header_word_addr, packet_size, packet_time,
                     tight>>
  BY DEF AwaitPacket
<1>2. /\ mem' \in Memory /\ fifo' \in Fifo /\ overfull' \in BOOLEAN
      /\ overfull' <=> overfull
  BY <1>1, DrainType, FifoFields DEF IInv, TypeOK
<1>3. TypeOK' /\ Receiving'
  BY <1>1, <1>2, TickType, StepTypes DEF IInv, TypeOK
<1>4. Counted' /\ Roomy'
  BY <1>1, <1>2, InputsStep DEF Counted, Roomy, IInv
<1>5. QED
  BY <1>3, <1>4 DEF IInv

LEMMA WriteEventStep ==
  ASSUME IInv, Inputs, WriteEvent
  PROVE  IInv'
<1> DEFINE marker == Store(mem, NextWord, 256 * 255)
           event == Store(marker, NextWord + 1, current_time)
<1>1. /\ state = "AWAIT_PACKET" /\ state' = "AWAIT_PACKET" /\ ~ bus.active
      /\ Sync(marker, event, HEADER_SIZE_WORDS, HEADER_SIZE_WORDS)
      /\ write_byte_addr' = PastHeader /\ Tick
      /\ tight' = (tight \/ fifo.count + HEADER_SIZE_WORDS > Words - 1)
      /\ UNCHANGED <<header_word_addr, packet_size, packet_time>>
  BY DEF WriteEvent
<1>2. HEADER_SIZE_WORDS \in PendingValue /\ HEADER_SIZE_WORDS = 2
  BY Widths, Constants DEF HEADER_SIZE_WORDS
<1>3. NextWord \in Nat /\ NextWord + 1 \in Nat /\ current_time \in WordValue
  BY NextWordType, Constants, Widths DEF IInv, TypeOK
<1>4. marker \in Memory
  <2>1. mem \in Memory /\ NextWord \in Nat /\ 256 * 255 \in WordValue
    BY <1>3, BytesOfWord DEF IInv, TypeOK, Memory
  <2>2. QED
    BY <2>1, StoreType
<1> HIDE DEF marker
<1>5. event \in Memory
  BY <1>3, <1>4, StoreType
<1> HIDE DEF event
<1>6. /\ mem' \in Memory /\ fifo' \in Fifo /\ overfull' \in BOOLEAN
      /\ fifo.count + HEADER_SIZE_WORDS < Words => (overfull' <=> overfull)
  BY <1>1, <1>2, <1>4, <1>5, SyncType DEF IInv
<1>7. TypeOK' /\ Receiving'
  BY <1>1, <1>6, NextWordType, TickType, StepTypes DEF IInv, TypeOK
<1>8. Counted'
  BY <1>1, InputsStep DEF Counted, IInv
<1>9. Roomy'
  <2>1. fifo.count \in Nat
    BY FifoFields DEF IInv, TypeOK
  <2>2. ASSUME ~ tight'
        PROVE  ~ tight /\ ~ (fifo.count + HEADER_SIZE_WORDS > Words - 1)
    BY <1>1, <2>2
  <2>3. ~ tight' => fifo.count + HEADER_SIZE_WORDS < Words
    BY <1>2, <2>1, <2>2, Constants
  <2>4. ~ tight' => ~ overfull'
    BY <1>6, <2>2, <2>3 DEF Roomy, IInv
  <2>5. QED
    BY <1>1, <2>4 DEF Roomy
<1>10. QED
  BY <1>7, <1>8, <1>9 DEF IInv

LEMMA CaptureByteStep ==
  ASSUME IInv, Inputs, CaptureByte
  PROVE  IInv'
<1> DEFINE written == [mem EXCEPT ![write_byte_addr] = bus.bytes[Len(bus.bytes)]]
           pending == fifo.pending + 1 - Odd
<1>1. PICK early \in BOOLEAN, late \in BOOLEAN :
        LET half == Half(pending, early)
        IN  /\ mem' = written
            /\ fifo' = Pop(half, late, written)
            /\ state' = IF Fills(pending, half.count)
                        THEN "OVERRUN" ELSE "CAPTURE_PACKET"
            /\ overfull' = (overfull \/ pending + half.count >= Words)
  BY DEF CaptureByte
<1> DEFINE half == Half(pending, early)
<1>2. /\ state = "CAPTURE_PACKET" /\ bus.active /\ bus.valid
      /\ write_byte_addr' = (write_byte_addr + 1) % (2 * Words)
      /\ packet_size' = packet_size + 1
      /\ Tick
      /\ UNCHANGED <<header_word_addr, packet_time, tight>>
  BY DEF CaptureByte
<1>3. /\ fifo \in Fifo /\ mem \in Memory /\ packet_size \in 0 .. MaxSize
      /\ fifo.pending \in Nat /\ fifo.count \in 0 .. Words - 1
      /\ Len(bus.bytes) \in Nat /\ bus.bytes \in Seq(Byte)
      /\ tight \in BOOLEAN /\ overfull \in BOOLEAN
  <2>1. fifo \in Fifo /\ mem \in Memory /\ packet_size \in 0 .. MaxSize
        /\ bus \in Bus /\ tight \in BOOLEAN /\ overfull \in BOOLEAN
    BY DEF IInv, TypeOK, Memory
  <2>2. bus.bytes \in Seq(Byte)
    BY <2>1 DEF Bus
  <2>3. fifo.pending \in Nat /\ fifo.count \in 0 .. Words - 1
    BY <2>1, FifoFields
  <2>4. QED
    BY <2>1, <2>2, <2>3
<1>4. packet_size = Len(bus.bytes) - 1 /\ fifo.pending <= 2 + packet_size
      /\ Len(bus.bytes) <= MaxSize
  BY <1>2 DEF IInv, Counted, Arriving, HEADER_SIZE_WORDS, Receiving
<1>5. packet_size' \in 0 .. MaxSize
  BY <1>2, <1>3, <1>4, Constants
<1>6. /\ pending \in 0 .. MaxSize + HEADER_SIZE_WORDS
      /\ pending <= HEADER_SIZE_WORDS + packet_size'
      /\ pending <= fifo.pending + 1
  <2>1. Odd \in {0, 1} /\ MaxSize \in Nat
    BY NextWordType, Constants DEF IInv
  <2>2. packet_size \in Nat /\ packet_size + 1 <= MaxSize
    BY <1>2, <1>3, <1>5, Constants
  <2>3. ASSUME NEW words \in Nat, NEW odd \in {0, 1}, words <= 2 + packet_size
        PROVE  /\ words + 1 - odd \in 0 .. MaxSize + 2
               /\ words + 1 - odd <= 2 + (packet_size + 1)
               /\ words + 1 - odd <= words + 1
    BY <2>1, <2>2, <2>3
  <2>4. QED
    BY <1>2, <1>3, <1>4, <2>1, <2>3 DEF HEADER_SIZE_WORDS
<1>7. pending \in PendingValue
  BY <1>6, Widths
<1> HIDE DEF pending
<1>8. written \in Memory
  <2>1. bus.bytes[Len(bus.bytes)] \in Byte
    BY <1>3, <1>4
  <2>2. QED
    BY <1>3, <2>1 DEF Memory
<1> HIDE DEF written
<1>9. half \in Fifo /\ half.pending = pending /\ half.count <= fifo.count
  <2>1. Pop(fifo, early, mem) \in Fifo /\ Pop(fifo, early, mem).count <= fifo.count
    BY <1>3, PopType
  <2>2. QED
    BY <1>7, <2>1 DEF Half, Fifo
<1>10. /\ mem' = written
       /\ fifo' = Pop(half, late, written)
       /\ state' = IF Fills(pending, half.count)
                   THEN "OVERRUN" ELSE "CAPTURE_PACKET"
       /\ overfull' = (overfull \/ pending + half.count >= Words)
  BY <1>1
<1> HIDE DEF half
<1>11. fifo' \in Fifo /\ fifo'.count <= half.count /\ fifo'.pending = pending
  BY <1>8, <1>9, <1>10, PopType
<1>12. half.count \in 0 .. Words - 1 /\ fifo'.count \in 0 .. Words - 1
  BY <1>9, <1>11, FifoFields
<1>13. (write_byte_addr + 1) % (2 * Words) \in 0 .. 2 * Words - 1
  <2>1. write_byte_addr + 1 \in Int /\ 2 * Words \in Nat \ {0}
    BY Constants DEF IInv, TypeOK
  <2>2. QED
    BY <2>1, ModRange
<1>14. overfull' \in BOOLEAN /\ state' \in {"OVERRUN", "CAPTURE_PACKET"}
  BY <1>3, <1>10
<1>15. TypeOK' /\ Receiving'
  BY <1>2, <1>5, <1>8, <1>10, <1>11, <1>13, <1>14, TickType, StepTypes
     DEF IInv, TypeOK
<1>16. Counted'
  <2>1. packet_size' = Len(bus'.bytes) - Arriving'
    <3>1. \/ Len(bus'.bytes) = Len(bus.bytes) /\ Arriving' = 0
          \/ Len(bus'.bytes) = Len(bus.bytes) + 1 /\ Arriving' = 1
      BY <1>2, InputsStep DEF Arriving, IInv
    <3>2. QED
      BY <1>2, <1>3, <1>4, <3>1
  <2>2. QED
    BY <1>6, <1>11, <1>14, <2>1 DEF Counted
<1>17. Roomy'
  <2>1. ASSUME ~ tight'
        PROVE  ~ overfull /\ fifo.count + fifo.pending <= Words - 2
    BY <1>2, <2>1 DEF Roomy, IInv
  <2>2. ASSUME ~ tight'
        PROVE  pending + half.count <= Words - 1
    BY <1>3, <1>6, <1>7, <1>9, <1>12, <2>1, <2>2, Constants, Widths
  <2>3. ASSUME ~ tight'
        PROVE  ~ (pending + half.count >= Words)
    BY <1>7, <1>12, <2>2, <2>3, Constants, Widths
  <2>4. ~ tight' => ~ overfull'
    BY <1>10, <2>1, <2>3
  <2>5. ASSUME ~ tight', state' = "CAPTURE_PACKET"
        PROVE  fifo'.count + fifo'.pending <= Words - 2
    <3>1. ~ (pending + half.count = Words - 1)
      BY <1>10, <2>5 DEF Fills
    <3>2. QED
      BY <1>7, <1>11, <1>12, <2>2, <2>5, <3>1, Constants, Widths
  <2>6. QED
    BY <2>4, <2>5 DEF Roomy
<1>18. QED
  BY <1>15, <1>16, <1>17 DEF IInv

LEMMA CaptureNothingStep ==
  ASSUME IInv, Inputs, CaptureNothing
  PROVE  IInv'
<1>1. /\ state = "CAPTURE_PACKET" /\ state' = "CAPTURE_PACKET"
      /\ bus.active /\ ~ bus.valid
      /\ Drain(fifo.pending) /\ Tick
      /\ UNCHANGED <<write_byte_addr, header_word_addr, packet_size, packet_time,
                     tight>>
  BY DEF CaptureNothing
<1>2. /\ mem' \in Memory /\ fifo' \in Fifo /\ overfull' \in BOOLEAN
      /\ overfull' <=> overfull
      /\ fifo'.pending = fifo.pending /\ fifo'.count <= fifo.count
  BY <1>1, DrainType, FifoFields DEF IInv, TypeOK
<1>3. TypeOK' /\ Receiving'
  BY <1>1, <1>2, TickType, StepTypes DEF IInv, TypeOK
<1>4. Counted'
  <2>1. Len(bus.bytes) \in Nat /\ packet_size = Len(bus.bytes)
    <3>1. bus.bytes \in Seq(Byte)
      BY DEF IInv, TypeOK, Bus
    <3>2. packet_size = Len(bus.bytes) - 0
      BY <1>1 DEF IInv, Counted, Arriving
    <3>3. QED
      BY <3>1, <3>2
  <2>2. packet_size' = Len(bus'.bytes) - Arriving'
    <3>1. \/ Len(bus'.bytes) = Len(bus.bytes) /\ Arriving' = 0
          \/ Len(bus'.bytes) = Len(bus.bytes) + 1 /\ Arriving' = 1
      BY <1>1, InputsStep DEF Arriving, IInv
    <3>2. QED
      BY <1>1, <2>1, <3>1
  <2>3. QED
    BY <1>1, <1>2, <2>2 DEF Counted, IInv
<1>5. Roomy'
  <2>1. fifo.count \in Nat /\ fifo'.count \in Nat /\ fifo.pending \in Nat
    BY <1>2, FifoFields DEF IInv, TypeOK
  <2>2. ~ tight' => ~ overfull' /\ fifo.count + fifo.pending <= Words - 2
    BY <1>1, <1>2 DEF Roomy, IInv
  <2>3. ~ tight' => fifo'.count + fifo'.pending <= Words - 2
    BY <1>2, <2>1, <2>2, Constants
  <2>4. QED
    BY <2>2, <2>3 DEF Roomy
<1>6. QED
  BY <1>3, <1>4, <1>5 DEF IInv

LEMMA EndPacketStep ==
  ASSUME IInv, Inputs, EndPacket
  PROVE  IInv'
<1> DEFINE size == Store(mem, header_word_addr, packet_size)
           header == Store(size, header_word_addr + 1, packet_time)
<1>1. /\ state = "CAPTURE_PACKET" /\ state' = "AWAIT_PACKET" /\ ~ bus.active
      /\ Sync(size, header, fifo.pending, fifo.pending)
      /\ Tick
      /\ UNCHANGED <<write_byte_addr, header_word_addr, packet_size, packet_time,
                     tight>>
  BY DEF EndPacket
<1>2. /\ packet_size \in WordValue /\ packet_time \in WordValue
      /\ header_word_addr \in Nat /\ header_word_addr + 1 \in Nat
      /\ fifo.pending \in PendingValue
  BY Constants, Widths, FifoFields DEF IInv, TypeOK
<1>3. size \in Memory
  BY <1>2, StoreType DEF IInv, TypeOK, Memory
<1> HIDE DEF size
<1>4. header \in Memory
  BY <1>2, <1>3, StoreType
<1> HIDE DEF header
<1>5. /\ mem' \in Memory /\ fifo' \in Fifo /\ overfull' \in BOOLEAN
      /\ fifo.count + fifo.pending < Words => (overfull' <=> overfull)
  BY <1>1, <1>2, <1>3, <1>4, SyncType DEF IInv
<1>6. TypeOK' /\ Receiving'
  BY <1>1, <1>5, TickType, StepTypes DEF IInv, TypeOK
<1>7. Counted'
  BY <1>1, InputsStep DEF Counted, IInv
<1>8. Roomy'
  <2>1. fifo.count \in Nat /\ fifo.pending \in Nat
    BY FifoFields DEF IInv, TypeOK
  <2>2. ~ tight' => ~ overfull /\ fifo.count + fifo.pending <= Words - 2
    BY <1>1 DEF Roomy, IInv
  <2>3. ~ tight' => fifo.count + fifo.pending < Words
    BY <2>1, <2>2, Constants
  <2>4. ~ tight' => ~ overfull'
    BY <1>5, <2>2, <2>3
  <2>5. QED
    BY <1>1, <2>4 DEF Roomy
<1>9. QED
  BY <1>6, <1>7, <1>8 DEF IInv
-----------------------------------------------------------------------------
LEMMA IInvInit == Init => IInv
<1> SUFFICES ASSUME Init PROVE IInv
  OBVIOUS
<1>1. Empty \in Fifo /\ Empty.count = 0
  BY Constants DEF Empty, Fifo, PendingValue
<1>2. [b \in 0 .. 2 * Words - 1 |-> 0] \in [0 .. 2 * Words - 1 -> Byte]
  BY DEF Byte
<1>3. bus \in Bus
  BY Constants DEF Init, Bus
<1>4. TypeOK
  <2>1. 0 \in 0 .. 2 * Words - 1 /\ 0 \in 0 .. Words - 1 /\ 0 \in 0 .. MaxSize
        /\ 0 \in 0 .. TimeModulus - 1 /\ 0 \in 0 .. MaxCaptures
    BY Constants
  <2>2. QED
    BY <1>1, <1>2, <1>3, <2>1 DEF Init, TypeOK
<1>5. Receiving /\ Counted /\ Roomy
  BY Constants DEF Init, Receiving, Counted, Roomy
<1>6. QED
  BY <1>4, <1>5 DEF IInv

LEMMA IInvNext == IInv /\ [Next]_vars => IInv'
<1> SUFFICES ASSUME IInv, [Next]_vars PROVE IInv'
  OBVIOUS
<1>1. CASE Next
  BY <1>1, DiscardStep, HaltedStep, BeginPacketStep, AwaitPacketStep,
     WriteEventStep, CaptureByteStep, CaptureNothingStep, EndPacketStep
     DEF Next, Cycle
<1>2. CASE UNCHANGED vars
  BY <1>2 DEF vars, core, IInv, TypeOK, Receiving, Counted, Roomy, Arriving
<1>3. QED
  BY <1>1, <1>2

LEMMA Invariance == Spec => []IInv
BY IInvInit, IInvNext, PTL DEF Spec

(* Every register keeps to its width, whatever the size of the ring and of *)
(* the packets: the words of the ring are words, its counter never leaves  *)
(* it, and fifo_words_pending never wraps (analyzer.py).                   *)
THEOREM TypeCorrect == Spec => []TypeOK
BY Invariance, PTL DEF IInv

(* The check on every byte is enough, for every ring, packet and reader:   *)
(* more than fits is only ever recorded after a header or an event that    *)
(* was written where no room was left for it (analyzer.py, CAPTURE_PACKET).*)
THEOREM OverflowIsTight == Spec => []OverflowsOnlyWhenTight
<1>1. IInv => OverflowsOnlyWhenTight
  BY DEF IInv, Roomy, OverflowsOnlyWhenTight
<1>2. QED
  BY <1>1, Invariance, PTL
-----------------------------------------------------------------------------
(* The refinement. Words of the ring and its bytes, by number.             *)

Slot == 0 .. Words - 1
Cell == 0 .. 2 * Words - 1

LEMMA Depth == Words \in Nat \ {0} /\ Words >= 4
BY Constants

Remainder(n, m) == n % m

LEMMA Turns ==
  ASSUME NEW m \in Nat \ {0}, NEW n \in Nat, n < 2 * m
  PROVE  /\ n < m => Remainder(n, m) = n
         /\ n >= m => Remainder(n, m) = n - m
         /\ Remainder(n, m) \in 0 .. m - 1
<1>1. n < m => n % m = n
  BY ModSmall
<1>2. n >= m => n % m = n - m
  OBVIOUS
<1>3. QED
  BY <1>1, <1>2 DEF Remainder

(* The word n words behind another.                                        *)
Ahead(a, n) == (a + n) % Words

LEMMA AheadIs ==
  ASSUME NEW a \in Slot, NEW n \in 0 .. Words
  PROVE  /\ a + n < Words => Ahead(a, n) = a + n
         /\ a + n >= Words => Ahead(a, n) = a + n - Words
         /\ Ahead(a, n) \in Slot
<1>1. a + n \in Nat /\ a + n < 2 * Words
  BY Depth DEF Slot
<1>2. Ahead(a, n) = Remainder(a + n, Words)
  BY DEF Ahead, Remainder
<1>3. QED
  BY <1>1, <1>2, Depth, Turns DEF Slot

LEMMA AheadAhead ==
  ASSUME NEW a \in Slot, NEW n \in Nat, NEW k \in Nat, n + k <= Words
  PROVE  Ahead(Ahead(a, n), k) = Ahead(a, n + k)
<1>1. n \in 0 .. Words /\ k \in 0 .. Words /\ n + k \in 0 .. Words
  BY Depth
<1>2. /\ a + n < Words => Ahead(a, n) = a + n
      /\ a + n >= Words => Ahead(a, n) = a + n - Words
      /\ Ahead(a, n) \in Slot
  BY <1>1, AheadIs
<1>3. /\ a + (n + k) < Words => Ahead(a, n + k) = a + (n + k)
      /\ a + (n + k) >= Words => Ahead(a, n + k) = a + (n + k) - Words
  BY <1>1, AheadIs
<1>4. /\ Ahead(a, n) + k < Words => Ahead(Ahead(a, n), k) = Ahead(a, n) + k
      /\ Ahead(a, n) + k >= Words => Ahead(Ahead(a, n), k) = Ahead(a, n) + k - Words
  BY <1>1, <1>2, AheadIs
<1>5. CASE a + n < Words
  BY <1>2, <1>3, <1>4, <1>5, Depth DEF Slot
<1>6. CASE a + n >= Words
  BY <1>2, <1>3, <1>4, <1>6, Depth DEF Slot
<1>7. QED
  BY <1>5, <1>6, Depth DEF Slot

LEMMA AheadZero == \A a \in Slot : Ahead(a, 0) = a
BY AheadIs, Depth DEF Slot

LEMMA AheadApart ==
  ASSUME NEW a \in Slot, NEW n \in Nat, NEW k \in 1 .. Words, n < k, k - n < Words
  PROVE  Ahead(a, n) # Ahead(a, k)
<1>1. n \in 0 .. Words /\ k \in 0 .. Words
  BY Depth
<1>2. /\ a + n < Words => Ahead(a, n) = a + n
      /\ a + n >= Words => Ahead(a, n) = a + n - Words
  BY <1>1, AheadIs
<1>3. /\ a + k < Words => Ahead(a, k) = a + k
      /\ a + k >= Words => Ahead(a, k) = a + k - Words
  BY <1>1, AheadIs
<1>4. a \in Nat /\ n \in Nat /\ k \in Nat
  BY Depth DEF Slot
<1>5. QED
  BY <1>2, <1>3, <1>4, Depth
-----------------------------------------------------------------------------
(* The reader and the words behind those it has not read.                  *)

Beyond == Ahead(fifo.read, fifo.count)

(* A memory that differs from mem in width words beyond the unread ones.   *)
OnlyBeyond(memory, width) ==
  \A w \in Slot : \/ WordAt(memory, w) = WordAt(mem, w)
                  \/ \E j \in 0 .. width - 1 : w = Ahead(Beyond, j)

(* Unread, of any register and memory.                                     *)
Lookup(f, memory) == [i \in 1 .. f.count |-> WordAt(memory, (f.read + i - 1) % Words)]

LEMMA UnreadIs == /\ Unread(fifo) = Lookup(fifo, mem)
                  /\ Unread(fifo)' = Lookup(fifo', mem')
BY DEF Unread, Lookup

LEMMA LookupIs ==
  ASSUME NEW f \in Fifo, NEW memory \in Memory
  PROVE  /\ Lookup(f, memory) \in Seq(WordValue) /\ Len(Lookup(f, memory)) = f.count
         /\ \A i \in 1 .. f.count :
              Lookup(f, memory)[i] = WordAt(memory, Ahead(f.read, i - 1))
<1>1. f.read \in Slot /\ f.count \in Slot /\ f.count \in Nat
  BY FifoFields DEF Slot
<1>2. ASSUME NEW i \in 1 .. f.count
      PROVE  /\ (f.read + i - 1) % Words = Ahead(f.read, i - 1)
             /\ WordAt(memory, (f.read + i - 1) % Words) \in WordValue
  <2>1. f.read + i - 1 = f.read + (i - 1)
    BY <1>1, Depth DEF Slot
  <2>2. i - 1 \in 0 .. Words
    BY <1>1, Depth DEF Slot
  <2>3. Ahead(f.read, i - 1) \in 0 .. Words - 1
    BY <1>1, <2>2, AheadIs DEF Slot
  <2>4. QED
    BY <2>1, <2>3, WordType DEF Ahead
<1> DEFINE u == [i \in 1 .. f.count |-> WordAt(memory, (f.read + i - 1) % Words)]
<1>3. u \in [1 .. f.count -> WordValue]
  BY <1>2
<1>4. \A i \in 1 .. f.count : u[i] = WordAt(memory, Ahead(f.read, i - 1))
  BY <1>2
<1>5. u = Lookup(f, memory)
  BY DEF Lookup
<1> HIDE DEF u
<1>6. u \in Seq(WordValue) /\ Len(u) = f.count
  BY <1>1, <1>3
<1>7. QED
  BY <1>4, <1>5, <1>6

LEMMA PopReads ==
  ASSUME NEW f \in Fifo, NEW ready \in BOOLEAN, NEW memory \in Memory
  PROVE  \E n \in 0 .. 1 :
           /\ n <= f.count
           /\ Pop(f, ready, memory).count = f.count - n
           /\ Pop(f, ready, memory).read = Ahead(f.read, n)
           /\ n = 0 => Pop(f, ready, memory).stream \in {f.stream, None}
           /\ n = 1 => Pop(f, ready, memory).stream = WordAt(memory, f.read)
<1>1. f.read \in Slot /\ f.count \in Nat
  BY FifoFields DEF Slot
<1>2. Ahead(f.read, 0) = f.read
  BY <1>1, AheadZero
<1> DEFINE idle == [f EXCEPT !.stream = None]
           popped == [f EXCEPT !.stream = WordAt(memory, f.read),
                               !.read = (f.read + 1) % Words,
                               !.count = f.count - 1]
<1>3. idle.count = f.count /\ idle.read = f.read /\ idle.stream = None
  BY DEF Fifo
<1>4. /\ popped.count = f.count - 1 /\ popped.read = Ahead(f.read, 1)
      /\ popped.stream = WordAt(memory, f.read)
  BY DEF Fifo, Ahead
<1>5. \/ Pop(f, ready, memory) \in {f, idle}
      \/ f.count # 0 /\ Pop(f, ready, memory) = popped
  BY DEF Pop
<1> HIDE DEF idle, popped
<1>6. CASE Pop(f, ready, memory) \in {f, idle}
  <2> WITNESS 0 \in 0 .. 1
  <2>1. QED
    BY <1>1, <1>2, <1>3, <1>6
<1>7. CASE f.count # 0 /\ Pop(f, ready, memory) = popped
  <2> WITNESS 1 \in 0 .. 1
  <2>1. QED
    BY <1>1, <1>4, <1>7
<1>8. QED
  BY <1>5, <1>6, <1>7

(* Both sync cycles together. The first write may be in the second read.   *)
LEMMA HalvesRead ==
  ASSUME TypeOK, NEW pending \in PendingValue, NEW early \in BOOLEAN,
         NEW late \in BOOLEAN, NEW first \in Memory, NEW width \in Nat,
         Half(pending, early).count + width <= Words, OnlyBeyond(first, width)
  PROVE  \E n \in 0 .. 2, k \in 0 .. 1 :
           /\ k <= n /\ n <= fifo.count
           /\ Half(pending, early).count = fifo.count - k
           /\ Pop(Half(pending, early), late, first).count = fifo.count - n
           /\ Pop(Half(pending, early), late, first).read = Ahead(fifo.read, n)
           /\ Pop(Half(pending, early), late, first).stream \in
                IF n = 0 THEN {fifo.stream, None}
                ELSE {WordAt(mem, Ahead(fifo.read, n - 1)), None}
<1> DEFINE half == Half(pending, early)
           whole == Pop(half, late, first)
<1>1. fifo \in Fifo /\ mem \in Memory
  BY DEF TypeOK, Memory
<1>2. fifo.read \in Slot /\ fifo.count \in Slot /\ fifo.count \in Nat
  BY <1>1, FifoFields DEF Slot
<1>3. PICK k \in 0 .. 1 :
           /\ k <= fifo.count
           /\ Pop(fifo, early, mem).count = fifo.count - k
           /\ Pop(fifo, early, mem).read = Ahead(fifo.read, k)
           /\ k = 0 => Pop(fifo, early, mem).stream \in {fifo.stream, None}
           /\ k = 1 => Pop(fifo, early, mem).stream = WordAt(mem, fifo.read)
  BY <1>1, PopReads
<1>4. Pop(fifo, early, mem) \in Fifo
  BY <1>1, PopType
<1>5. /\ half \in Fifo
      /\ half.count = fifo.count - k
      /\ half.read = Ahead(fifo.read, k)
      /\ k = 0 => half.stream \in {fifo.stream, None}
      /\ k = 1 => half.stream = WordAt(mem, fifo.read)
      /\ half.count + width <= Words
  BY <1>3, <1>4 DEF Half, Fifo
<1> HIDE DEF half
<1>6. PICK m \in 0 .. 1 :
           /\ m <= half.count
           /\ whole.count = half.count - m
           /\ whole.read = Ahead(half.read, m)
           /\ m = 0 => whole.stream \in {half.stream, None}
           /\ m = 1 => whole.stream = WordAt(first, half.read)
  BY <1>5, PopReads
<1> HIDE DEF whole
<1>7. k + m <= fifo.count /\ k + m <= Words
  BY <1>2, <1>3, <1>5, <1>6, Depth DEF Slot
<1>8. whole.read = Ahead(fifo.read, k + m)
  BY <1>2, <1>5, <1>6, <1>7, AheadAhead
<1>9. ASSUME m = 1 PROVE WordAt(first, half.read) = WordAt(mem, half.read)
  <2>1. half.read \in Slot
    BY <1>5, FifoFields DEF Slot
  <2>2. ASSUME NEW j \in 0 .. width - 1
        PROVE  half.read # Ahead(Beyond, j)
    <3>1. fifo.count + j \in 1 .. Words /\ k < fifo.count + j
          /\ fifo.count + j - k < Words
      BY <1>2, <1>5, <1>6, <1>9, Depth
    <3>2. Ahead(Beyond, j) = Ahead(fifo.read, fifo.count + j)
      BY <1>2, <3>1, AheadAhead DEF Beyond
    <3>3. QED
      BY <1>2, <1>5, <3>1, <3>2, AheadApart
  <2>3. QED
    BY <2>1, <2>2 DEF OnlyBeyond
<1>10. Ahead(fifo.read, 0) = fifo.read
  BY <1>2, AheadZero
<1>11. whole.stream \in IF k + m = 0 THEN {fifo.stream, None}
                        ELSE {WordAt(mem, Ahead(fifo.read, k + m - 1)), None}
  <2>1. CASE m = 0 /\ k = 0
    BY <2>1, <1>5, <1>6
  <2>2. CASE m = 0 /\ k = 1
    BY <2>2, <1>5, <1>6, <1>10
  <2>3. CASE m = 1
    <3>1. whole.stream = WordAt(mem, Ahead(fifo.read, k))
      BY <2>3, <1>5, <1>6, <1>9
    <3>2. k + m # 0 /\ k + m - 1 = k
      BY <2>3
    <3>3. QED
      BY <3>1, <3>2
  <2>4. QED
    BY <2>1, <2>2, <2>3
<1>12. k + m \in 0 .. 2 /\ k <= k + m /\ whole.count = fifo.count - (k + m)
  BY <1>2, <1>5, <1>6
<1>13. QED
  BY <1>5, <1>7, <1>8, <1>11, <1>12 DEF half, whole

(* The words read leave the sequence at its head; those committed, which   *)
(* were written beyond the others, join it at its end.                     *)
LEMMA Recorded ==
  ASSUME TypeOK, mem' \in Memory, fifo' \in Fifo,
         NEW n \in 0 .. 2, n <= fifo.count, NEW commit \in Nat,
         fifo.count + commit <= Words,
         fifo'.read = Ahead(fifo.read, n), fifo'.count = fifo.count - n + commit,
         \A i \in n .. fifo.count - 1 :
           WordAt(mem', Ahead(fifo.read, i)) = WordAt(mem, Ahead(fifo.read, i))
  PROVE  Unread(fifo)' =
           SubSeq(Unread(fifo), n + 1, Len(Unread(fifo)))
             \o [j \in 1 .. commit |-> WordAt(mem', Ahead(Beyond, j - 1))]
<1> DEFINE log == Lookup(fifo, mem)
           next == Lookup(fifo', mem')
           rest == SubSeq(log, n + 1, Len(log))
           added == [j \in 1 .. commit |-> WordAt(mem', Ahead(Beyond, j - 1))]
<1>1. fifo \in Fifo /\ mem \in Memory
  BY DEF TypeOK, Memory
<1>2. fifo.read \in Slot /\ fifo.count \in Slot /\ fifo.count \in Nat
      /\ Beyond \in Slot
  <2>1. fifo.read \in Slot /\ fifo.count \in Slot /\ fifo.count \in Nat
    BY <1>1, FifoFields DEF Slot
  <2>2. fifo.count \in 0 .. Words
    BY <2>1, Depth DEF Slot
  <2>3. QED
    BY <2>1, <2>2, AheadIs DEF Beyond
<1>3. /\ log \in Seq(WordValue) /\ Len(log) = fifo.count
      /\ \A i \in 1 .. fifo.count : log[i] = WordAt(mem, Ahead(fifo.read, i - 1))
  BY <1>1, LookupIs
<1>4. /\ next \in Seq(WordValue) /\ Len(next) = fifo.count - n + commit
      /\ \A i \in 1 .. fifo.count - n + commit :
           next[i] = WordAt(mem', Ahead(Ahead(fifo.read, n), i - 1))
  BY LookupIs
<1>5. /\ rest \in Seq(WordValue) /\ Len(rest) = fifo.count - n
      /\ \A i \in 1 .. fifo.count - n : rest[i] = log[n + i]
  <2> HIDE DEF log
  <2>1. n + 1 \in Int /\ Len(log) \in Int
        /\ \A i \in n + 1 .. Len(log) : log[i] \in WordValue
    BY <1>2, <1>3
  <2>2. /\ rest \in Seq(WordValue)
        /\ Len(rest) = IF n + 1 <= Len(log) THEN Len(log) - (n + 1) + 1 ELSE 0
        /\ \A i \in 1 .. Len(log) - (n + 1) + 1 : rest[i] = log[n + 1 + i - 1]
    BY <2>1, SubSeqProperties
  <2> HIDE DEF rest
  <2>3. Len(log) = fifo.count
    BY <1>3
  <2>4. ASSUME NEW i \in 1 .. fifo.count - n
        PROVE  rest[i] = log[n + i]
    <3>1. i \in 1 .. Len(log) - (n + 1) + 1 /\ n + 1 + i - 1 = n + i
      BY <1>2, <2>3
    <3>2. QED
      BY <2>2, <3>1
  <2>5. Len(rest) = fifo.count - n
    BY <1>2, <2>2, <2>3
  <2>6. QED
    BY <2>2, <2>4, <2>5
<1>6. ASSUME NEW j \in 1 .. commit
      PROVE  Ahead(Beyond, j - 1) = Ahead(fifo.read, fifo.count + (j - 1))
             /\ WordAt(mem', Ahead(Beyond, j - 1)) \in WordValue
  <2>1. j - 1 \in Nat /\ fifo.count + (j - 1) <= Words
        /\ j - 1 \in 0 .. Words
    BY <1>2, Depth DEF Slot
  <2>2. Ahead(Beyond, j - 1) \in 0 .. Words - 1
    BY <1>2, <2>1, AheadIs DEF Slot
  <2>3. QED
    BY <1>2, <2>1, <2>2, AheadAhead, WordType DEF Beyond
<1>7. /\ added \in [1 .. commit -> WordValue]
      /\ \A j \in 1 .. commit : added[j] = WordAt(mem', Ahead(Beyond, j - 1))
  BY <1>6
<1> HIDE DEF added
<1>8. added \in Seq(WordValue) /\ Len(added) = commit
  BY <1>7
<1> HIDE DEF log, next, rest
<1>9. /\ rest \o added \in Seq(WordValue)
      /\ Len(rest \o added) = fifo.count - n + commit
      /\ \A i \in 1 .. fifo.count - n + commit :
           (rest \o added)[i] = IF i <= fifo.count - n THEN rest[i]
                                ELSE added[i - (fifo.count - n)]
  <2>1. /\ rest \o added \in Seq(WordValue)
        /\ Len(rest \o added) = Len(rest) + Len(added)
        /\ \A i \in 1 .. Len(rest) + Len(added) :
             (rest \o added)[i] = IF i <= Len(rest) THEN rest[i]
                                  ELSE added[i - Len(rest)]
    BY <1>5, <1>8, ConcatProperties
  <2>2. QED
    BY <1>5, <1>8, <2>1
<1>10. ASSUME NEW i \in 1 .. fifo.count - n + commit
       PROVE  next[i] = (rest \o added)[i]
  <2>1. next[i] = WordAt(mem', Ahead(fifo.read, n + (i - 1)))
    <3>1. n \in Nat /\ i - 1 \in Nat /\ n + (i - 1) <= Words
      BY <1>2, Depth
    <3>2. QED
      BY <1>2, <1>4, <3>1, AheadAhead
  <2>2. CASE i <= fifo.count - n
    <3>1. /\ n + (i - 1) \in n .. fifo.count - 1
          /\ n + i \in 1 .. fifo.count /\ n + i - 1 = n + (i - 1)
          /\ i \in 1 .. fifo.count - n
      BY <1>2, <2>2
    <3>2. rest[i] = log[n + i]
      BY <1>5, <3>1
    <3>3. log[n + i] = WordAt(mem, Ahead(fifo.read, n + (i - 1)))
      BY <1>3, <3>1
    <3>4. (rest \o added)[i] = rest[i]
      BY <1>9, <2>2
    <3>5. QED
      BY <2>1, <3>1, <3>2, <3>3, <3>4
  <2>3. CASE ~ (i <= fifo.count - n)
    <3> DEFINE j == i - (fifo.count - n)
    <3>1. j \in 1 .. commit /\ fifo.count + (j - 1) = n + (i - 1)
          /\ ~ (i <= fifo.count - n)
      BY <1>2, <2>3
    <3>2. (rest \o added)[i] = added[j]
      BY <1>9, <3>1
    <3> HIDE DEF j
    <3>3. added[j] = WordAt(mem', Ahead(fifo.read, n + (i - 1)))
      BY <1>6, <1>7, <3>1
    <3>4. QED
      BY <2>1, <3>2, <3>3
  <2>4. QED
    BY <2>2, <2>3
<1>11. next = rest \o added
  BY <1>4, <1>9, <1>10, SeqEqual
<1>12. QED
  BY <1>11, UnreadIs DEF next, rest, log, added

LEMMA BeyondSlot == TypeOK => Beyond \in Slot /\ fifo.read \in Slot /\ fifo.count \in Slot
                              /\ fifo.count \in Nat
<1> SUFFICES ASSUME TypeOK
             PROVE  Beyond \in Slot /\ fifo.read \in Slot /\ fifo.count \in Slot
                    /\ fifo.count \in Nat
  OBVIOUS
<1>1. fifo.read \in Slot /\ fifo.count \in Slot /\ fifo.count \in Nat
  BY FifoFields DEF TypeOK, Slot
<1>2. fifo.count \in 0 .. Words
  BY <1>1, Depth DEF Slot
<1>3. QED
  BY <1>1, <1>2, AheadIs DEF Beyond

(* A usb cycle reads n words of those that were there and adds the words   *)
(* it commits.                                                             *)
Cycled(n, commit) ==
  /\ n <= fifo.count
  /\ fifo'.count = fifo.count - n + commit
  /\ Beyond' = Ahead(Beyond, commit)
  /\ fifo'.stream \in IF n = 0 THEN {fifo.stream, None}
                      ELSE {Unread(fifo)[n], None}
  /\ Unread(fifo)' =
       SubSeq(Unread(fifo), n + 1, Len(Unread(fifo)))
         \o [j \in 1 .. commit |-> WordAt(mem', Ahead(Beyond, j - 1))]

LEMMA CycleLogs ==
  ASSUME TypeOK, mem' \in Memory,
         NEW pending \in PendingValue, NEW early \in BOOLEAN, NEW late \in BOOLEAN,
         NEW first \in Memory, NEW width \in Nat, NEW commit \in 0 .. width,
         Half(pending, early).count + width <= Words,
         Half(pending, early).count + commit < Words,
         OnlyBeyond(first, width), OnlyBeyond(mem', width),
         fifo' = [Pop(Half(pending, early), late, first) EXCEPT
                    !.count = (@ + commit) % Words]
  PROVE  \E n \in 0 .. 2 : Cycled(n, commit)
<1> DEFINE half == Half(pending, early)
           whole == Pop(half, late, first)
<1>1. PICK n \in 0 .. 2, k \in 0 .. 1 :
           /\ k <= n /\ n <= fifo.count
           /\ half.count = fifo.count - k
           /\ whole.count = fifo.count - n
           /\ whole.read = Ahead(fifo.read, n)
           /\ whole.stream \in IF n = 0 THEN {fifo.stream, None}
                               ELSE {WordAt(mem, Ahead(fifo.read, n - 1)), None}
  BY HalvesRead
<1>2. fifo \in Fifo /\ mem \in Memory
  BY DEF TypeOK, Memory
<1>3. half \in Fifo
  <2>1. Pop(fifo, early, mem) \in Fifo
    BY <1>2, PopType
  <2>2. QED
    BY <2>1 DEF Half, Fifo
<1>4. half.count + width <= Words /\ half.count + commit < Words
      /\ fifo' = [whole EXCEPT !.count = (whole.count + commit) % Words]
  OBVIOUS
<1> HIDE DEF half
<1>5. whole \in Fifo
  BY <1>3, PopType
<1> HIDE DEF whole
<1>6. Beyond \in Slot /\ fifo.read \in Slot /\ fifo.count \in Slot /\ fifo.count \in Nat
  BY BeyondSlot
<1>7. /\ whole.count + commit \in 0 .. Words - 1
      /\ whole.count + commit = fifo.count - n + commit
      /\ commit \in Nat /\ fifo.count + commit <= Words
  BY <1>1, <1>4, <1>6, Depth
<1>8. (whole.count + commit) % Words = whole.count + commit
  BY <1>7, Depth, ModSmall
<1>9. /\ fifo' \in Fifo /\ fifo'.read = Ahead(fifo.read, n)
      /\ fifo'.count = fifo.count - n + commit /\ fifo'.stream = whole.stream
  BY <1>1, <1>4, <1>5, <1>7, <1>8 DEF Fifo
<1>10. ASSUME NEW i \in n .. fifo.count - 1
       PROVE  WordAt(mem', Ahead(fifo.read, i)) = WordAt(mem, Ahead(fifo.read, i))
  <2>1. i \in 0 .. Words /\ i \in Nat
    BY <1>6, Depth DEF Slot
  <2>2. Ahead(fifo.read, i) \in Slot
    BY <1>6, <2>1, AheadIs
  <2>3. ASSUME NEW j \in 0 .. width - 1
        PROVE  Ahead(fifo.read, i) # Ahead(Beyond, j)
    <3>1. /\ j \in Nat /\ fifo.count + j \in 1 .. Words
          /\ i < fifo.count + j /\ fifo.count + j - i < Words
          /\ fifo.count + j <= Words
      BY <1>1, <1>4, <1>6, <2>1, Depth
    <3>2. Ahead(Beyond, j) = Ahead(fifo.read, fifo.count + j)
      BY <1>6, <3>1, AheadAhead DEF Beyond
    <3>3. QED
      BY <1>6, <2>1, <3>1, <3>2, AheadApart
  <2>4. QED
    BY <2>2, <2>3 DEF OnlyBeyond
<1>11. Unread(fifo)' =
         SubSeq(Unread(fifo), n + 1, Len(Unread(fifo)))
           \o [j \in 1 .. commit |-> WordAt(mem', Ahead(Beyond, j - 1))]
  BY <1>1, <1>7, <1>9, <1>10, Recorded
<1>12. Beyond' = Ahead(Beyond, commit)
  <2>1. Beyond' = Ahead(Ahead(fifo.read, n), fifo.count - n + commit)
    BY <1>9 DEF Beyond
  <2>2. /\ n \in Nat /\ fifo.count - n + commit \in Nat
        /\ n + (fifo.count - n + commit) = fifo.count + commit
    BY <1>1, <1>6, <1>7
  <2>3. Beyond' = Ahead(fifo.read, fifo.count + commit)
    BY <1>6, <1>7, <2>1, <2>2, AheadAhead
  <2>4. QED
    BY <1>6, <1>7, <2>3, AheadAhead DEF Beyond
<1>13. n # 0 => Unread(fifo)[n] = WordAt(mem, Ahead(fifo.read, n - 1))
  <2>1. n # 0 => n \in 1 .. fifo.count
    BY <1>1, <1>6
  <2>2. QED
    BY <1>2, <2>1, LookupIs, UnreadIs
<1>14. Cycled(n, commit)
  BY <1>1, <1>9, <1>11, <1>12, <1>13 DEF Cycled
<1>15. QED
  BY <1>14
-----------------------------------------------------------------------------
(* Writes.                                                                 *)

LEMMA StoreReads ==
  ASSUME NEW memory \in Memory, NEW word \in Nat, NEW value \in WordValue,
         NEW w \in Slot
  PROVE  WordAt(Store(memory, word, value), w) =
           IF w = word % Words THEN value ELSE WordAt(memory, w)
<1> DEFINE at == word % Words
<1>1. at \in Slot
  BY Wraps DEF Slot
<1>2. value \in Nat /\ 256 * (value \div 256) + (value % 256) = value
  BY DEF WordValue
<1>3. Store(memory, word, value) =
        [memory EXCEPT ![2 * at] = value \div 256, ![2 * at + 1] = value % 256]
  BY DEF Store
<1> HIDE DEF at
<1>4. /\ 2 * at \in 0 .. 2 * Words - 1 /\ 2 * at + 1 \in 0 .. 2 * Words - 1
      /\ 2 * w \in 0 .. 2 * Words - 1 /\ 2 * w + 1 \in 0 .. 2 * Words - 1
      /\ 2 * at # 2 * at + 1 /\ 2 * w # 2 * at + 1 /\ 2 * at # 2 * w + 1
      /\ w # at => 2 * w # 2 * at /\ 2 * w + 1 # 2 * at + 1
  BY <1>1, Depth DEF Slot
<1> DEFINE stored == Store(memory, word, value)
<1>5. /\ stored[2 * w] = IF w = at THEN value \div 256 ELSE memory[2 * w]
      /\ stored[2 * w + 1] = IF w = at THEN value % 256 ELSE memory[2 * w + 1]
  BY <1>3, <1>4 DEF Memory
<1> HIDE DEF stored
<1>6. WordAt(stored, w) = IF w = at THEN value ELSE WordAt(memory, w)
  <2>1. CASE w = at
    <3>1. WordAt(stored, w) = 256 * (value \div 256) + (value % 256)
      BY <1>5, <2>1 DEF WordAt
    <3>2. QED
      BY <1>2, <2>1, <3>1
  <2>2. CASE w # at
    BY <1>5, <2>2 DEF WordAt
  <2>3. QED
    BY <2>1, <2>2
<1>7. QED
  BY <1>6 DEF stored, at

LEMMA ByteReads ==
  ASSUME NEW memory \in Memory, NEW c \in Cell, NEW byte \in Byte, NEW w \in Slot,
         w # c \div 2
  PROVE  WordAt([memory EXCEPT ![c] = byte], w) = WordAt(memory, w)
<1>1. /\ 2 * w \in 0 .. 2 * Words - 1 /\ 2 * w + 1 \in 0 .. 2 * Words - 1
      /\ 2 * w # c /\ 2 * w + 1 # c
  BY Depth DEF Slot, Cell
<1>2. QED
  BY <1>1 DEF Memory, WordAt
-----------------------------------------------------------------------------
(* The bytes of the packet in progress.                                    *)

(* The cell k bytes behind the first one of word h.                        *)
Place(h, k) == (2 * h + k) % (2 * Words)

LEMMA PlaceIs ==
  ASSUME NEW h \in Slot, NEW k \in 0 .. 2 * Words
  PROVE  /\ 2 * h + k < 2 * Words => Place(h, k) = 2 * h + k
         /\ 2 * h + k >= 2 * Words => Place(h, k) = 2 * h + k - 2 * Words
         /\ Place(h, k) \in Cell
<1>1. /\ 2 * Words \in Nat \ {0} /\ 2 * h + k \in Nat
      /\ 2 * h + k < 2 * (2 * Words)
  BY Depth DEF Slot
<1>2. PICK ring \in Nat \ {0}, sum \in Nat : ring = 2 * Words /\ sum = 2 * h + k
  BY <1>1
<1>3. Place(h, k) = Remainder(sum, ring)
  BY <1>2 DEF Place, Remainder
<1>4. /\ sum < ring => Remainder(sum, ring) = sum
      /\ sum >= ring => Remainder(sum, ring) = sum - ring
      /\ Remainder(sum, ring) \in 0 .. ring - 1
  BY <1>1, <1>2, Turns
<1>5. QED
  BY <1>2, <1>3, <1>4, Depth DEF Cell, Slot

LEMMA PlaceEven ==
  ASSUME NEW h \in Slot, NEW m \in Slot
  PROVE  /\ Place(h, 2 * m) = 2 * Ahead(h, m)
         /\ Place(h, 2 * m + 1) = 2 * Ahead(h, m) + 1
<1>1. m \in 0 .. Words /\ 2 * m \in 0 .. 2 * Words /\ 2 * m + 1 \in 0 .. 2 * Words
  BY Depth DEF Slot
<1>2. /\ h + m < Words => Ahead(h, m) = h + m
      /\ h + m >= Words => Ahead(h, m) = h + m - Words
  BY <1>1, AheadIs
<1>3. /\ 2 * h + 2 * m < 2 * Words => Place(h, 2 * m) = 2 * h + 2 * m
      /\ 2 * h + 2 * m >= 2 * Words => Place(h, 2 * m) = 2 * h + 2 * m - 2 * Words
  BY <1>1, PlaceIs
<1>4. /\ 2 * h + (2 * m + 1) < 2 * Words => Place(h, 2 * m + 1) = 2 * h + (2 * m + 1)
      /\ 2 * h + (2 * m + 1) >= 2 * Words =>
           Place(h, 2 * m + 1) = 2 * h + (2 * m + 1) - 2 * Words
  BY <1>1, PlaceIs
<1>5. h \in Nat /\ m \in Nat
  BY Depth DEF Slot
<1>6. QED
  BY <1>2, <1>3, <1>4, <1>5, Depth

LEMMA PlaceNext ==
  ASSUME NEW h \in Slot, NEW k \in 0 .. 2 * Words - 1
  PROVE  (Place(h, k) + 1) % (2 * Words) = Place(h, k + 1)
<1>1. k \in 0 .. 2 * Words /\ k + 1 \in 0 .. 2 * Words
  BY Depth
<1>2. /\ 2 * h + k < 2 * Words => Place(h, k) = 2 * h + k
      /\ 2 * h + k >= 2 * Words => Place(h, k) = 2 * h + k - 2 * Words
      /\ Place(h, k) \in Cell
  BY <1>1, PlaceIs
<1>3. /\ 2 * h + (k + 1) < 2 * Words => Place(h, k + 1) = 2 * h + (k + 1)
      /\ 2 * h + (k + 1) >= 2 * Words => Place(h, k + 1) = 2 * h + (k + 1) - 2 * Words
  BY <1>1, PlaceIs
<1> DEFINE here == Place(h, k)
<1>4. /\ 2 * Words \in Nat \ {0} /\ here \in 0 .. 2 * Words - 1
      /\ here + 1 \in Nat /\ here + 1 < 2 * (2 * Words)
  BY <1>2, Depth DEF Cell
<1>5. Remainder(here + 1, 2 * Words) = (here + 1) % (2 * Words)
  BY DEF Remainder
<1>6. /\ here + 1 < 2 * Words => Remainder(here + 1, 2 * Words) = here + 1
      /\ here + 1 >= 2 * Words => Remainder(here + 1, 2 * Words) = here + 1 - 2 * Words
  BY <1>4, Turns
<1>7. h \in Nat
  BY DEF Slot
<1> DEFINE turned == Remainder(here + 1, 2 * Words)
<1> HIDE DEF turned
<1>8. turned = Place(h, k + 1)
  <2>1. /\ here + 1 < 2 * Words => turned = here + 1
        /\ here + 1 >= 2 * Words => turned = here + 1 - 2 * Words
    BY <1>6 DEF turned
  <2>2. CASE 2 * h + k < 2 * Words
    BY <1>1, <1>2, <1>3, <1>4, <1>7, <2>1, <2>2, Depth
  <2>3. CASE ~ (2 * h + k < 2 * Words)
    BY <1>1, <1>2, <1>3, <1>4, <1>7, <2>1, <2>3, Depth DEF Slot, Cell
  <2>4. QED
    BY <2>2, <2>3
<1>9. QED
  BY <1>5, <1>8 DEF turned

(* Byte k of the packet is in the word that k is half of.                  *)
LEMMA PlaceHalf ==
  ASSUME NEW h \in Slot, NEW k \in 0 .. 2 * Words - 1
  PROVE  /\ Place(h, k) \div 2 = Ahead(h, k \div 2)
         /\ Place(h, k) % 2 = k % 2
<1>1. k \div 2 \in Slot /\ (k = 2 * (k \div 2) \/ k = 2 * (k \div 2) + 1)
  BY Depth DEF Slot
<1> DEFINE m == k \div 2
<1>2. /\ Place(h, 2 * m) = 2 * Ahead(h, m)
      /\ Place(h, 2 * m + 1) = 2 * Ahead(h, m) + 1
  BY <1>1, PlaceEven
<1>3. m \in 0 .. Words
  BY <1>1, Depth DEF Slot
<1>4. Ahead(h, m) \in Nat
  BY <1>3, AheadIs, Depth DEF Slot
<1>5. m \in Nat
  BY <1>3
<1> DEFINE at == Ahead(h, m)
<1>6. /\ (2 * at) \div 2 = at /\ (2 * at) % 2 = 0
      /\ (2 * at + 1) \div 2 = at /\ (2 * at + 1) % 2 = 1
      /\ (2 * m) % 2 = 0 /\ (2 * m + 1) % 2 = 1
  <2> HIDE DEF at, m
  <2>1. QED
    BY <1>4, <1>5 DEF at
<1>7. k = 2 * m \/ k = 2 * m + 1
  BY <1>1
<1> HIDE DEF m
<1>8. Place(h, k) \div 2 = Ahead(h, m) /\ Place(h, k) % 2 = k % 2
  BY <1>2, <1>6, <1>7
<1>9. QED
  BY <1>8 DEF m

LEMMA PlaceApart ==
  ASSUME NEW h \in Slot, NEW i \in Nat, NEW k \in 0 .. 2 * Words - 1, i < k
  PROVE  Place(h, i) # Place(h, k)
<1>1. i \in 0 .. 2 * Words /\ k \in 0 .. 2 * Words
  BY Depth
<1>2. /\ 2 * h + i < 2 * Words => Place(h, i) = 2 * h + i
      /\ 2 * h + i >= 2 * Words => Place(h, i) = 2 * h + i - 2 * Words
  BY <1>1, PlaceIs
<1>3. /\ 2 * h + k < 2 * Words => Place(h, k) = 2 * h + k
      /\ 2 * h + k >= 2 * Words => Place(h, k) = 2 * h + k - 2 * Words
  BY <1>1, PlaceIs
<1>4. QED
  BY <1>1, <1>2, <1>3, Depth DEF Slot

(* The next word to write is the first that the write pointer has not      *)
(* begun.                                                                  *)
RoundUp(a) == ((a + (a % 2)) \div 2) % Words

LEMMA NextWordIs == NextWord = RoundUp(write_byte_addr)
                    /\ NextWord' = RoundUp(write_byte_addr')
BY DEF NextWord, Odd, RoundUp

LEMMA RoundUpIs ==
  ASSUME NEW a \in Cell
  PROVE  /\ RoundUp(a) \in Slot
         /\ (a + (a % 2) + 4) % (2 * Words) = Place(RoundUp(a), 4)
         /\ \A h \in Slot, k \in 0 .. 2 * Words - 1 :
              a = Place(h, k) => RoundUp(a) = Ahead(h, (k + 1) \div 2)
<1>1. a \in 0 .. 2 * Words - 1 /\ a \in Nat /\ a % 2 \in {0, 1}
  BY Depth DEF Cell
<1> DEFINE round == a + (a % 2)
           half == round \div 2
<1>2. round = 2 * half /\ half \in 0 .. Words /\ half \in Nat
  BY <1>1, Depth
<1>3. RoundUp(a) = half % Words
  BY DEF RoundUp
<1>4. (a + (a % 2) + 4) % (2 * Words) = (2 * half + 4) % (2 * Words)
  BY <1>2
<1> HIDE DEF half, round
<1>5. /\ half < Words => RoundUp(a) = half
      /\ half = Words => RoundUp(a) = 0
  <2>1. half < Words => half % Words = half
    BY <1>2, Depth, ModSmall
  <2>2. Words % Words = 0
    BY Depth
  <2>3. QED
    BY <1>3, <2>1, <2>2
<1>6. (2 * half + 4) % (2 * Words) = Place(RoundUp(a), 4)
  <2>1. CASE half < Words
    BY <1>5, <2>1 DEF Place
  <2>2. CASE half = Words
    <3>1. /\ 2 * Words \in Nat \ {0} /\ 4 \in Nat /\ 4 < 2 * Words
          /\ 2 * Words + 4 \in Nat /\ 2 * Words + 4 < 2 * (2 * Words)
          /\ 4 < 2 * (2 * Words) /\ 2 * Words + 4 >= 2 * Words
          /\ 2 * Words + 4 - 2 * Words = 4
      BY Depth
    <3>2. Remainder(2 * Words + 4, 2 * Words) = 4
      BY <3>1, Turns
    <3>3. (2 * half + 4) % (2 * Words) = 4
      BY <2>2, <3>2 DEF Remainder
    <3>4. RoundUp(a) = 0 /\ 0 \in Slot /\ 4 \in 0 .. 2 * Words
      BY <1>5, <2>2, Depth DEF Slot
    <3>5. Place(0, 4) = 4
      BY <3>1, <3>4, PlaceIs
    <3>6. QED
      BY <3>3, <3>4, <3>5
  <2>3. QED
    BY <1>2, <2>1, <2>2, Depth
<1>7. ASSUME NEW h \in Slot, NEW k \in 0 .. 2 * Words - 1, a = Place(h, k)
      PROVE  RoundUp(a) = Ahead(h, (k + 1) \div 2)
  <2>1. a % 2 = k % 2 /\ k \in 0 .. 2 * Words
    BY <1>7, PlaceHalf, Depth
  <2>2. /\ 2 * h + k < 2 * Words => Place(h, k) = 2 * h + k
        /\ 2 * h + k >= 2 * Words => Place(h, k) = 2 * h + k - 2 * Words
    BY <2>1, PlaceIs
  <2> DEFINE m == (k + 1) \div 2
  <2>3. k + (k % 2) = 2 * m /\ m \in 0 .. Words
    BY Depth
  <2>4. /\ h + m < Words => Ahead(h, m) = h + m
        /\ h + m >= Words => Ahead(h, m) = h + m - Words
    BY <2>3, AheadIs
  <2>5. half = IF 2 * h + k < 2 * Words THEN h + m ELSE h + m - Words
    <3>1. 2 * half = Place(h, k) + (k % 2)
      BY <1>2, <1>7, <2>1 DEF round
    <3> HIDE DEF m
    <3>2. QED
      BY <1>2, <2>2, <2>3, <3>1, Depth DEF Slot
  <2> HIDE DEF m
  <2>6. QED
    BY <1>2, <1>5, <2>3, <2>4, <2>5, Depth DEF Slot, m
<1>8. RoundUp(a) \in Slot
  BY <1>2, <1>5, Depth DEF Slot
<1>9. QED
  BY <1>4, <1>6, <1>7, <1>8
-----------------------------------------------------------------------------
(* What a cycle does to the log.                                           *)

LEMMA SyncLogs ==
  ASSUME TypeOK, NEW first \in Memory, NEW second \in Memory,
         NEW pending \in PendingValue, NEW commit \in PendingValue,
         Sync(first, second, pending, commit), ~ overfull',
         OnlyBeyond(first, commit), OnlyBeyond(second, commit)
  PROVE  /\ ~ overfull /\ mem' = second
         /\ fifo' \in Fifo /\ fifo'.pending = pending
         /\ Beyond' = Ahead(Beyond, commit)
         /\ commit < Words
         /\ \E n \in 0 .. 2 :
              /\ n <= Len(Unread(fifo))
              /\ Promise!Log(n, [j \in 1 .. commit |->
                                   WordAt(second, Ahead(Beyond, j - 1))])
<1>1. PICK early \in BOOLEAN, late \in BOOLEAN :
        /\ mem' = second
        /\ fifo' = [Pop(Half(pending, early), late, first) EXCEPT
                      !.count = (@ + commit) % Words]
        /\ overfull' = (overfull \/ commit + Half(pending, early).count >= Words)
  BY DEF Sync
<1> DEFINE half == Half(pending, early)
<1>2. half.count \in Nat
  <2>1. Pop(fifo, early, mem) \in Fifo
    BY PopType DEF TypeOK, Memory
  <2>2. half \in Fifo
    BY <2>1 DEF Half, Fifo
  <2>3. QED
    BY <2>2, FifoFields
<1>3. ~ overfull /\ ~ (commit + half.count >= Words)
  BY <1>1
<1>4. /\ commit \in Nat /\ commit \in 0 .. commit /\ commit < Words
      /\ half.count + commit <= Words /\ half.count + commit < Words
  BY <1>2, <1>3, Widths, Depth
<1>5. PICK n \in 0 .. 2 : Cycled(n, commit)
  <2>1. mem' \in Memory /\ OnlyBeyond(mem', commit)
    BY <1>1
  <2>2. /\ Half(pending, early).count + commit <= Words
        /\ Half(pending, early).count + commit < Words
        /\ commit \in Nat /\ commit \in 0 .. commit
    BY <1>4
  <2>3. fifo' = [Pop(Half(pending, early), late, first) EXCEPT
                   !.count = (@ + commit) % Words]
    BY <1>1
  <2> HIDE DEF half
  <2>4. QED
    BY <2>1, <2>2, <2>3, CycleLogs
<1>6. Len(Unread(fifo)) = fifo.count
  BY LookupIs, UnreadIs DEF TypeOK, Memory
<1>7. Promise!Log(n, [j \in 1 .. commit |-> WordAt(second, Ahead(Beyond, j - 1))])
  BY <1>1, <1>5 DEF Promise!Log, Cycled
<1>8. fifo' \in Fifo /\ fifo'.pending = pending
  BY SyncType
<1>9. QED
  BY <1>1, <1>3, <1>4, <1>5, <1>6, <1>7, <1>8 DEF Cycled

LEMMA SameBeyond == TypeOK => OnlyBeyond(mem, 0) /\ Ahead(Beyond, 0) = Beyond
BY BeyondSlot, AheadZero DEF OnlyBeyond

LEMMA DrainLogs ==
  ASSUME TypeOK, NEW pending \in PendingValue, Drain(pending), ~ overfull'
  PROVE  /\ ~ overfull /\ mem' = mem
         /\ fifo'.pending = pending /\ fifo'.count <= fifo.count
         /\ Beyond' = Beyond
         /\ \E n \in 0 .. 2 : n <= Len(Unread(fifo)) /\ Promise!Keep(n)
<1>1. 0 \in PendingValue /\ mem \in Memory
  BY Widths, Constants DEF HEADER_SIZE_WORDS, TypeOK, Memory
<1>2. Sync(mem, mem, pending, 0)
  BY DEF Drain, NoCommit
<1>3. [j \in 1 .. 0 |-> WordAt(mem, Ahead(Beyond, j - 1))] = <<>>
  OBVIOUS
<1>4. OnlyBeyond(mem, 0) /\ Ahead(Beyond, 0) = Beyond
  BY SameBeyond
<1>5. /\ ~ overfull /\ mem' = mem /\ fifo'.pending = pending
      /\ Beyond' = Ahead(Beyond, 0)
  BY <1>1, <1>2, <1>4, SyncLogs
<1>6. PICK n \in 0 .. 2 :
        /\ n <= Len(Unread(fifo))
        /\ Promise!Log(n, [j \in 1 .. 0 |-> WordAt(mem, Ahead(Beyond, j - 1))])
  BY <1>1, <1>2, <1>4, SyncLogs
<1>7. Promise!Keep(n)
  BY <1>3, <1>6 DEF Promise!Keep
<1>8. QED
  BY <1>4, <1>5, <1>6, <1>7, DrainType
-----------------------------------------------------------------------------
(* While the ring has not overflowed, the next word to write is the first  *)
(* one beyond the unread words; a packet in progress leaves two words for  *)
(* its header there and has its bytes behind them, counted in              *)
(* fifo_words_pending, in room that it has been checked for.               *)
Laid ==
  ~ overfull =>
    /\ state = "AWAIT_PACKET" => NextWord = Beyond
    /\ state = "CAPTURE_PACKET" =>
         /\ header_word_addr = Beyond
         /\ write_byte_addr = Place(header_word_addr, 4 + packet_size)
         /\ fifo.pending = 2 + (packet_size + 1) \div 2
         /\ packet_size > 0 => fifo.count + fifo.pending < Words
         /\ \A i \in 1 .. packet_size :
              mem[Place(header_word_addr, 3 + i)] = bus.bytes[i]

LEMMA Phases ==
  /\ PhaseOf["AWAIT_START"] = "stopped" /\ PhaseOf["AWAIT_PACKET"] = "ready"
  /\ PhaseOf["CAPTURE_PACKET"] = "packet" /\ PhaseOf["OVERRUN"] = "trapped"
BY DEF PhaseOf

LEMMA Promises ==
  ASSUME TypeOK, TypeOK', ~ overfull, ~ overfull',
         NEW n \in 0 .. 2, n <= Len(Unread(fifo)),
         \/ Promise!Stopped(n) \/ Promise!Stop(n) \/ Promise!Begin(n)
         \/ Promise!Silence(n) \/ Promise!Packet(n) \/ Promise!End(n)
         \/ Promise!Trapped(n)
  PROVE  Promise!Next
<1>1. overfull' = overfull
  BY DEF TypeOK
<1>2. n \in {k \in 0 .. 2 : k <= Len(Unread(fifo))}
  OBVIOUS
<1>3. Promise!Promised
  BY <1>2 DEF Promise!Promised
<1>4. QED
  BY <1>1, <1>3 DEF Promise!Next

LEMMA TickIs == Tick => Promise!Tick
BY DEF Tick, Promise!Tick

LEMMA DiscardLogs ==
  ASSUME IInv, Discard
  PROVE  Laid' /\ Promise!Next
<1>1. /\ state = "AWAIT_START"
      /\ fifo' = Empty /\ write_byte_addr' = 0 /\ overfull' = FALSE
      /\ packet_time' = packet_time
      /\ \/ ~ bus.active /\ state' = "AWAIT_PACKET" /\ current_time' = 0
         \/ bus.active /\ Tick /\ state' = state
  BY DEF Discard
<1>2. Unread(fifo)' = <<>> /\ fifo'.stream = None
  BY <1>1 DEF Unread, Empty
<1>3. Promise!Start
  BY <1>1, <1>2, Phases, TickIs DEF Promise!Start
<1>4. NextWord' = Beyond'
  <2>1. 0 \in Slot /\ 0 \in Cell /\ 0 % 2 = 0 /\ 0 \div 2 = 0
    BY Depth DEF Slot, Cell
  <2>2. NextWord' = 0
    <3>1. NextWord' = RoundUp(0)
      BY <1>1, NextWordIs
    <3>2. 0 % Words = 0 /\ (0 + 0) \div 2 = 0
      BY Depth
    <3>3. QED
      BY <2>1, <3>1, <3>2 DEF RoundUp
  <2>3. Beyond' = 0
    BY <1>1, <2>1, AheadZero DEF Beyond, Empty
  <2>4. QED
    BY <2>2, <2>3
<1>5. Laid'
  BY <1>1, <1>4 DEF Laid
<1>6. QED
  BY <1>3, <1>5 DEF Promise!Next

LEMMA HaltedLogs ==
  ASSUME IInv, IInv', Laid, Halted, ~ overfull'
  PROVE  Laid' /\ Promise!Next
<1>1. /\ \/ state = "AWAIT_START" /\ state' = state
         \/ state = "OVERRUN" /\ state' = state
         \/ state \in {"AWAIT_PACKET", "OVERRUN"} /\ state' = "AWAIT_START"
      /\ Drain(fifo.pending) /\ Tick
      /\ packet_time' = packet_time
  BY DEF Halted
<1>2. fifo.pending \in PendingValue
  BY FifoFields DEF IInv, TypeOK
<1>3. ~ overfull
  BY <1>1, <1>2, DrainLogs DEF IInv
<1>4. PICK n \in 0 .. 2 : n <= Len(Unread(fifo)) /\ Promise!Keep(n)
  BY <1>1, <1>2, DrainLogs DEF IInv
<1>5. Promise!Stopped(n) \/ Promise!Stop(n) \/ Promise!Trapped(n)
  BY <1>1, <1>4, Phases, TickIs DEF Promise!Stopped, Promise!Stop, Promise!Trapped
<1>6. Promise!Next
  BY <1>3, <1>4, <1>5, Promises DEF IInv
<1>7. Laid'
  BY <1>1 DEF Laid
<1>8. QED
  BY <1>6, <1>7

LEMMA BeginPacketLogs ==
  ASSUME IInv, IInv', Laid, BeginPacket, ~ overfull'
  PROVE  Laid' /\ Promise!Next
<1>1. /\ state = "AWAIT_PACKET" /\ bus.active
      /\ state' = "CAPTURE_PACKET"
      /\ header_word_addr' = NextWord /\ write_byte_addr' = PastHeader
      /\ packet_size' = 0 /\ packet_time' = current_time /\ current_time' = 0
      /\ Drain(HEADER_SIZE_WORDS)
  BY DEF BeginPacket
<1>2. HEADER_SIZE_WORDS \in PendingValue /\ HEADER_SIZE_WORDS = 2
  BY Widths, Constants DEF HEADER_SIZE_WORDS
<1>3. ~ overfull /\ fifo'.pending = 2 /\ Beyond' = Beyond
  BY <1>1, <1>2, DrainLogs DEF IInv
<1>4. PICK n \in 0 .. 2 : n <= Len(Unread(fifo)) /\ Promise!Keep(n)
  BY <1>1, <1>2, DrainLogs DEF IInv
<1>5. Promise!Begin(n)
  BY <1>1, <1>4, Phases DEF Promise!Begin
<1>6. Promise!Next
  BY <1>3, <1>4, <1>5, Promises DEF IInv
<1>7. Laid'
  <2>1. write_byte_addr \in Cell
    BY DEF IInv, TypeOK, Cell
  <2>2. PastHeader = Place(NextWord, 4)
    BY <2>1, RoundUpIs, NextWordIs DEF PastHeader, Odd, HEADER_SIZE_WORDS
  <2>3. NextWord = Beyond
    BY <1>1, <1>3 DEF Laid
  <2>4. 4 + 0 = 4 /\ 2 + (0 + 1) \div 2 = 2 /\ ~ (0 > 0) /\ 1 .. 0 = {}
    OBVIOUS
  <2>5. QED
    BY <1>1, <1>3, <2>2, <2>3, <2>4 DEF Laid
<1>8. QED
  BY <1>6, <1>7

LEMMA AwaitPacketLogs ==
  ASSUME IInv, IInv', Laid, AwaitPacket, ~ overfull'
  PROVE  Laid' /\ Promise!Next
<1>1. /\ state = "AWAIT_PACKET" /\ ~ bus.active
      /\ current_time # TimeModulus - 1
      /\ Drain(fifo.pending) /\ Tick
      /\ UNCHANGED <<state, write_byte_addr, packet_time>>
  BY DEF AwaitPacket
<1>2. fifo.pending \in PendingValue
  BY FifoFields DEF IInv, TypeOK
<1>3. ~ overfull /\ Beyond' = Beyond
  BY <1>1, <1>2, DrainLogs DEF IInv
<1>4. PICK n \in 0 .. 2 : n <= Len(Unread(fifo)) /\ Promise!Keep(n)
  BY <1>1, <1>2, DrainLogs DEF IInv
<1>5. Promise!Silence(n)
  BY <1>1, <1>4, Phases, TickIs DEF Promise!Silence, Promise!Keep
<1>6. Promise!Next
  BY <1>3, <1>4, <1>5, Promises DEF IInv
<1>7. NextWord' = NextWord
  BY <1>1, NextWordIs
<1>8. Laid'
  BY <1>1, <1>3, <1>7 DEF Laid
<1>9. QED
  BY <1>6, <1>8

LEMMA OneWordBeyond ==
  ASSUME TypeOK, NEW memory \in Memory, NEW width \in Nat, OnlyBeyond(memory, width),
         NEW j \in 0 .. width - 1, j <= Words,
         NEW word \in Nat, word % Words = Ahead(Beyond, j), NEW value \in WordValue
  PROVE  OnlyBeyond(Store(memory, word, value), width)
<1> SUFFICES ASSUME NEW w \in Slot,
                    WordAt(Store(memory, word, value), w) # WordAt(mem, w)
             PROVE  \E i \in 0 .. width - 1 : w = Ahead(Beyond, i)
  BY DEF OnlyBeyond
<1>1. WordAt(Store(memory, word, value), w) =
        IF w = word % Words THEN value ELSE WordAt(memory, w)
  BY StoreReads
<1>2. QED
  BY <1>1 DEF OnlyBeyond

(* Two words behind the unread ones, the second written last.              *)
LEMMA TwoWords ==
  ASSUME TypeOK, NEW one \in WordValue, NEW two \in WordValue,
         NEW width \in Nat, 2 <= width, width < Words
  PROVE  LET first == Store(mem, Beyond, one)
             second == Store(first, Beyond + 1, two)
         IN  /\ first \in Memory /\ second \in Memory
             /\ OnlyBeyond(first, width) /\ OnlyBeyond(second, width)
             /\ WordAt(second, Ahead(Beyond, 0)) = one
             /\ WordAt(second, Ahead(Beyond, 1)) = two
             /\ \A j \in 2 .. width - 1 :
                  WordAt(second, Ahead(Beyond, j)) = WordAt(mem, Ahead(Beyond, j))
<1> DEFINE first == Store(mem, Beyond, one)
           second == Store(first, Beyond + 1, two)
<1>1. /\ mem \in Memory /\ Beyond \in Slot /\ Beyond \in Nat /\ Beyond + 1 \in Nat
      /\ Ahead(Beyond, 0) = Beyond
  <2>1. Beyond \in Slot
    BY BeyondSlot
  <2>2. QED
    BY <2>1, AheadZero, Depth DEF TypeOK, Memory, Slot
<1>2. /\ Beyond % Words = Ahead(Beyond, 0)
      /\ (Beyond + 1) % Words = Ahead(Beyond, 1)
  BY <1>1, Depth, ModSmall DEF Ahead, Slot
<1>3. OnlyBeyond(mem, width)
  BY DEF OnlyBeyond
<1>4. 0 \in 0 .. width - 1 /\ 1 \in 0 .. width - 1 /\ 0 <= Words /\ 1 <= Words
  BY Depth
<1>5. first \in Memory /\ OnlyBeyond(first, width)
  BY <1>1, <1>2, <1>3, <1>4, StoreType, OneWordBeyond
<1>6. \A w \in Slot : WordAt(first, w) =
        IF w = Ahead(Beyond, 0) THEN one ELSE WordAt(mem, w)
  BY <1>1, <1>2, StoreReads
<1> HIDE DEF first
<1>7. second \in Memory /\ OnlyBeyond(second, width)
  BY <1>1, <1>2, <1>4, <1>5, StoreType, OneWordBeyond
<1>8. \A w \in Slot : WordAt(second, w) =
        IF w = Ahead(Beyond, 1) THEN two ELSE WordAt(first, w)
  BY <1>1, <1>2, <1>5, StoreReads
<1> HIDE DEF second
<1>9. ASSUME NEW j \in 0 .. width - 1
      PROVE  /\ Ahead(Beyond, j) \in Slot
             /\ j # 0 => Ahead(Beyond, j) # Ahead(Beyond, 0)
             /\ j # 1 => Ahead(Beyond, j) # Ahead(Beyond, 1)
  <2>1. j \in 0 .. Words
    BY Depth
  <2>2. Ahead(Beyond, j) \in Slot
    BY <1>1, <2>1, AheadIs
  <2>3. ASSUME j # 0 PROVE Ahead(Beyond, 0) # Ahead(Beyond, j)
    <3>1. j \in 1 .. Words /\ 0 < j /\ j - 0 < Words /\ 0 \in Nat
      BY <2>3, Depth
    <3>2. QED
      BY <1>1, <3>1, AheadApart
  <2>4. ASSUME j > 1 PROVE Ahead(Beyond, 1) # Ahead(Beyond, j)
    <3>1. j \in 1 .. Words /\ 1 < j /\ j - 1 < Words /\ 1 \in Nat
      BY <2>4, Depth
    <3>2. QED
      BY <1>1, <3>1, AheadApart
  <2>5. Ahead(Beyond, 0) # Ahead(Beyond, 1)
    <3>1. 1 \in 1 .. Words /\ 0 < 1 /\ 1 - 0 < Words /\ 0 \in Nat
      BY Depth
    <3>2. QED
      BY <1>1, <3>1, AheadApart
  <2>6. j = 0 \/ j = 1 \/ j > 1
    BY <2>1
  <2>7. QED
    BY <2>2, <2>3, <2>4, <2>5, <2>6
<1>10. ASSUME NEW j \in 2 .. width - 1
       PROVE  WordAt(second, Ahead(Beyond, j)) = WordAt(mem, Ahead(Beyond, j))
  <2>1. j \in 0 .. width - 1 /\ j # 0 /\ j # 1
    OBVIOUS
  <2>2. QED
    BY <1>6, <1>8, <1>9, <2>1
<1>11. WordAt(second, Ahead(Beyond, 0)) = one /\ WordAt(second, Ahead(Beyond, 1)) = two
  BY <1>4, <1>6, <1>8, <1>9
<1>12. QED
  BY <1>5, <1>7, <1>10, <1>11 DEF first, second

LEMMA WriteEventLogs ==
  ASSUME IInv, IInv', Laid, WriteEvent, ~ overfull'
  PROVE  Laid' /\ Promise!Next
<1> DEFINE marker == Store(mem, NextWord, 256 * 255)
           event == Store(marker, NextWord + 1, current_time)
<1>1. /\ state = "AWAIT_PACKET" /\ state' = "AWAIT_PACKET" /\ ~ bus.active
      /\ current_time = TimeModulus - 1
      /\ Sync(marker, event, 2, 2)
      /\ write_byte_addr' = PastHeader /\ Tick
      /\ packet_time' = packet_time
  BY DEF WriteEvent, HEADER_SIZE_WORDS
<1>2. 2 \in PendingValue /\ 2 \in Nat /\ 2 <= 2 /\ 2 < Words
      /\ 256 * 255 \in WordValue /\ current_time \in WordValue
  <2>1. 2 \in PendingValue /\ 2 < Words
    BY Widths, Constants DEF HEADER_SIZE_WORDS
  <2>2. current_time \in WordValue
    BY Widths DEF IInv, TypeOK
  <2>3. 256 * 255 \in WordValue
    BY BytesOfWord
  <2>4. 2 \in Nat /\ 2 <= 2
    OBVIOUS
  <2>5. QED
    BY <2>1, <2>2, <2>3, <2>4
<1>3. ~ overfull
  BY <1>1 DEF Sync
<1>4. NextWord = Beyond
  BY <1>1, <1>3 DEF Laid
<1>5. /\ marker \in Memory /\ event \in Memory
      /\ OnlyBeyond(marker, 2) /\ OnlyBeyond(event, 2)
      /\ WordAt(event, Ahead(Beyond, 0)) = 256 * 255
      /\ WordAt(event, Ahead(Beyond, 1)) = current_time
  <2>1. TypeOK
    BY DEF IInv
  <2> HIDE DEF marker, event
  <2>2. marker = Store(mem, Beyond, 256 * 255)
        /\ event = Store(Store(mem, Beyond, 256 * 255), Beyond + 1, current_time)
    BY <1>4 DEF marker, event
  <2>3. QED
    BY <1>2, <2>1, <2>2, TwoWords
<1> HIDE DEF marker, event
<1>6. Beyond' = Ahead(Beyond, 2)
  BY <1>1, <1>2, <1>5, SyncLogs DEF IInv
<1>7. PICK n \in 0 .. 2 :
        /\ n <= Len(Unread(fifo))
        /\ Promise!Log(n, [j \in 1 .. 2 |-> WordAt(event, Ahead(Beyond, j - 1))])
  <2>1. /\ TypeOK /\ marker \in Memory /\ event \in Memory /\ 2 \in PendingValue
        /\ OnlyBeyond(marker, 2) /\ OnlyBeyond(event, 2)
        /\ Sync(marker, event, 2, 2)
    BY <1>1, <1>2, <1>5 DEF IInv
  <2>2. QED
    BY <2>1, SyncLogs
<1>8. [j \in 1 .. 2 |-> WordAt(event, Ahead(Beyond, j - 1))]
        = Promise!EventEntry(current_time)
  <2> DEFINE entry == [j \in 1 .. 2 |-> WordAt(event, Ahead(Beyond, j - 1))]
  <2>1. entry[1] = 256 * 255 /\ entry[2] = current_time
    BY <1>5
  <2>2. DOMAIN entry = 1 .. 2 /\ entry = [j \in 1 .. 2 |-> entry[j]]
    OBVIOUS
  <2> HIDE DEF entry
  <2>3. entry = <<entry[1], entry[2]>>
    BY <2>2
  <2>4. 256 * 255 = 256 * 255 + 0
    OBVIOUS
  <2>5. QED
    BY <2>1, <2>3, <2>4 DEF Promise!EventEntry, Promise!Word, entry
<1>9. Promise!Silence(n)
  BY <1>1, <1>7, <1>8, Phases, TickIs DEF Promise!Silence
<1>10. Promise!Next
  BY <1>3, <1>7, <1>9, Promises DEF IInv
<1>11. NextWord' = Ahead(NextWord, 2)
  <2>1. write_byte_addr \in Cell
    BY DEF IInv, TypeOK, Cell
  <2>2. NextWord \in Slot /\ PastHeader = Place(NextWord, 4)
    BY <2>1, RoundUpIs, NextWordIs DEF PastHeader, Odd, HEADER_SIZE_WORDS
  <2>3. 4 \in 0 .. 2 * Words - 1 /\ 4 \in 0 .. 2 * Words /\ (4 + 1) \div 2 = 2
    BY Depth
  <2>4. PastHeader \in Cell
    BY <2>2, <2>3, PlaceIs
  <2>5. RoundUp(PastHeader) = Ahead(NextWord, 2)
    BY <2>2, <2>3, <2>4, RoundUpIs
  <2>6. QED
    BY <1>1, <2>5, NextWordIs
<1>12. Laid'
  BY <1>1, <1>4, <1>6, <1>11 DEF Laid
<1>13. QED
  BY <1>10, <1>12

(* The receiver only ever adds to the packet on the bus.                   *)
LEMMA BytesStay ==
  ASSUME IInv, Inputs, bus.active
  PROVE  \A i \in 1 .. Len(bus.bytes) : bus'.bytes[i] = bus.bytes[i]
<1>1. bus \in Bus /\ bus.bytes \in Seq(Byte) /\ bus.packet \in 0 .. NumPackets
  BY DEF IInv, TypeOK, Bus
<1>2. CASE Silent
  BY <1>1, <1>2 DEF Silent, Bus
<1>3. CASE Begins
  BY <1>3 DEF Begins
<1>4. CASE Receives
  <2> DEFINE byte == ByteOf(bus.packet, Len(bus.bytes) + 1)
  <2>1. bus'.bytes = Append(bus.bytes, byte)
    BY <1>1, <1>4 DEF Receives, Bus
  <2> HIDE DEF byte
  <2>2. QED
    BY <1>1, <2>1
<1>5. CASE Pauses
  BY <1>1, <1>5 DEF Pauses, Bus
<1>6. QED
  BY <1>2, <1>3, <1>4, <1>5 DEF Inputs

LEMMA CaptureNothingLogs ==
  ASSUME IInv, IInv', Laid, Inputs, CaptureNothing, ~ overfull'
  PROVE  Laid' /\ Promise!Next
<1>1. /\ state = "CAPTURE_PACKET" /\ bus.active /\ ~ bus.valid
      /\ Drain(fifo.pending) /\ Tick
      /\ UNCHANGED <<state, write_byte_addr, header_word_addr, packet_size,
                     packet_time>>
  BY DEF CaptureNothing
<1>2. fifo.pending \in PendingValue /\ fifo.count \in Nat /\ fifo.pending \in Nat
      /\ fifo'.count \in Nat
  BY FifoFields DEF IInv, TypeOK
<1>3. /\ ~ overfull /\ Beyond' = Beyond /\ mem' = mem
      /\ fifo'.pending = fifo.pending /\ fifo'.count <= fifo.count
  BY <1>1, <1>2, DrainLogs DEF IInv
<1>4. PICK n \in 0 .. 2 : n <= Len(Unread(fifo)) /\ Promise!Keep(n)
  BY <1>1, <1>2, DrainLogs DEF IInv
<1>5. Promise!Packet(n)
  BY <1>1, <1>4, Phases, TickIs DEF Promise!Packet
<1>6. Promise!Next
  BY <1>3, <1>4, <1>5, Promises DEF IInv
<1>7. /\ header_word_addr = Beyond
      /\ write_byte_addr = Place(header_word_addr, 4 + packet_size)
      /\ fifo.pending = 2 + (packet_size + 1) \div 2
      /\ packet_size > 0 => fifo.count + fifo.pending < Words
      /\ \A i \in 1 .. packet_size :
           mem[Place(header_word_addr, 3 + i)] = bus.bytes[i]
  BY <1>1, <1>3 DEF Laid
<1>8. \A i \in 1 .. packet_size : bus'.bytes[i] = bus.bytes[i]
  <2>1. packet_size = Len(bus.bytes)
    <3>1. packet_size = Len(bus.bytes) - 0 /\ bus.bytes \in Seq(Byte)
      BY <1>1 DEF IInv, Counted, Arriving, TypeOK, Bus
    <3>2. QED
      BY <3>1
  <2>2. QED
    BY <1>1, <2>1, BytesStay
<1>9. packet_size > 0 => fifo'.count + fifo'.pending < Words
  BY <1>2, <1>3, <1>7, Depth
<1>10. Laid'
  BY <1>1, <1>3, <1>7, <1>8, <1>9 DEF Laid
<1>11. QED
  BY <1>6, <1>10

LEMMA CaptureByteLogs ==
  ASSUME IInv, IInv', Laid, Inputs, CaptureByte, ~ overfull'
  PROVE  Laid' /\ Promise!Next
<1> DEFINE byte == bus.bytes[Len(bus.bytes)]
           written == [mem EXCEPT ![write_byte_addr] = byte]
           pending == fifo.pending + 1 - Odd
<1>1. PICK early \in BOOLEAN, late \in BOOLEAN :
        /\ mem' = written
        /\ fifo' = Pop(Half(pending, early), late, written)
        /\ state' = IF Fills(pending, Half(pending, early).count)
                    THEN "OVERRUN" ELSE "CAPTURE_PACKET"
        /\ overfull' = (overfull \/ pending + Half(pending, early).count >= Words)
  BY DEF CaptureByte
<1>2. /\ state = "CAPTURE_PACKET" /\ bus.active /\ bus.valid
      /\ write_byte_addr' = (write_byte_addr + 1) % (2 * Words)
      /\ packet_size' = packet_size + 1
      /\ Tick
      /\ UNCHANGED <<header_word_addr, packet_time>>
  BY DEF CaptureByte
<1> DEFINE half == Half(pending, early)
<1>3. /\ ~ overfull /\ ~ (pending + half.count >= Words)
  BY <1>1
<1>4. /\ header_word_addr = Beyond
      /\ write_byte_addr = Place(header_word_addr, 4 + packet_size)
      /\ fifo.pending = 2 + (packet_size + 1) \div 2
      /\ \A i \in 1 .. packet_size :
           mem[Place(header_word_addr, 3 + i)] = bus.bytes[i]
  BY <1>2, <1>3 DEF Laid
<1>5. /\ packet_size \in Nat /\ fifo.count \in Nat /\ bus.bytes \in Seq(Byte)
      /\ mem \in Memory /\ write_byte_addr \in Cell /\ Beyond \in Slot
      /\ fifo \in Fifo
  <2>1. fifo.count \in Nat /\ Beyond \in Slot
    BY BeyondSlot DEF IInv
  <2>2. packet_size \in 0 .. MaxSize /\ write_byte_addr \in Cell /\ mem \in Memory
        /\ fifo \in Fifo
    BY DEF IInv, TypeOK, Memory, Cell
  <2>3. bus.bytes \in Seq(Byte)
    BY DEF IInv, TypeOK, Bus
  <2>4. QED
    BY <2>1, <2>2, <2>3, Constants
<1>6. packet_size + 1 = Len(bus.bytes) /\ Len(bus.bytes) \in Nat
  <2>1. packet_size = Len(bus.bytes) - 1
    BY <1>2 DEF IInv, Counted, Arriving
  <2>2. QED
    BY <1>5, <2>1
<1>7. byte \in Byte
  BY <1>5, <1>6
<1> HIDE DEF byte
<1>8. half.count \in Nat /\ half.count <= fifo.count /\ pending \in PendingValue
  <2>1. pending = fifo'.pending
    BY <1>1, <1>5 DEF Pop, Half, Fifo
  <2>2. pending \in PendingValue
    BY <2>1, FifoFields DEF IInv, TypeOK
  <2> HIDE DEF pending
  <2>3. Pop(fifo, early, mem) \in Fifo /\ Pop(fifo, early, mem).count <= fifo.count
    BY <1>5, PopType
  <2>4. half \in Fifo /\ half.count <= fifo.count
    BY <2>2, <2>3 DEF Half, Fifo
  <2>5. QED
    BY <2>2, <2>4, FifoFields
<1>9. Odd \in {0, 1} /\ pending = fifo.pending + 1 - Odd
  BY NextWordType DEF IInv
<1> HIDE DEF half, pending
<1>10. /\ pending \in Nat /\ pending + half.count < Words
       /\ pending = 2 + (packet_size + 2) \div 2
       /\ 4 + packet_size \in 0 .. 2 * Words - 1
  <2>1. pending \in Nat /\ pending + half.count < Words /\ pending < Words
    <3>1. pending \in Nat
      BY <1>8, Widths
    <3>2. QED
      BY <1>3, <1>8, <3>1, Depth
  <2>2. 4 + packet_size \in 0 .. 2 * Words - 1
    BY <1>4, <1>5, <1>9, <2>1, Depth
  <2>3. Odd = packet_size % 2
    <3>1. Odd = (4 + packet_size) % 2
      BY <1>4, <1>5, <2>2, PlaceHalf DEF Odd
    <3>2. QED
      BY <1>5, <3>1
  <2>4. pending = 2 + (packet_size + 2) \div 2
    BY <1>4, <1>5, <1>9, <2>3
  <2>5. QED
    BY <2>1, <2>2, <2>4
<1>11. write_byte_addr \div 2 = Ahead(Beyond, 2 + packet_size \div 2)
       /\ 2 + packet_size \div 2 \in 0 .. pending - 1
  <2>1. (4 + packet_size) \div 2 = 2 + packet_size \div 2
    BY <1>5
  <2>2. 2 + packet_size \div 2 \in 0 .. pending - 1
    BY <1>5, <1>10
  <2>3. QED
    BY <1>4, <1>5, <1>10, <2>1, <2>2, PlaceHalf
<1>12. written \in Memory
  BY <1>5, <1>7 DEF Memory, Cell
<1>13. OnlyBeyond(written, pending)
  <2> SUFFICES ASSUME NEW w \in Slot, WordAt(written, w) # WordAt(mem, w)
               PROVE  \E j \in 0 .. pending - 1 : w = Ahead(Beyond, j)
    BY DEF OnlyBeyond
  <2>1. w = write_byte_addr \div 2
    BY <1>5, <1>7, ByteReads
  <2>2. QED
    BY <1>11, <2>1
<1> HIDE DEF written
<1>14. fifo' = [Pop(half, late, written) EXCEPT !.count = (@ + 0) % Words]
  <2>1. fifo' \in Fifo /\ fifo'.count \in 0 .. Words - 1
    BY FifoFields DEF IInv, TypeOK
  <2>2. (fifo'.count + 0) % Words = fifo'.count
    BY <2>1, Depth, ModSmall
  <2>3. [fifo' EXCEPT !.count = fifo'.count] = fifo'
    BY <2>1 DEF Fifo
  <2>4. fifo' = Pop(half, late, written)
    BY <1>1 DEF half
  <2>5. QED
    BY <2>2, <2>3, <2>4
<1>15. PICK n \in 0 .. 2 : Cycled(n, 0)
  <2>1. 0 \in 0 .. pending /\ half.count + pending <= Words /\ half.count + 0 < Words
    BY <1>8, <1>10, Depth
  <2>2. mem' = written
    BY <1>1
  <2>3. mem' \in Memory /\ OnlyBeyond(mem', pending)
    BY <1>12, <1>13, <2>2
  <2>4. QED
    BY <1>8, <1>10, <1>12, <1>13, <1>14, <2>1, <2>3, CycleLogs DEF half, IInv
<1>16. /\ n <= Len(Unread(fifo)) /\ Len(Unread(fifo)) = fifo.count
       /\ Beyond' = Beyond /\ Promise!Keep(n)
  <2>1. Len(Unread(fifo)) = fifo.count
    BY <1>5, LookupIs, UnreadIs
  <2>2. Ahead(Beyond, 0) = Beyond
    BY <1>5, AheadZero
  <2>3. [j \in 1 .. 0 |-> WordAt(mem', Ahead(Beyond, j - 1))] = <<>>
    OBVIOUS
  <2>4. QED
    BY <1>15, <2>1, <2>2, <2>3 DEF Cycled, Promise!Keep, Promise!Log
<1>17. \/ state' = "CAPTURE_PACKET"
       \/ state' = "OVERRUN" /\ Len(Unread(fifo)) + 2 + Promise!WordsOf(bus.bytes) >= Words - 1
  <2>1. ASSUME Fills(pending, half.count)
        PROVE  Len(Unread(fifo)) + 2 + Promise!WordsOf(bus.bytes) >= Words - 1
    <3>1. pending + half.count = Words - 1
      BY <2>1 DEF Fills
    <3>2. Promise!WordsOf(bus.bytes) = (packet_size + 2) \div 2
      <4>1. Len(bus.bytes) + 1 = packet_size + 2
        BY <1>5, <1>6
      <4>2. QED
        BY <4>1 DEF Promise!WordsOf
    <3>3. QED
      BY <1>5, <1>8, <1>10, <1>16, <3>1, <3>2, Depth
  <2>2. state' = IF Fills(pending, half.count) THEN "OVERRUN" ELSE "CAPTURE_PACKET"
    BY <1>1 DEF half
  <2>3. QED
    BY <2>1, <2>2
<1>18. Promise!Packet(n)
  BY <1>2, <1>16, <1>17, Phases, TickIs DEF Promise!Packet
<1>19. Promise!Next
  BY <1>3, <1>16, <1>18, Promises DEF IInv
<1>20. Laid'
  <2>1. write_byte_addr' = Place(header_word_addr', 4 + packet_size')
    <3>1. (4 + packet_size) + 1 = 4 + packet_size'
      BY <1>2, <1>5
    <3>2. QED
      BY <1>2, <1>4, <1>5, <1>10, <3>1, PlaceNext
  <2>2. fifo'.pending = pending /\ fifo'.count <= half.count
    <3>1. half \in Fifo /\ half.pending = pending
      <4>1. Pop(fifo, early, mem) \in Fifo
        BY <1>5, PopType
      <4>2. QED
        BY <1>8, <4>1 DEF half, Half, Fifo
    <3>2. fifo' = Pop(half, late, written)
      BY <1>1 DEF half
    <3>3. QED
      BY <1>12, <3>1, <3>2, PopType
  <2>3. fifo'.pending = 2 + (packet_size' + 1) \div 2
    <3>1. packet_size' + 1 = packet_size + 2
      BY <1>2, <1>5
    <3>2. QED
      BY <1>10, <2>2, <3>1
  <2>4. fifo'.count + fifo'.pending < Words
    <3>1. fifo'.count \in Nat
      BY FifoFields DEF IInv, TypeOK
    <3>2. QED
      BY <1>8, <1>10, <2>2, <3>1, Depth
  <2>5. ASSUME NEW i \in 1 .. packet_size'
        PROVE  mem'[Place(header_word_addr', 3 + i)] = bus'.bytes[i]
    <3>1. i \in 1 .. Len(bus.bytes) /\ i <= packet_size + 1 /\ i \in Nat
      BY <1>2, <1>5, <1>6
    <3>2. bus'.bytes[i] = bus.bytes[i]
      BY <1>2, <3>1, BytesStay
    <3>3. /\ header_word_addr' = header_word_addr /\ mem' = written
          /\ header_word_addr \in Slot
      BY <1>1, <1>2, <1>4, <1>5
    <3>4. CASE i = packet_size + 1
      <4>1. Place(header_word_addr, 3 + i) = write_byte_addr
        <5>1. 3 + i = 4 + packet_size
          BY <1>5, <3>4
        <5>2. QED
          BY <1>4, <5>1
      <4>2. written[write_byte_addr] = byte
        BY <1>5 DEF written, Memory, Cell
      <4>3. QED
        BY <1>6, <3>2, <3>3, <3>4, <4>1, <4>2 DEF byte
    <3>5. CASE i # packet_size + 1
      <4>1. /\ i \in 1 .. packet_size /\ 3 + i \in Nat /\ 3 + i < 4 + packet_size
            /\ 3 + i \in 0 .. 2 * Words
        BY <1>5, <1>10, <3>1, <3>5, Depth
      <4>2. /\ Place(header_word_addr, 3 + i) \in Cell
            /\ Place(header_word_addr, 3 + i) # write_byte_addr
        BY <1>4, <1>10, <3>3, <4>1, PlaceIs, PlaceApart
      <4>3. written[Place(header_word_addr, 3 + i)] = mem[Place(header_word_addr, 3 + i)]
        BY <1>5, <4>2 DEF written, Memory, Cell
      <4>4. QED
        BY <1>4, <3>2, <3>3, <4>1, <4>3
    <3>6. QED
      BY <3>4, <3>5
  <2>6. header_word_addr' = Beyond'
    BY <1>2, <1>4, <1>16
  <2>7. state' # "AWAIT_PACKET"
    BY <1>17
  <2>8. QED
    BY <2>1, <2>3, <2>4, <2>5, <2>6, <2>7 DEF Laid
<1>21. QED
  BY <1>19, <1>20

(* A packet of n bytes is of half as many words, rounded up.               *)
HalfUp(n) == (n + 1) \div 2

LEMMA HalfUpIs ==
  ASSUME NEW n \in Nat
  PROVE  /\ HalfUp(n) \in Nat
         /\ n = 2 * HalfUp(n) \/ n = 2 * HalfUp(n) - 1
         /\ (4 + n + 1) \div 2 = 2 + HalfUp(n)
BY DEF HalfUp

LEMMA CommitFits ==
  ASSUME TypeOK, NEW first, NEW second, NEW pending \in PendingValue,
         NEW commit \in PendingValue,
         Sync(first, second, pending, commit), ~ overfull'
  PROVE  ~ overfull /\ commit < Words
<1>1. PICK early \in BOOLEAN :
        overfull' = (overfull \/ commit + Half(pending, early).count >= Words)
  BY DEF Sync
<1> DEFINE half == Half(pending, early)
<1>2. Pop(fifo, early, mem) \in Fifo
  BY PopType DEF TypeOK, Memory
<1>3. half \in Fifo
  BY <1>2 DEF Half, Fifo
<1>4. half.count \in Nat
  BY <1>3, FifoFields
<1>5. ~ overfull /\ ~ (commit + half.count >= Words)
  BY <1>1
<1> HIDE DEF half
<1>6. QED
  BY <1>4, <1>5, Widths, Depth

(* The words behind the header are those of the packet, two bytes each.    *)
LEMMA WordOfPacket ==
  ASSUME IInv, Laid, ~ overfull, state = "CAPTURE_PACKET", ~ bus.active,
         fifo.pending < Words, NEW i \in 1 .. Promise!WordsOf(bus.bytes)
  PROVE  WordAt(mem, Ahead(Beyond, i + 1)) =
           Promise!Word(bus.bytes[2 * i - 1],
                        IF 2 * i <= Len(bus.bytes) THEN bus.bytes[2 * i]
                        ELSE mem[write_byte_addr])
<1>1. /\ header_word_addr = Beyond
      /\ write_byte_addr = Place(header_word_addr, 4 + packet_size)
      /\ fifo.pending = 2 + (packet_size + 1) \div 2
      /\ \A k \in 1 .. packet_size :
           mem[Place(header_word_addr, 3 + k)] = bus.bytes[k]
  BY DEF Laid
<1>2. packet_size = Len(bus.bytes) /\ packet_size \in Nat
  <2>1. packet_size = Len(bus.bytes) - 0 /\ bus.bytes \in Seq(Byte)
    BY DEF IInv, Receiving, Counted, Arriving, TypeOK, Bus
  <2>2. QED
    BY <2>1
<1>3. i \in 1 .. (packet_size + 1) \div 2 /\ Beyond \in Slot
  BY <1>2, BeyondSlot DEF Promise!WordsOf, IInv
<1>4. /\ i + 1 \in Slot /\ 2 * i - 1 \in 1 .. packet_size
      /\ 2 * (i + 1) = 3 + (2 * i - 1) /\ 2 * (i + 1) + 1 = 3 + 2 * i
      /\ 2 * i <= packet_size => 2 * i \in 1 .. packet_size
      /\ ~ (2 * i <= packet_size) => 3 + 2 * i = 4 + packet_size
  <2> DEFINE half == HalfUp(packet_size)
  <2>1. half \in Nat /\ (packet_size = 2 * half \/ packet_size = 2 * half - 1)
    BY <1>2, HalfUpIs
  <2>2. i \in 1 .. half /\ 2 + half < Words
    BY <1>1, <1>3 DEF HalfUp
  <2> HIDE DEF half
  <2>3. i + 1 \in Slot
    BY <2>1, <2>2, Depth DEF Slot
  <2>4. packet_size \in Nat
    BY <1>2
  <2>5. QED
    BY <2>1, <2>2, <2>3, <2>4
<1>5. WordAt(mem, Ahead(Beyond, i + 1)) =
        256 * mem[Place(Beyond, 3 + (2 * i - 1))] + mem[Place(Beyond, 3 + 2 * i)]
  <2>1. /\ Place(Beyond, 2 * (i + 1)) = 2 * Ahead(Beyond, i + 1)
        /\ Place(Beyond, 2 * (i + 1) + 1) = 2 * Ahead(Beyond, i + 1) + 1
    BY <1>3, <1>4, PlaceEven
  <2>2. QED
    BY <1>4, <2>1 DEF WordAt
<1>6. mem[Place(Beyond, 3 + (2 * i - 1))] = bus.bytes[2 * i - 1]
  BY <1>1, <1>4
<1>7. mem[Place(Beyond, 3 + 2 * i)] = IF 2 * i <= Len(bus.bytes) THEN bus.bytes[2 * i]
                                      ELSE mem[write_byte_addr]
  <2>1. CASE 2 * i <= packet_size
    BY <1>1, <1>2, <1>4, <2>1
  <2>2. CASE ~ (2 * i <= packet_size)
    BY <1>1, <1>2, <1>4, <2>2
  <2>3. QED
    BY <2>1, <2>2
<1>8. QED
  BY <1>5, <1>6, <1>7 DEF Promise!Word

LEMMA EndPacketLogs ==
  ASSUME IInv, IInv', Laid, EndPacket, ~ overfull'
  PROVE  Laid' /\ Promise!Next
<1> DEFINE size == Store(mem, header_word_addr, packet_size)
           header == Store(size, header_word_addr + 1, packet_time)
           commit == fifo.pending
<1>1. /\ state = "CAPTURE_PACKET" /\ state' = "AWAIT_PACKET" /\ ~ bus.active
      /\ Sync(size, header, commit, commit) /\ Tick
      /\ UNCHANGED <<write_byte_addr, packet_time>>
  BY DEF EndPacket
<1>2. commit \in PendingValue /\ commit \in Nat
  BY FifoFields DEF IInv, TypeOK
<1>3. ~ overfull /\ commit < Words
  BY <1>1, <1>2, CommitFits DEF IInv
<1>4. /\ header_word_addr = Beyond
      /\ write_byte_addr = Place(header_word_addr, 4 + packet_size)
      /\ commit = 2 + (packet_size + 1) \div 2
  BY <1>1, <1>3 DEF Laid
<1> HIDE DEF commit
<1>5. packet_size = Len(bus.bytes) /\ packet_size \in Nat /\ bus.bytes \in Seq(Byte)
  <2>1. packet_size = Len(bus.bytes) - 0 /\ bus.bytes \in Seq(Byte)
    BY <1>1 DEF IInv, Receiving, Counted, Arriving, TypeOK, Bus
  <2>2. QED
    BY <2>1
<1>6. packet_size \in WordValue /\ packet_time \in WordValue /\ 2 <= commit
  <2>1. packet_size \in WordValue /\ packet_time \in WordValue
    BY Widths DEF IInv, TypeOK
  <2>2. commit = 2 + HalfUp(packet_size) /\ HalfUp(packet_size) \in Nat
    BY <1>4, <1>5, HalfUpIs DEF HalfUp
  <2>3. 2 <= commit
    BY <2>2
  <2>4. QED
    BY <2>1, <2>3
<1>7. /\ size \in Memory /\ header \in Memory
      /\ OnlyBeyond(size, commit) /\ OnlyBeyond(header, commit)
      /\ WordAt(header, Ahead(Beyond, 0)) = packet_size
      /\ WordAt(header, Ahead(Beyond, 1)) = packet_time
      /\ \A j \in 2 .. commit - 1 :
           WordAt(header, Ahead(Beyond, j)) = WordAt(mem, Ahead(Beyond, j))
  BY <1>2, <1>3, <1>4, <1>6, TwoWords DEF IInv
<1> HIDE DEF size, header
<1>8. Beyond' = Ahead(Beyond, commit)
  BY <1>1, <1>2, <1>7, SyncLogs DEF IInv
<1> DEFINE entry == [j \in 1 .. commit |-> WordAt(header, Ahead(Beyond, j - 1))]
<1>9. PICK n \in 0 .. 2 : n <= Len(Unread(fifo)) /\ Promise!Log(n, entry)
  BY <1>1, <1>2, <1>7, SyncLogs DEF IInv
<1> DEFINE pad == mem[write_byte_addr]
           words == Promise!WordsOf(bus.bytes)
           body == [i \in 1 .. words |->
                      Promise!Word(bus.bytes[2 * i - 1],
                                   IF 2 * i <= Len(bus.bytes) THEN bus.bytes[2 * i]
                                   ELSE pad)]
           front == <<Len(bus.bytes), packet_time>>
<1>10. pad \in Byte
  BY DEF IInv, TypeOK
<1>11. words \in Nat /\ commit = 2 + words
  <2>1. words = HalfUp(packet_size)
    BY <1>5 DEF Promise!WordsOf, HalfUp
  <2>2. commit = 2 + HalfUp(packet_size) /\ HalfUp(packet_size) \in Nat
    BY <1>4, <1>5, HalfUpIs DEF HalfUp
  <2>3. QED
    BY <2>1, <2>2
<1>12. \A i \in 1 .. words : body[i] = WordAt(mem, Ahead(Beyond, i + 1))
  BY <1>1, <1>3, WordOfPacket DEF commit
<1> HIDE DEF pad, words, body
<1>13. entry = front \o body
  <2>1. /\ \A i \in 1 .. words : WordAt(mem, Ahead(Beyond, i + 1)) \in WordValue
        /\ Beyond \in Slot
    <3>1. Beyond \in Slot /\ mem \in Memory
      BY BeyondSlot DEF IInv, TypeOK, Memory
    <3>2. ASSUME NEW i \in 1 .. words PROVE Ahead(Beyond, i + 1) \in 0 .. Words - 1
      <4>1. i + 1 \in 0 .. Words
        BY <1>3, <1>11, Depth
      <4>2. QED
        BY <3>1, <4>1, AheadIs DEF Slot
    <3>3. QED
      BY <3>1, <3>2, WordType
  <2>2. body \in [1 .. words -> WordValue]
    <3>1. body = [i \in 1 .. words |-> body[i]]
      BY DEF body
    <3>2. QED
      BY <1>12, <2>1, <3>1
  <2>3. body \in Seq(WordValue) /\ Len(body) = words
    BY <1>11, <2>2
  <2>4. front \in Seq(WordValue) /\ Len(front) = 2
        /\ front[1] = packet_size /\ front[2] = packet_time
    BY <1>5, <1>6
  <2> HIDE DEF front
  <2>5. /\ front \o body \in Seq(WordValue) /\ Len(front \o body) = commit
        /\ \A j \in 1 .. commit :
             (front \o body)[j] = IF j <= 2 THEN front[j] ELSE body[j - 2]
    <3>1. /\ front \o body \in Seq(WordValue)
          /\ Len(front \o body) = Len(front) + Len(body)
          /\ \A j \in 1 .. Len(front) + Len(body) :
               (front \o body)[j] = IF j <= Len(front) THEN front[j]
                                    ELSE body[j - Len(front)]
      BY <2>3, <2>4, ConcatProperties
    <3>2. QED
      BY <1>11, <2>3, <2>4, <3>1
  <2>6. ASSUME NEW j \in 1 .. commit
        PROVE  WordAt(header, Ahead(Beyond, j - 1)) = (front \o body)[j]
    <3>1. CASE j = 1
      BY <1>7, <2>4, <2>5, <3>1
    <3>2. CASE j = 2
      BY <1>7, <2>4, <2>5, <3>2
    <3>3. CASE j > 2
      <4>1. j - 2 \in 1 .. words /\ j - 1 \in 2 .. commit - 1 /\ ~ (j <= 2)
            /\ (j - 2) + 1 = j - 1
        BY <1>2, <1>11, <3>3
      <4>2. (front \o body)[j] = body[j - 2]
        BY <2>5, <4>1
      <4>3. body[j - 2] = WordAt(mem, Ahead(Beyond, (j - 2) + 1))
        BY <1>12, <4>1
      <4>4. QED
        BY <1>7, <4>1, <4>2, <4>3
    <3>4. j = 1 \/ j = 2 \/ j > 2
      BY <1>2
    <3>5. QED
      BY <3>1, <3>2, <3>3, <3>4
  <2>7. entry \in Seq(WordValue) /\ Len(entry) = commit
        /\ \A j \in 1 .. commit : entry[j] = (front \o body)[j]
    <3>1. \A j \in 1 .. commit : (front \o body)[j] \in WordValue
      BY <2>5
    <3>2. entry = [j \in 1 .. commit |-> (front \o body)[j]]
      BY <2>6
    <3> HIDE DEF entry
    <3>3. entry \in [1 .. commit -> WordValue]
      BY <3>1, <3>2
    <3>4. entry \in Seq(WordValue) /\ Len(entry) = commit
      BY <1>2, <3>3
    <3>5. QED
      BY <3>2, <3>4
  <2> HIDE DEF entry
  <2>8. QED
    BY <2>5, <2>7, SeqEqual
<1>14. Promise!End(n)
  <2>1. Promise!PacketEntry(packet_time, bus.bytes, pad) = front \o body
    BY DEF Promise!PacketEntry, body, words
  <2>2. Promise!Log(n, Promise!PacketEntry(packet_time, bus.bytes, pad))
    BY <1>9, <1>13, <2>1
  <2>3. QED
    BY <1>1, <1>10, <2>2, Phases, TickIs DEF Promise!End
<1>15. Promise!Next
  BY <1>3, <1>9, <1>14, Promises DEF IInv
<1>16. NextWord' = Beyond'
  <2>1. /\ 4 + packet_size \in 0 .. 2 * Words - 1
        /\ ((4 + packet_size) + 1) \div 2 = commit
    <3> DEFINE half == HalfUp(packet_size)
    <3>1. /\ half \in Nat /\ (packet_size = 2 * half \/ packet_size = 2 * half - 1)
          /\ (4 + packet_size + 1) \div 2 = 2 + half
      BY <1>5, HalfUpIs
    <3>2. commit = 2 + half
      BY <1>4 DEF HalfUp
    <3> HIDE DEF half
    <3>3. packet_size \in Nat
      BY <1>5
    <3>4. 4 + packet_size \in 0 .. 2 * Words - 1
      BY <1>3, <3>1, <3>2, <3>3, Depth
    <3>5. QED
      BY <3>1, <3>2, <3>4
  <2>2. write_byte_addr \in Cell /\ Beyond \in Slot
    BY BeyondSlot DEF IInv, TypeOK, Cell
  <2>3. RoundUp(write_byte_addr) = Ahead(Beyond, commit)
    BY <1>4, <2>1, <2>2, RoundUpIs
  <2>4. QED
    BY <1>1, <1>8, <2>3, NextWordIs
<1>17. Laid'
  BY <1>1, <1>16 DEF Laid
<1>18. QED
  BY <1>15, <1>17

-----------------------------------------------------------------------------
LEMMA LaidInit == Init => Laid /\ Promise!Init
<1> SUFFICES ASSUME Init PROVE Laid /\ Promise!Init
  OBVIOUS
<1>1. Unread(fifo) = <<>>
  BY DEF Init, Empty, Unread
<1>2. QED
  BY <1>1, Phases DEF Init, Empty, Laid, Promise!Init

LEMMA StepLogs ==
  IInv /\ IInv' /\ Laid /\ [Next]_vars => Laid' /\ [Promise!Next]_(Promise!vars)
<1> SUFFICES ASSUME IInv, IInv', Laid, [Next]_vars
             PROVE  Laid' /\ [Promise!Next]_(Promise!vars)
  OBVIOUS
<1>1. CASE Next /\ overfull'
  BY <1>1 DEF Laid, Promise!Next
<1>2. CASE Next /\ ~ overfull'
  BY <1>2, DiscardLogs, HaltedLogs, BeginPacketLogs, AwaitPacketLogs, WriteEventLogs,
     CaptureByteLogs, CaptureNothingLogs, EndPacketLogs DEF Next, Cycle
<1>3. CASE UNCHANGED vars
  <2>1. UNCHANGED Promise!vars
    BY <1>3 DEF vars, core, Promise!vars, Unread
  <2>2. Laid'
    BY <1>3 DEF vars, core, Laid, NextWord, Odd, Beyond
  <2>3. QED
    BY <2>1, <2>2
<1>4. QED
  BY <1>1, <1>2, <1>3

(* The capture implements the log, for every depth of the ring, width of   *)
(* the timestamp, packet and reader: what is read is each packet whole,    *)
(* behind its size and its time, although its bytes are written before its *)
(* header, and words are read in both sync cycles of a cycle that writes   *)
(* (CAPTURE_PACKET, data_commit in analyzer.py).                           *)
THEOREM CaptureImplementsLog == Spec => PacketsLogged
<1>1. Init => Laid /\ Promise!Init
  BY LaidInit
<1>2. Spec => []IInv
  BY Invariance
<1>3. IInv /\ IInv' /\ Laid /\ [Next]_vars => Laid' /\ [Promise!Next]_(Promise!vars)
  BY StepLogs
<1>4. QED
  BY <1>1, <1>2, <1>3, PTL DEF Spec, PacketsLogged, Promise!Spec
=============================================================================
