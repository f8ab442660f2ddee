------------------------------ MODULE Analyzer ------------------------------
(***************************************************************************)
(* The capture core of the USB analyzer (gateware/analyzer/analyzer.py): a *)
(* ring of 16-bit words between the bus, at one byte per cycle of the usb  *)
(* clock, and a stream that may take one word per cycle of the sync clock, *)
(* which is twice as fast. One step is one cycle of the usb clock: the     *)
(* first sync cycle makes the first write that the usb cycle asks for, the *)
(* second the second write and the commit, and each may read a word.       *)
(***************************************************************************)
EXTENDS Integers, Sequences

CONSTANTS
  Words,         (* depth of the ring: mem_size_words, a power of 2        *)
  TimeModulus,   (* 2^16: the width of current_time                        *)
  MaxSize,       (* bytes of the longest packet                            *)
  NumPackets,    (* packets on the bus                                     *)
  MaxCaptures,   (* times the host enables the capture                     *)
  ByteOf(_, _),  (* byte i of a packet                                     *)
  None           (* no word on the stream                                  *)

(* A longer packet would be babble: fifo_words_pending has 11 bits, and a  *)
(* packet of the USB is of at most 1027 bytes.                             *)
Byte == 0 .. 255
WordValue == 0 .. 2 ^ 16 - 1
PendingValue == 0 .. 2 ^ 11 - 1

ASSUME AnalyzerAssumption ==
  /\ Words \in Nat /\ Words >= 4
  /\ TimeModulus \in 2 .. 2 ^ 16
  /\ MaxSize \in Nat /\ MaxSize + 2 < 2 ^ 11 /\ NumPackets \in Nat /\ MaxCaptures \in Nat
  /\ \A p \in 1 .. NumPackets, i \in 1 .. MaxSize : ByteOf(p, i) \in Byte
  /\ None \notin WordValue

VARIABLES
  state,                                    (* of the core analysis FSM    *)
  write_byte_addr, header_word_addr,
  packet_size, packet_time, current_time,
  mem,                                      (* the ring, byte by byte      *)
  fifo,    (* read_word_addr, fifo_word_count, fifo_words_pending, stream  *)
  capture_enable, bus, captures,            (* inputs of this cycle        *)
  overfull, tight                           (* history: see the properties *)

core == <<state, write_byte_addr, header_word_addr, packet_size, packet_time,
          current_time>>
vars == <<core, mem, fifo, capture_enable, bus, captures, overfull, tight>>

HEADER_SIZE_WORDS == 2

(* bytes: the packet so far, this cycle's byte included; it outlives the   *)
(* packet until the next one begins.                                       *)
Bus == [active : BOOLEAN, valid : BOOLEAN, bytes : Seq(Byte),
        packet : 0 .. NumPackets]

Fifo == [read : 0 .. Words - 1, count : 0 .. Words - 1,
         pending : PendingValue, stream : WordValue \union {None}]

Empty == [read |-> 0, count |-> 0, pending |-> 0, stream |-> None]

Init ==
  /\ state = "AWAIT_START"
  /\ write_byte_addr = 0 /\ header_word_addr = 0
  /\ packet_size = 0 /\ packet_time = 0 /\ current_time = 0
  /\ mem = [b \in 0 .. 2 * Words - 1 |-> 0]
  /\ fifo = Empty
  /\ capture_enable = FALSE /\ captures = 0
  /\ bus = [active |-> FALSE, valid |-> FALSE, bytes |-> <<>>, packet |-> 0]
  /\ overfull = FALSE /\ tight = FALSE
-----------------------------------------------------------------------------
(* The reading side.                                                       *)

WordAt(memory, word) == 256 * memory[2 * word] + memory[2 * word + 1]

PopUnchecked(f, ready, memory) ==
  IF f.stream # None /\ ~ ready THEN f
  ELSE [f EXCEPT !.stream = WordAt(memory, f.read),
                 !.read = (@ + 1) % Words, !.count = @ - 1]

(* One sync cycle: the next word replaces one that the stream has taken.   *)
Pop(f, ready, memory) ==
  CASE f.stream # None /\ ~ ready -> f
    [] f.count = 0 -> [f EXCEPT !.stream = None]
    [] OTHER -> [f EXCEPT !.stream = WordAt(memory, f.read),
                          !.read = (@ + 1) % Words, !.count = @ - 1]

(* The words of the ring that are committed and not yet read.              *)
Unread(f) == [i \in 1 .. f.count |-> WordAt(mem, (f.read + i - 1) % Words)]
-----------------------------------------------------------------------------
(* The writing side.                                                       *)

Odd == write_byte_addr % 2
NextWordUnaligned == (write_byte_addr \div 2) % Words
NextWord == ((write_byte_addr + Odd) \div 2) % Words

(* The write pointer moves behind the header or event at NextWord.         *)
PastHeader ==
  (write_byte_addr + Odd + 2 * HEADER_SIZE_WORDS) % (2 * Words)

Store(memory, word, value) ==
  [memory EXCEPT ![2 * (word % Words)] = value \div 256,
                 ![2 * (word % Words) + 1] = value % 256]

(* The two sync cycles of a usb cycle: first is the memory after the first *)
(* write, second after the second; pending is the words not yet committed. *)
Half(pending, ready) == [Pop(fifo, ready, mem) EXCEPT !.pending = pending]

NoCommit == 0

Sync(first, second, pending, commit) ==
  \E early, late \in BOOLEAN :
    LET half == Half(pending, early)
    IN  /\ mem' = second
        /\ fifo' = [Pop(half, late, first) EXCEPT
                      !.count = (@ + commit) % Words]
        /\ overfull' = (overfull \/ commit + half.count >= Words)

(* A cycle that writes nothing.                                            *)
Drain(pending) == Sync(mem, mem, pending, NoCommit)

Tick == current_time' = (current_time + 1) % TimeModulus

Discard ==
  /\ state = "AWAIT_START" /\ capture_enable
  /\ fifo' = Empty
  /\ write_byte_addr' = 0
  /\ overfull' = FALSE /\ tight' = FALSE
  /\ \/ /\ ~ bus.active
        /\ state' = "AWAIT_PACKET"
        /\ current_time' = 0
     \/ bus.active /\ Tick /\ UNCHANGED state
  /\ UNCHANGED <<header_word_addr, packet_size, packet_time, mem>>

(* Stopped, or trapped after an overrun: the stream may still be read.     *)
Halted ==
  /\ \/ state = "AWAIT_START" /\ ~ capture_enable /\ UNCHANGED state
     \/ state = "OVERRUN" /\ capture_enable /\ UNCHANGED state
     \/ state \in {"AWAIT_PACKET", "OVERRUN"} /\ ~ capture_enable
        /\ state' = "AWAIT_START"
  /\ Drain(fifo.pending)
  /\ Tick
  /\ UNCHANGED <<write_byte_addr, header_word_addr, packet_size, packet_time,
                 tight>>

BeginPacket ==
  /\ state = "AWAIT_PACKET" /\ capture_enable /\ bus.active
  /\ state' = "CAPTURE_PACKET"
  /\ header_word_addr' = NextWord
  /\ write_byte_addr' = PastHeader
  /\ packet_size' = 0
  /\ packet_time' = current_time
  /\ current_time' = 0
  /\ Drain(HEADER_SIZE_WORDS)
  /\ tight' = (tight \/ fifo.count + HEADER_SIZE_WORDS > Words - 2)

AwaitPacket ==
  /\ state = "AWAIT_PACKET" /\ capture_enable /\ ~ bus.active
  /\ current_time # TimeModulus - 1
  /\ Drain(fifo.pending)
  /\ Tick
  /\ UNCHANGED <<state, write_byte_addr, header_word_addr, packet_size,
                 packet_time, tight>>

(* The timestamp is about to wrap: an event NONE keeps the time.           *)
WriteEvent ==
  /\ state = "AWAIT_PACKET" /\ capture_enable /\ ~ bus.active
  /\ current_time = TimeModulus - 1
  /\ LET marker == Store(mem, NextWord, 256 * 255)
     IN  Sync(marker, Store(marker, NextWord + 1, current_time),
              HEADER_SIZE_WORDS, HEADER_SIZE_WORDS)
  /\ write_byte_addr' = PastHeader
  /\ Tick
  /\ tight' = (tight \/ fifo.count + HEADER_SIZE_WORDS > Words - 1)
  /\ UNCHANGED <<state, header_word_addr, packet_size, packet_time>>

FillsTooLate(pending, count) == pending + count = Words + 1

(* The ring is full when this byte makes it so, by equality.               *)
Fills(pending, count) == pending + count = Words - 1

CaptureByte ==
  /\ state = "CAPTURE_PACKET" /\ bus.active /\ bus.valid
  /\ LET written == [mem EXCEPT ![write_byte_addr] = bus.bytes[Len(bus.bytes)]]
         pending == fifo.pending + 1 - Odd
     IN  \E early, late \in BOOLEAN :
           LET half == Half(pending, early)
           IN  /\ mem' = written
               /\ fifo' = Pop(half, late, written)
               /\ state' = IF Fills(pending, half.count)
                           THEN "OVERRUN" ELSE "CAPTURE_PACKET"
               /\ overfull' = (overfull \/ pending + half.count >= Words)
  /\ write_byte_addr' = (write_byte_addr + 1) % (2 * Words)
  /\ packet_size' = packet_size + 1
  /\ Tick
  /\ UNCHANGED <<header_word_addr, packet_time, tight>>

CaptureNothing ==
  /\ state = "CAPTURE_PACKET" /\ bus.active /\ ~ bus.valid
  /\ Drain(fifo.pending)
  /\ Tick
  /\ UNCHANGED <<state, write_byte_addr, header_word_addr, packet_size,
                 packet_time, tight>>

(* The header is written behind the packet, which is thereby committed.    *)
EndPacket ==
  /\ state = "CAPTURE_PACKET" /\ ~ bus.active
  /\ LET size == Store(mem, header_word_addr, packet_size)
     IN  Sync(size, Store(size, header_word_addr + 1, packet_time),
              fifo.pending, fifo.pending)
  /\ state' = "AWAIT_PACKET"
  /\ Tick
  /\ UNCHANGED <<write_byte_addr, header_word_addr, packet_size, packet_time,
                 tight>>
-----------------------------------------------------------------------------
(* The inputs of the next cycle (external): the UTMI receiver, which       *)
(* raises rx_active before the first byte, and the host's capture_enable.  *)

Silent ==
  /\ bus.active => bus.bytes # <<>>
  /\ bus' = [bus EXCEPT !.active = FALSE, !.valid = FALSE]

Begins ==
  /\ ~ bus.active /\ bus.packet < NumPackets
  /\ bus' = [active |-> TRUE, valid |-> FALSE, bytes |-> <<>>,
             packet |-> bus.packet + 1]

Receives ==
  /\ bus.active /\ Len(bus.bytes) < MaxSize
  /\ bus' = [bus EXCEPT !.valid = TRUE,
               !.bytes = Append(@, ByteOf(bus.packet, Len(@) + 1))]

Pauses == bus.valid /\ Len(bus.bytes) = 1 /\ bus' = [bus EXCEPT !.valid = FALSE]

(* The host starts and stops the capture whenever it likes.                *)
Controls ==
  /\ captures' = captures + (IF capture_enable' /\ ~ capture_enable THEN 1 ELSE 0)
  /\ captures' <= MaxCaptures

Inputs ==
  /\ Silent \/ Begins \/ Receives \/ Pauses
  /\ capture_enable' \in BOOLEAN
  /\ Controls
-----------------------------------------------------------------------------
Cycle ==
  \/ Discard \/ Halted \/ BeginPacket \/ AwaitPacket \/ WriteEvent
  \/ CaptureByte \/ CaptureNothing \/ EndPacket

Next == Cycle /\ Inputs

Spec == Init /\ [][Next]_vars
-----------------------------------------------------------------------------
TypeOK ==
  /\ state \in {"AWAIT_START", "AWAIT_PACKET", "CAPTURE_PACKET", "OVERRUN"}
  /\ write_byte_addr \in 0 .. 2 * Words - 1
  /\ header_word_addr \in 0 .. Words - 1
  /\ packet_size \in 0 .. MaxSize
  /\ packet_time \in 0 .. TimeModulus - 1
  /\ current_time \in 0 .. TimeModulus - 1
  /\ mem \in [0 .. 2 * Words - 1 -> Byte]
  /\ fifo \in Fifo
  /\ capture_enable \in BOOLEAN /\ bus \in Bus /\ captures \in 0 .. MaxCaptures
  /\ overfull \in BOOLEAN /\ tight \in BOOLEAN

(* overfull: since the capture began, more words were committed or pending *)
(* than the ring can hold. tight: a packet began with less than three free *)
(* words, or an event with less than two. The check on every byte          *)
(* (CAPTURE_PACKET) keeps the ring from overflowing as long as the reader  *)
(* leaves that much room where nothing is checked.                         *)
OverflowsOnlyWhenTight == overfull => tight

(* "overrun: Asserted iff the analyzer has received more data than it can  *)
(* store in its internal buffer" (analyzer.py, the attribute overrun).     *)
OverrunWhenOverfull == overfull => state = "OVERRUN"

PhaseOf == [AWAIT_START |-> "stopped", AWAIT_PACKET |-> "ready",
            CAPTURE_PACKET |-> "packet", OVERRUN |-> "trapped"]

Promise == INSTANCE PacketLog WITH
  Capacity <- Words, log <- Unread(fifo), out <- fifo.stream,
  phase <- PhaseOf[state], gap <- current_time, stamp <- packet_time

(* As long as the ring does not overflow, what is read from it is what was *)
(* on the bus: each packet whole, behind its size and its time, although   *)
(* its header is written last, behind the bytes and around a moving read   *)
(* pointer (the header writes of the buffer write FSM, data_commit).       *)
PacketsLogged == Promise!Spec
=============================================================================
