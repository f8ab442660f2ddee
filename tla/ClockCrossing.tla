--------------------------- MODULE ClockCrossing ---------------------------
(***************************************************************************)
(* The last stages of the analyzer's stream before its USB endpoint        *)
(* (gateware/analyzer/fifo.py): Stream16to8, which sends a word as two     *)
(* bytes, and AsyncFIFOReadReset, which carries them from the sync clock   *)
(* to the usb clock, half as fast. Each side of the FIFO sees the counter  *)
(* of the other two edges of its clock late, in Gray code. One step is one *)
(* cycle of the sync clock; the edge that ends every second one is also    *)
(* an edge of the usb clock.                                               *)
(***************************************************************************)
EXTENDS AnalyzerStream

CONSTANTS
  DepthBits,     (* depth_bits: 2, for a FIFO of four bytes                *)
  Skewed         (* a counter that changes at an edge may be caught late   *)

ASSUME ClockCrossingAssumption ==
  /\ DepthBits \in Nat \ {0} /\ NumWords \in Nat \ {0}
  /\ Skewed \in BOOLEAN

VARIABLES
  phase,         (* 1 if the cycle ends with an edge of the usb clock      *)
  word,          (* offered by the HyperRAM FIFO: valid, id                *)
  s16,           (* Stream16to8: valid, odd, shift                         *)
  w,             (* write side: bin, gry, and consume_w_gry (two stages)   *)
  r,             (* read side: bin, gry, produce_r_gry (two stages), data  *)
  storage,
  dirty          (* history: a write was in flight at the last discard     *)

crossingVars == <<phase, discarding, word, s16, w, r, storage, dirty>>

(* 2 ^ i, what bit i of a counter counts.                                   *)
Weight[i \in Nat] == IF i = 0 THEN 1 ELSE 2 * Weight[i - 1]

depth == Weight[DepthBits]
Counter == 0 .. 2 * depth - 1
Bits == 0 .. DepthBits
Code == [Bits -> {0, 1}]

(* stale is history: the byte was accepted before the last discard.        *)
Byte == [word : 0 .. NumWords - 1, half : {"high", "low"}, stale : BOOLEAN]
byte(id, half) == [word |-> id, half |-> half, stale |-> FALSE]
NoByte == byte(0, "high")

ASSUME NoneIsNoByte == None \notin Byte
-----------------------------------------------------------------------------
(* Gray code.                                                              *)

Bit(n, i) == (n \div Weight[i]) % 2

Encode(n) ==
  [i \in Bits |-> IF i = DepthBits THEN Bit(n, i)
                  ELSE (Bit(n, i) + Bit(n, i + 1)) % 2]

Decode(code) == CHOOSE n \in Counter : Encode(n) = code

(* What a flip-flop of the other clock catches of a code that changes from *)
(* old to new at its own edge: bit by bit, either.                         *)
Caught(old, new) ==
  IF Skewed THEN {code \in Code : \A i \in Bits : code[i] \in {old[i], new[i]}}
  ELSE {old}
-----------------------------------------------------------------------------
Stopped == [valid |-> FALSE, odd |-> FALSE, shift |-> <<NoByte, NoByte>>]

CrossingInit ==
  /\ phase = 0 /\ discarding = FALSE
  /\ word = [valid |-> FALSE, id |-> 0]
  /\ s16 = Stopped
  /\ w = [bin |-> 0, gry |-> Encode(0), first |-> Encode(0), seen |-> Encode(0)]
  /\ r = [bin |-> 0, gry |-> Encode(0), first |-> Encode(0), seen |-> Encode(0),
          data |-> NoByte]
  /\ storage = [a \in 0 .. depth - 1 |-> NoByte]
  /\ dirty = FALSE

w_full_by_top_bit ==
  \A i \in Bits : (w.gry[i] # w.seen[i]) <=> i = DepthBits

(* The write side is full when the counters are a depth apart: their codes *)
(* differ in the two top bits and nowhere else.                            *)
w_full ==
  \A i \in Bits : (w.gry[i] # w.seen[i]) <=> i \in {DepthBits, DepthBits - 1}

do_write == s16.valid /\ ~ w_full

r_rdy == r.gry # r.seen /\ ~ discarding

Inc(counter, done) == (counter + IF done THEN 1 ELSE 0) % (2 * depth)

(* A word is taken when the byte on the output is, and it was the last.    *)
Stalled == s16.valid /\ w_full
TakesWord == ~ Stalled /\ ~ s16.odd
-----------------------------------------------------------------------------
(* The cycle of the sync clock.                                            *)

Shift ==
  CASE discarding -> s16' = Stopped
    [] ~ discarding /\ Stalled -> UNCHANGED s16
    [] ~ discarding /\ ~ Stalled /\ s16.odd ->
         s16' = [valid |-> TRUE, odd |-> FALSE,
                 shift |-> <<s16.shift[2], NoByte>>]
    [] ~ discarding /\ TakesWord ->
         s16' = IF word.valid
                THEN [valid |-> TRUE, odd |-> TRUE,
                      shift |-> <<byte(word.id, "high"), byte(word.id, "low")>>]
                ELSE [s16 EXCEPT !.valid = FALSE]

Written ==
  IF do_write THEN [storage EXCEPT ![w.bin % depth] = s16.shift[1]] ELSE storage

Store ==
  storage' = IF discarding THEN [a \in DOMAIN storage |->
                                   [Written[a] EXCEPT !.stale = TRUE]]
             ELSE Written

(* consume_w_gry follows the read side, whose code changes when phase = 1. *)
WriteSide ==
  LET bin == Inc(w.bin, do_write)
  IN  \E caught \in IF phase = 1 THEN Caught(r.gry, r'.gry) ELSE {r.gry} :
        w' = [bin |-> bin, gry |-> Encode(bin), first |-> caught,
              seen |-> w.first]

(* The FIFO that the words come from (external) keeps offering a word      *)
(* until it is taken, and is reset by the discard.                         *)
Offer ==
  \/ discarding /\ word' = [word EXCEPT !.valid = FALSE]
  \/ /\ ~ discarding /\ (~ word.valid \/ TakesWord)
     /\ \E valid \in BOOLEAN :
          word' = [valid |-> valid,
                   id |-> IF word.valid THEN (word.id + 1) % NumWords ELSE word.id]
  \/ ~ discarding /\ word.valid /\ ~ TakesWord /\ UNCHANGED word

(* A write that the read side has not seen is in flight.                   *)
Observe ==
  dirty' = IF discarding /\ phase = 1 THEN do_write \/ w.gry # r.seen ELSE dirty

Sync == Shift /\ Store /\ WriteSide /\ Offer /\ Observe
-----------------------------------------------------------------------------
(* The edges of the usb clock. read_data follows the counter; a discard    *)
(* sets the counter to where the read side believes the write side is.     *)

ReadSideUnreset(take) ==
  LET bin == Inc(r.bin, take)
  IN  \E caught \in Caught(w.gry, Encode(Inc(w.bin, do_write))) :
        r' = [bin |-> bin, gry |-> Encode(bin),
              first |-> caught, seen |-> r.first,
              data |-> storage[bin % depth]]

ReadSide(take) ==
  LET bin == Inc(r.bin, take)
  IN  \E caught \in Caught(w.gry, Encode(Inc(w.bin, do_write))) :
        r' = [bin |-> IF discarding THEN Decode(r.seen) ELSE bin,
              gry |-> IF discarding THEN r.seen ELSE Encode(bin),
              first |-> caught, seen |-> r.first,
              data |-> storage[bin % depth]]

(* capture_enable rises in the middle of a usb cycle, as its register is   *)
(* clocked by sync; the analyzer leaves AWAIT_START at an edge of usb, at  *)
(* the first one unless a packet is on the bus.                            *)
HalfCycle ==
  /\ phase = 0 /\ phase' = 1
  /\ discarding' \in BOOLEAN
  /\ UNCHANGED r

WholeCycle ==
  /\ phase = 1 /\ phase' = 0
  /\ discarding' \in {FALSE, discarding}
  /\ ReadSide(FALSE)

Read ==
  /\ phase = 1 /\ phase' = 0
  /\ r_rdy
  /\ discarding' = FALSE
  /\ ReadSide(TRUE)

CrossingNext == (HalfCycle \/ WholeCycle \/ Read) /\ Sync

(* The clocks run, and the endpoint does not stall for ever. Sync never    *)
(* prevents a tick or a read.                                              *)
Tick == phase' = 1 - phase

CrossingSpec ==
  /\ CrossingInit /\ [][CrossingNext]_crossingVars
  /\ WF_phase(Tick) /\ SF_r(Read)
-----------------------------------------------------------------------------
CrossingTypeOK ==
  /\ phase \in {0, 1} /\ discarding \in BOOLEAN
  /\ word \in [valid : BOOLEAN, id : 0 .. NumWords - 1]
  /\ s16 \in [valid : BOOLEAN, odd : BOOLEAN, shift : Byte \X Byte]
  /\ w \in [bin : Counter, gry : Code, first : Code, seen : Code]
  /\ r \in [bin : Counter, gry : Code, first : Code, seen : Code, data : Byte]
  /\ storage \in [0 .. depth - 1 -> Byte]
  /\ dirty \in BOOLEAN

Level == (w.bin - r.bin) % (2 * depth)

InFifo == [i \in 1 .. Level |-> storage[(r.bin + i - 1) % depth]]

InShift ==
  (IF s16.valid THEN <<s16.shift[1]>> ELSE <<>>)
    \o (IF s16.odd THEN <<s16.shift[2]>> ELSE <<>>)

CrossingPromise == INSTANCE StreamQueue WITH
  Capacity <- depth + 2, queue <- InFifo \o InShift,
  input <- IF word.valid THEN <<byte(word.id, "high"), byte(word.id, "low")>>
           ELSE <<>>,
  output <- IF r_rdy THEN r.data ELSE None, void <- dirty

(* The bytes of the words, high byte first, stay a queue across the two    *)
(* clocks, although each side acts on an old counter of the other, and a   *)
(* discard empties it, provided the crossing has been still for as long as *)
(* the read side takes to see a write (AsyncFIFOReadReset, ext_rst).       *)
BytesQueued == CrossingPromise!Spec

(* However busy the crossing is when the analyzer discards, the counters  *)
(* stay within a depth of each other, so that no byte is overwritten, and  *)
(* what survives is read before the bytes of the new capture.              *)
StaleFirst ==
  /\ Level <= depth
  /\ \A i, j \in DOMAIN InFifo :
       i < j /\ InFifo[j].stale => InFifo[i].stale

(* Within the crossing nothing leaves its bounds, and what a discard in    *)
(* the middle of a write leaves behind is neither overwritten nor          *)
(* overtaken (AsyncFIFOReadReset, ext_rst).                                *)
CrossingSound == CrossingTypeOK /\ StaleFirst

(* Every byte is read, as long as the endpoint reads what it is offered.   *)
EveryByteLeaves == []<><<Level = 0 \/ r'.bin # r.bin>>_crossingVars

(* "Discard data buffered by endpoint when the analyzer discards its data" *)
(* (top.py): nothing of an earlier capture reaches the endpoint.           *)
NothingStale == r_rdy => ~ r.data.stale
=============================================================================
