----------------------------- MODULE PacketFifo -----------------------------
(***************************************************************************)
(* HyperRAMPacketFIFO (gateware/analyzer/fifo.py): the words of the        *)
(* analyzer's stream are buffered in HyperRAM, which is written and read   *)
(* in bursts, and from there in a small FIFO in front of the reader. A     *)
(* burst cannot be stalled: each word that the controller strobes is       *)
(* taken from the input, or put into the output FIFO, whether or not there *)
(* is one, or room for one; only final_word, raised in time, ends it. One  *)
(* step is one cycle of the sync clock.                                    *)
(***************************************************************************)
EXTENDS AnalyzerStream

CONSTANTS
  Depth,       (* words of the HyperRAM: 2^22                              *)
  OutDepth,    (* words of the output FIFO: 128                            *)
  OutMsb,      (* weight of the top bit of out_fifo.level: 128             *)
  RingWords    (* words the analyzer's ring can hold                       *)

ASSUME PacketFifoAssumption ==
  /\ Depth \in Nat \ {0} /\ OutDepth \in Nat /\ OutDepth >= 2
  /\ OutMsb \in Nat \ {0} /\ OutMsb <= OutDepth /\ OutDepth < 2 * OutMsb
  /\ RingWords \in Nat \ {0} /\ NumWords \in Nat \ {0}
  /\ None \notin 0 .. NumWords - 1

VARIABLES
  ring,            (* fifo_word_count: committed words of the analyzer     *)
  input,           (* valid, last and word: the analyzer's stream          *)
  following,       (* the word behind the one on the stream                *)
  fsm, is_write,
  write_address, read_address, word_count,
  ram,
  psram,           (* the controller: its state and its address            *)
  out              (* the words in out_fifo, oldest first                  *)

source == <<ring, input, following>>
vars == <<source, fsm, is_write, write_address, read_address, word_count, ram,
          psram, out, discarding>>

Word == 0 .. NumWords - 1
Address == 0 .. Depth - 1

Stream == [valid : BOOLEAN, last : BOOLEAN, word : Word]
Controller == [state : {"idle", "transfer", "recovery"}, address : Address]

Idle == [state |-> "idle", address |-> 0]

Init ==
  /\ ring = 0 /\ following = 0
  /\ input = [valid |-> FALSE, last |-> FALSE, word |-> 0]
  /\ fsm = "IDLE" /\ is_write = FALSE
  /\ write_address = 0 /\ read_address = 0 /\ word_count = 0
  /\ ram = [a \in Address |-> 0]
  /\ psram = Idle
  /\ out = <<>> /\ discarding = FALSE

After(n, size) == IF n = size - 1 THEN 0 ELSE n + 1

empty == word_count = 0
full == word_count = Depth
-----------------------------------------------------------------------------
(* The two ends. The stream of the analyzer (analyzer.py) shows the next   *)
(* word of the ring, which packets are committed to at any time; last says *)
(* that the ring was empty behind the word when the word was fetched.      *)

Commits(left) == ring' \in left .. RingWords

Source(taken) ==
  IF input.valid /\ ~ taken
  THEN Commits(ring) /\ UNCHANGED <<input, following>>
  ELSE IF ring = 0
  THEN /\ input' = [input EXCEPT !.valid = FALSE, !.last = FALSE]
       /\ Commits(0)
       /\ UNCHANGED following
  ELSE /\ input' = [valid |-> TRUE, last |-> ring = 1, word |-> following]
       /\ Commits(ring - 1)
       /\ following' = After(following, NumWords)

(* The reader (Stream16to8) takes a word, or it does not; only then is one *)
(* that the HyperRAM delivers in this cycle put behind the others.         *)
Drained == {out} \union (IF out = <<>> THEN {} ELSE {Tail(out)})

(* out_fifo drops what is written to it when it is full.                   *)
Enqueued(q, word) == IF Len(out) = OutDepth THEN q ELSE Append(q, word)
-----------------------------------------------------------------------------
(* The controller (external), as far as the FIFO sees it: it strobes       *)
(* write_ready or read_ready once for each word, ends the burst with the   *)
(* word at which final_word is up, and takes its time to do so.            *)

final_word_when_full ==
  IF is_write THEN word_count = Depth - 1
              ELSE word_count = 1 \/ Len(out) = OutDepth - 1

final_word_when_empty ==
  IF is_write THEN word_count = Depth - 1 \/ input.last
              ELSE word_count = 1

final_word ==
  IF is_write THEN word_count = Depth - 1 \/ input.last
              ELSE word_count = 1 \/ Len(out) = OutDepth - 1

Transferring(write) == psram.state = "transfer" /\ is_write = write

Continue ==
  psram' = [state |-> IF final_word THEN "recovery" ELSE "transfer",
            address |-> After(psram.address, Depth)]

Start(write, address) ==
  /\ fsm' = "BUSY"
  /\ is_write' = write
  /\ psram' = [state |-> "transfer", address |-> address]
  /\ out' \in Drained
  /\ Source(FALSE)
  /\ UNCHANGED <<write_address, read_address, word_count, ram>>

CanWrite == input.valid /\ ~ full

CanReadUnlessInput == ~ input.valid /\ ~ empty /\ Len(out) < OutMsb

CanRead == ~ CanWrite /\ ~ empty /\ Len(out) < OutMsb

BeginWrite == fsm = "IDLE" /\ CanWrite /\ Start(TRUE, write_address)

BeginRead == fsm = "IDLE" /\ CanRead /\ Start(FALSE, read_address)

WriteWord ==
  /\ Transferring(TRUE)
  /\ ram' = [ram EXCEPT ![psram.address] = input.word]
  /\ write_address' = After(write_address, Depth)
  /\ word_count' = word_count + 1
  /\ Continue
  /\ out' \in Drained
  /\ Source(TRUE)
  /\ UNCHANGED <<fsm, is_write, read_address>>

ReadWord ==
  /\ Transferring(FALSE)
  /\ \E q \in Drained : out' = Enqueued(q, ram[psram.address])
  /\ read_address' = After(read_address, Depth)
  /\ word_count' = word_count - 1
  /\ Continue
  /\ Source(FALSE)
  /\ UNCHANGED <<fsm, is_write, write_address, ram>>

Recover ==
  /\ psram.state = "recovery"
  /\ psram' = [psram EXCEPT !.state = "idle"]
  /\ UNCHANGED fsm

Finish == fsm = "BUSY" /\ psram.state = "idle" /\ fsm' = "IDLE" /\ UNCHANGED psram

(* A cycle without a strobe: nothing to do, or waiting for the controller. *)
Wait ==
  /\ fsm = "IDLE" => ~ CanWrite /\ ~ CanRead
  /\ fsm = "BUSY" => psram.state # "idle"
  /\ UNCHANGED <<fsm, psram>>

Rest ==
  /\ Recover \/ Finish \/ Wait
  /\ out' \in Drained
  /\ Source(FALSE)
  /\ UNCHANGED <<is_write, write_address, read_address, word_count, ram>>

(* analyzer.discarding resets the FIFO (reset_on_start of top.py), what is *)
(* on the stream and the ring.                                             *)
Discard ==
  /\ fsm' = "IDLE" /\ is_write' = FALSE /\ psram' = Idle
  /\ write_address' = 0 /\ read_address' = 0 /\ word_count' = 0
  /\ out' = <<>>
  /\ ring' = 0
  /\ \E last \in {input.last, ring = 1} :
       input' = [input EXCEPT !.valid = FALSE, !.last = last]
  /\ UNCHANGED <<following, ram>>
-----------------------------------------------------------------------------
Run == BeginWrite \/ BeginRead \/ WriteWord \/ ReadWord \/ Rest

Next ==
  /\ IF discarding THEN Discard ELSE Run
  /\ discarding' \in BOOLEAN

Running(action) == ~ discarding /\ action /\ discarding' \in BOOLEAN

Discards == discarding /\ Discard /\ discarding' \in BOOLEAN

Takes ==
  /\ out # <<>>
  /\ Next
  /\ out' \in {Tail(out)} \union {Append(Tail(out), word) : word \in Word}

(* The clock runs, the controller gets on with a burst, and the endpoint   *)
(* behind the reader is polled.                                            *)
Fairness ==
  /\ WF_vars(Discards)
  /\ WF_vars(Running(BeginWrite \/ BeginRead))
  /\ WF_vars(Running(WriteWord \/ ReadWord))
  /\ WF_vars(Running(Rest /\ fsm' # fsm))
  /\ WF_vars(Running(Rest /\ psram' # psram))
  /\ WF_vars(Takes)

Spec == Init /\ [][Next]_vars /\ Fairness
-----------------------------------------------------------------------------
TypeOK ==
  /\ ring \in 0 .. RingWords /\ input \in Stream /\ following \in Word
  /\ fsm \in {"IDLE", "BUSY"} /\ is_write \in BOOLEAN
  /\ write_address \in Address /\ read_address \in Address
  /\ word_count \in 0 .. Depth
  /\ ram \in [Address -> Word]
  /\ psram \in Controller
  /\ out \in Seq(Word) /\ Len(out) <= OutDepth
  /\ discarding \in BOOLEAN

(* No strobe of the controller can lose a word or make one up: whenever it *)
(* may take a word the stream shows one and the HyperRAM has room for it,  *)
(* and whenever it may deliver one the HyperRAM holds it and out_fifo has  *)
(* room (final_word, the "last" of the stream, and the level at which a    *)
(* read begins).                                                           *)
EveryStrobeCounts ==
  /\ Transferring(TRUE) => input.valid /\ word_count < Depth
  /\ Transferring(FALSE) => word_count > 0 /\ Len(out) < OutDepth

(* The words in the HyperRAM, oldest first: they wrap at its end.          *)
Behind(address, n) ==
  IF address + n < Depth THEN address + n ELSE address + n - Depth

WordsAt(memory, address, n) ==
  [i \in 1 .. n |-> memory[Behind(address, i - 1)]]

InRam == WordsAt(ram, read_address, word_count)

Promise == INSTANCE StreamQueue WITH
  Capacity <- Depth + OutDepth, queue <- out \o InRam,
  input <- IF input.valid THEN <<input.word>> ELSE <<>>,
  output <- IF out = <<>> THEN None ELSE Head(out), void <- FALSE

(* Between the two strobes, the wrapping addresses and the output FIFO the *)
(* words stay a queue: none is lost, doubled, invented or overtaken.       *)
WordsQueued == Promise!Spec

(* Writing has priority over reading, and yet no word stays: as long as    *)
(* the reader takes what it is offered, what the HyperRAM holds gets       *)
(* there, or is discarded.                                                 *)
EveryWordLeaves ==
  \/ []<> (word_count = 0)
  \/ []<><<read_address' # read_address>>_vars

(* "...otherwise, read when FIFO is less than half full" (fifo.py, the     *)
(* comment on the read of state IDLE).                                     *)
ReadsWhenHalfEmpty ==
  [][BeginRead => 2 * Len(out) < OutDepth]_vars
=============================================================================
