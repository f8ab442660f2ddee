# Cynthion in TLA+

Cynthion is a USB test instrument: an FPGA board with three USB ports (TARGET,
CONTROL, AUX), gateware for it, firmware for a RISC-V core inside that gateware,
and Python tools on the host. This directory specifies the parts of it that are
concurrent or stateful enough to deserve a specification, checks them with TLC
and proves theorems about them with TLAPS.

Contents: [inventory](#inventory), [plan](#plan), [the CONTROL port](#the-control-port),
[the Moondancer class](#the-moondancer-class), [the IN endpoints of the TARGET port](#the-in-endpoints-of-the-target-port),
[the analyzer](#the-analyzer), [its FIFOs](#the-analyzers-fifos), [discovery](#discovery-descriptors-and-the-libgreat-registry),
[the example programs](#the-example-programs) (each with modules, runs, bounds, fairness), [findings](#findings), [proofs](#proofs), [not modelled](#not-modelled).

## Inventory

| component | source | state | operations |
|---|---|---|---|
| Control, the state machine of endpoint 0 | `firmware/smolusb/src/control.rs` | `next`, `configuration`, `rx_buffer` | one per event: bus reset, SETUP, IN complete, OUT packet |
| usb2 driver and interrupt handler | `firmware/lunasoc-hal/src/usb.rs`, `firmware/moondancer/src/util.rs` | controller registers, `TX_ACK_ACTIVE` | read, prime, write in packets, stall, set address, bus reset; interrupt to event |
| CONTROL port firmware | `firmware/moondancer/src/bin/moondancer.rs` | `EVENT_QUEUE`, queued libgreat response and error, the Apollo advertiser | main loop, vendor requests, execute / response / cancel |
| Moondancer class, the back end of Facedancer on usb0 | `firmware/moondancer/src/gcp/moondancer.rs` | event, control and packet queues, deferred address, quirks | 19 verbs, one event handler |
| libgreat parsing and class registry | `firmware/libgreat/src/gcp*.rs` | none | lookup of classes, verbs, documentation |
| Descriptors | `firmware/smolusb/src/device.rs`, `descriptor*.rs` | none | lookup and serialisation |
| example devices: serial port, HAL test, speed test | `firmware/moondancer/examples`, `smolusb/src/class/acm.rs` | `EVENT_QUEUE`, Control, the test in progress | class and vendor requests, bulk packets |
| firmware, selftest, gpio classes; logging; HAL | `firmware/moondancer/src/gcp/*.rs`, `log.rs`, `lunasoc-hal/src` | registers | stateless verbs, register accessors |
| USB analyzer gateware | `cynthion/python/src/gateware/analyzer/analyzer.py` | ring of bytes in memory, read / write counters, capture FSM | capture a UTMI packet, stream out |
| analyzer FIFOs | `.../analyzer/fifo.py` | ring in HyperRAM, word splitter, async FIFO | write, read, reset |
| analyzer vendor requests | `.../analyzer/top.py` | capture enable, speed | control requests |
| Facedancer SoC, platforms, advertiser | `.../gateware/facedancer`, `.../platform` | wiring, pin tables | |
| host tools | `.../commands`, `interfaces/gpio.py`, `selftest` | pool of GPIO pins; process I/O | flash, run, update, GPIO |

How they interact. The host talks to the firmware through control transfers on
endpoint 0 of usb2 (the CONTROL port). The usb2 controller raises four kinds of
interrupt; the interrupt handler turns each into an event in `EVENT_QUEUE`; the
main loop takes events one at a time and gives those of usb2 to `Control`. `Control`
answers standard requests by calling the driver, and returns vendor requests to
the main loop, which runs the libgreat command sequence: *execute* carries a
command to a class, *response* reads its answer, *cancel* reads its error. The
verbs of the Moondancer class drive usb0 (TARGET), whose interrupts take the same
road into the queues of that class, from which the host polls them by further
verbs.

What is hard, and what must be right:

* **Control.** Events arrive in the order the interrupt handler chose and after
  the fact; the host may already be in its next transfer. A state out of step
  drops what it does not expect, so no SETUP may find Control in a state that
  does not accept one, an address must not change too early, and a buffer shared
  by all requests must hold exactly one request's data.
* **Driver.** `write_with_packet_size` spins on a flag that the interrupt
  handler clears; the host may never take the packet, so both spins time out and
  leave a half-written answer behind. No two packets may merge, no answer may leak
  into another transfer, and the port must recover from every time-out.
* **Interrupt handler.** It takes pending interrupts by number, not by arrival;
  `EVENT_QUEUE` has 64 slots and an overflow stops the core for good.
* **Command sequence.** The outcome of a command outlives the transfer that
  produced it: the outcome the host reads must be that of its last command, and a
  stall must reach the transfer it is meant for.
* **Moondancer class.** Queues of fixed capacity filled by events and drained by
  verbs, an address change deferred across them, sessions that start over.
* **Analyzer.** A ring with a reader and a writer that patches headers behind the
  reader's back; overruns must neither corrupt nor reorder packets.
* **Analyzer FIFOs.** Bursts that cannot be stalled, counters that cross clocks in Gray code, and a discard that
  resets one side of the crossing while the other may be writing.
* **Example devices.** Endpoint 0 and the bulk endpoints share one FIFO each way, one enable bit for OUT, and one event queue;
  who primes what, and when, decides whether a packet is kept.
* **Registry, descriptors, GPIO.** Pure lookups with boundary cases.

Every hazard is listed at its line in `PROJECT.json`, with the properties that
cover it, or the reason why none does yet.

## Plan

1. Done. `Endpoint0` (registers and driver of endpoint 0), `Control` (EXTENDS it: the
   state machine), `ControlPort` (EXTENDS that: interrupt handler, event queue,
   main loop, command sequence, host). `MCControlPort` instantiates it. Proof
   modules `Endpoint0_proofs`, `Control_proofs`, `ControlPort_proofs`.
2. Done. `Moondancer` (EXTENDS `Endpoint0`): events of usb0 into `irq_queue`, `control_queue` and
   `packet_buffer`, verbs interleaved with them; it implements `EventStream`. Proof module `Moondancer_proofs`.
3. Done. `InEndpoints`: `write_endpoint`, the transmit FIFO that the IN endpoints of usb0 share,
   and the acknowledgement of SET_ADDRESS in it. Proof module `InEndpoints_proofs`.
4. Done. `Analyzer`: the capture state machine over a ring of bytes, with a reader,
   which implements `PacketLog`, a log from which whole packets are read in order. Proof module `Analyzer_proofs`.
5. Done. `Descriptors`, `Devices`, `Libgreat`: serialisation and lookup as functions;
   `Discovery` composes them with a host that learns from one reply what to ask next.
6. Done. `PacketFifo` and `ClockCrossing`: the stages between the ring and the USB endpoint, each of which implements
   `StreamQueue`, a queue with a discard. Proof modules `PacketFifo_proofs`, `ClockCrossing_proofs`.
   `AnalyzerStages` (EXTENDS both) runs them.
7. Done. `ExampleDevice` (EXTENDS `Control`): what the example programs share; `AcmSerial`, `UsbHal`, `SpeedTest` (EXTEND it);
   `Examples` runs whichever of them is in flash.
8. Done. `CommandChannel`: what the CONTROL port promises a client of libgreat (a command is
   executed once; its outcome is read at most once and never mistaken for another's);
   `ControlPort` implements it for a host that finishes its transfers, and for accepted commands that is proved.
9. Next. Further proofs: the same refinement with refused commands; `EventsDelivered` of `Moondancer`; the safety properties of the example devices, program by program.

## The CONTROL port

### Modules and the code

| module | models |
|---|---|
| `Endpoint0` | `lunasoc-hal/src/usb.rs` for endpoint 0: one record `u` with the contents of both FIFOs, the prime, stall and enable bits, pending interrupts, `TX_ACK_ACTIVE`, the address and the position inside `write_with_packet_size`. One operator per driver call, record to record. |
| `Control` | `smolusb/src/control.rs`: one action per arm of `dispatch_event`. |
| `ControlPort` | `moondancer/src/bin/moondancer.rs` and `util.rs`: `MachineExternal` (interrupt), `MainLoop`, `WriteStep` (one look at a spin condition), `HandleVendorRequest`; and the host: `HostSetup`, `HostIn`, `HostOut`, `HostTimeout`, `HostBusReset`. |
| `CommandChannel` | the promise to a client of libgreat, abstractly: `Send`, `Execute`, `Respond`, `Cancel`, `Read`. A command is *sent* from its acknowledgement until `dispatch_libgreat_request` returns, an *outcome* is what the two `libgreat_response` variables hold, an *answer* is what `write` still has to give to the host. That every command sent is executed, and every answer begun is read, is part of it. |

Data is counted in packets. An answer is a sequence of packets, all full but
perhaps the last, tagged with the transfer it answers and, for a command, with
the bytes of that command. A `Response` gets the whole answer of the class (`WholeAnswers`), up to `MaxAnswer` packets: `write_requested` looks at wLength only to
leave out a zero-length packet and does not cut the answer, so what is longer than wLength stays behind for the next transfer (finding 11). The hosts of `ControlPort_polite` and
`ControlPort_sequence` therefore ask for `MaxAnswer` packets, as the clients of libgreat ask for the largest command; the host of `ControlPort_giveup` asks for less. What Control itself answers it cuts first, and
the four bytes of a cancel fit one packet. `rx_buffer` is a sequence of OUT packets, each known by
transfer and position. Requests of one arm of the match share a kind; the value of
an *Execute* says whether the addressed class accepts the command (0) or refuses it.

The core is single: the interrupt handler may run between any two steps of
the main loop, and the main loop steps only when no interrupt is pending. A handler
or an arm of `dispatch_event` is one step, except where it spins: `WriteStep` splits
`write_with_packet_size` at both loops, and that is where interrupts and the host interleave
with it. Interrupts cannot change what the unsplit code reads: the handler touches
registers of usb2 only to acknowledge, to read SETUP packets and for the bus reset.

The gateware of the controller (luna-soc) is not in the repository. The
operators that stand for it are marked external and follow the register
documentation of `moondancer-pac/svd/lunasoc.svd`; three points are assumptions:

* a SETUP token clears a stall in both directions (documented for IN);
* it does not discard a primed IN packet. The weaker assumption makes the properties
  of the give-up runs harder, not easier;
* `stall_endpoint_in` writes the endpoint number after the stall bit; the
  zero-length packet this would prime does not survive the stall.

A driver time-out (`DEFAULT_TIMEOUT` iterations) fires only while the host does not
want the packet: a host that waits polls far more often. Likewise the host speaks after
a bus reset only when the reset has been handled; a reset lasts 10 ms.

An overlong command (`control.rs:344`) is dropped packet by packet, its end is never noticed and
it is never acknowledged; the hosts of libgreat do not send one, and only `ControlPort_giveup`
does.

Left out: events of usb0 and usb1, `Error` events (a SETUP interrupt without eight
bytes, which this controller does not raise), remote wake-up and endpoint halt behind
SET_FEATURE, the tick counter and logging.

### Runs

| run | host | shows |
|---|---|---|
| `ControlPort_polite` | finishes every transfer and asks for whole answers; every standard request, accepted commands | `SetupNeverDropped`; `AnswersIntact`: no answer or acknowledgement leaks into another transfer and the IN FIFO holds one packet; `NoStrayStall`: no request that must be served is stalled; `AddressChangesAfterStatus`; `Answered`: every transfer is; `CommandsServed`: the port implements `CommandChannel` |
| `ControlPort_sequence` | execute, response, cancel, with refusals; a write of a legacy board, which is stalled on IN | `CommandsServed` with refusals: a client that follows the sequence reads the outcome of its own last command even though the stall of a refused command races the next SETUP |
| `ControlPort_retry` | gives up once at any moment, resets once at any moment | `Recovers`: a host that keeps trying succeeds again, so the event queue did not overflow either |
| `ControlPort_giveup` | long commands, given up anywhere, responses asked for less than the answer, small queue | `RxBufferBounded`, `OneOutcome`: `rx_buffer` is never overrun, a command has one outcome, even after a queue overflow |

`TypeOK` is checked in one run of each module.

Bounds. Two transfer identities are enough to tell a transfer from its
neighbours, because an answer is at most one transfer late; two packets of wLength
give every shape of an answer: empty, short, exactly full, full and short, full and
zero-length. An answer of *k* packets queues at most *k* + 2 events, hence queues of 3,
4 and 8 slots; the real one holds 64, and no request of the firmware has an answer that
long (a libgreat answer is at most 16 packets of 64 bytes and an empty one). One early time-out and one reset
at any moment exercise each recovery path; `ControlPort_giveup` leaves out resets
and uses one identity to afford longer commands.

Fairness. Weak fairness of the four firmware actions: the core always executes.
Weak fairness of `Tokens` (a host that opened a transfer keeps polling) and of
`HostTimeout` (an unanswered host gives up). Nothing obliges a host to open a
transfer. `Recovers` speaks only of a host that opens transfers for ever.

`Recovers` is checked for requests without host data. With host data it does not
hold in the model: a time-out may leave the OUT endpoint primed, and if the host's
data always arrives before its SETUP is dispatched, priming discards it each time.
Whether that can persist depends on the host's timing, so it is recorded as a
hazard and not as a finding.

## The Moondancer class

`Moondancer` models `gcp/moondancer.rs` together with usb0's part of the interrupt handler
and of the main loop. Its controller is a record of `Endpoint0`; usb0 has several OUT
endpoints behind one FIFO, so two variables are added: `primed`, the endpoints that may
receive, and `data_ep`, the endpoint of the packet in the FIFO.

An event of the hardware takes this road. The interrupt handler puts it in
`EVENT_QUEUE`; `dispatch_event` (`OnBusReset`, `OnSetAddress`, `OnSetup`, `OnSendComplete`,
`OnReceivePacket`) answers SET_ADDRESS itself, moves a SETUP packet to `control_queue` and a data
packet from the FIFO to `packet_buffer`, and appends the event, without its data, to
`irq_queue`. The client fetches all of `irq_queue` (`GetInterruptEvents`), and then, event by
event, the data (`ReadControl`, `ReadEndpoint`). Event and data are joined again only by
their position in their queues, which is what the properties are about.

Verbs are executed by the main loop in turn with usb0's events. The command sequence that
carries them is the subject of `ControlPort`; here `ClientCalls` puts a "Verb" into
`EVENT_QUEUE`, for the events of usb2 that end with the execution, and the client waits until
the verb has returned. `write_control_endpoint` and the SET_ADDRESS acknowledgement spin inside the
driver, and `WriteStep` splits them there; every other verb is one step.

The client is external. It answers its events: it fetches when it has dealt with what it had,
reads the data of each event, answers or stalls the request it read, may arm OUT endpoints at
any time, and disconnects at any time while it has connections left. With `Careful` it leaves an
OUT interface it has armed alone until it sees the packet. That rule is the class's own: the
three verbs that arm OUT, and `stall_endpoint_out`, discard what is in the FIFO. The
host is external too: `Patient` finishes its control transfers, otherwise it opens the
next one whenever it likes. A time-out of the driver fires only while the host is not polling for the packet.

| run | actors | shows |
|---|---|---|
| `Moondancer_patient` | patient host, careful client, control transfers and packets to two endpoints | `EventsDelivered`: the four queues implement `EventStream`, so each event reaches the client once, in order, with the data the host sent; `NeverStuck`: no queue overflows |
| `Moondancer_restart` | a host that abandons transfers and resets the bus, two connections | `EventsDelivered` across abandoned transfers, resets and disconnects; `VerbsAnswered`: every verb returns |
| `Moondancer_full` | as above with one connection and queues of 1, 2 and 4 slots | `StopsOnlyWhenFull`: a main loop that stops has stopped for a full `control_queue`: dropped events never send it to read a packet that is not there |

Bounds. In `Moondancer_patient` the queues hold 4 events (the fewest that suffice, see the proofs), 3 interrupt events, 1 SETUP packet and 2
packets. The real ones hold 64, 63, 7 and 4, so what does not overflow here does not
there; a careful client has at most one packet fetched and one waiting, a patient host one request. Three
transfers and three packets put two packets of one endpoint in the buffer next to a
request. In `Moondancer_restart` the queues are too large to overflow, and packets carry no data
(a bus reset or disconnect empties the FIFO of a packet already announced, which is then
delivered with no data; `EventsDelivered` would say so). One reset and two connections
suffice for an event of the old session to meet each queue of the new one. `Moondancer_full` does
not check deadlock: it is about the states in which the main loop or the core has stopped.

Fairness. The core executes (`MachineExternal`, `MainLoop`), and a host that polls takes what is
primed (`TargetIn`). No fairness of the client: `VerbsAnswered` is a promise of the device.

The mapping to `EventStream` reads the queues as the client will: the n-th event of a kind gets the
n-th datum of its queue, an event still in `EVENT_QUEUE` gets the datum it will be given. It
lets a disconnect lose what was dispatched and nothing else lose anything.

Left out: IN endpoints other than 0, which are the subject of `InEndpoints`; the `set_address` verb
(the class answers SET_ADDRESS itself); clearing an endpoint halt, which resets the PID toggle, a register that
is not modelled; the NAK status; test verbs; argument errors; the response of a verb getting lost.

## The IN endpoints of the TARGET port

`InEndpoints` models the one transmit FIFO behind all IN endpoints of usb0 and what two writers do
to it: `write_endpoint` for the client, and `write_with_packet_size` for the acknowledgement of SET_ADDRESS
(a write of no bytes to endpoint 0). A byte is known by the call that wrote it and its position.
Each spin loop, each byte and each write of `epno` is a step, because the interrupt handler and the bus run between any
two of them: `Drain` / `DrainTimeout` (wait for an empty FIFO), `WriteByte`, `EndPayload`, `Prime`, `Sent`,
`WriteDone`, `WriteTimeout`. The interrupt handler reads `epno` to learn whose packet has left
(`OnEpIn`), and `SendComplete` applies the pending address whichever endpoint that was. The host of the
TARGET port assigns addresses, polls the endpoints it likes, and resets the bus; the client calls when it likes.

| run | actors | shows |
|---|---|---|
| `InEndpoints` | a host that polls none, some or all of two endpoints, one bus reset, two addresses; a client that writes three payloads of less than a packet, a packet, a packet and a half | `SinglePacket` and `Delivered`: what is read is what was written, unmixed, in order and not twice, although both endpoints and the acknowledgement share the FIFO and any write may time out half-way, and a blocking write that succeeds was taken whole; `AddressAfterAnswer`: no other packet's SendComplete applies an address early, unless a bus reset already waits in the queue; `Enumerates`: a packet that no host took does not keep the device from being addressed; `CallsReturn` |

Bounds. Packet sizes of 2 and 1 give a payload that is short, exactly full, and full and short; three calls let a call meet
what a failed one left in the FIFO while a third is to come. One reset falls anywhere, two bytes of a packet included.

Two rules of the client are assumed and are not enforced by the class. It splits payloads itself (`NoEmptyPackets`), as the comment at
`moondancer.rs:764` says Facedancer does: a payload of several full packets is ended by a zero-length packet, which the wait for
an empty FIFO does not see (`have` is not set by it, `moondancer.rs:705`), so the next call's bytes become
that packet and the host reads them under the wrong transfer; with such a payload TLC refutes `Delivered`.
And it does not call while the host assigns an address (`Late = FALSE`): a bus reset lasts 10 ms or more, in which the
client fetches the BusReset event. With `Late = TRUE` TLC refutes `AddressAfterAnswer`: bytes enter the FIFO while the
acknowledgement is primed, the host reads data in a status stage, and the address is taken all the same. The other properties
hold of a late client too, and so say the theorems.

A bus reset makes an exception to `AddressAfterAnswer`. The SendComplete of an acknowledgement may wait in the queue when the bus is reset and
the host, after the reset, asks for another address and has its answer: the old address is applied before the queued reset undoes it. With two resets and two
addresses TLC finds it. With the one reset of the run the case does not occur, but for the theorem the property says which steps are excepted: those before a queued reset.
An endpoint is configured before it is written to; otherwise its packet
size is 0, and the first byte divides by it.

Fairness. The core executes (`MachineExternal`, `MainLoop`: weak). `HostTakes` is strongly fair: a host that polls an endpoint again and
again takes what is primed there; weak fairness would let a host look only while nothing is primed. A host that asked for an address of
a silent device gives up. None of the client, and nothing obliges a host to begin: `Enumerates` speaks of one that keeps trying.
A deadlock is no error, because client and host may both have finished.

## The analyzer

`Analyzer` models `gateware/analyzer/analyzer.py`. One step is one cycle of the usb clock (60 MHz) with the two cycles of
the sync clock (120 MHz) in it: `Cycle` has one disjunct for each state and condition of the core FSM, and
`Sync` makes the two memory writes that the write FSM spreads over the two sync cycles, the commit of the words, and the reader's pops. The UTMI
receiver and the host's `capture_enable` are external inputs of the next cycle. Word addresses and the
count of words wrap as the signals do. A reader that takes a word in any sync cycle or none stands for the stages
behind the ring, which are the subject of the next section, and a host that sets `capture_enable` when it likes for the vendor requests.

`PacketLog` is the promise to that reader: a log of entries, each a size, a time and the bytes, appended whole when a
packet ends. `Analyzer` writes the bytes first and the header last, around the reader, and `PacketsLogged` is the
refinement: `log` is the words committed and unread, `out` the stream. The padding byte of an odd packet is what memory
held before and is left open. The promise is void after an overflow (`overfull`, a history variable) until the next start.

| run | actors | shows |
|---|---|---|
| `Analyzer_capture` | two packets of up to three bytes with any spacing, a reader of any speed, a host that starts the capture up to twice and stops it anywhere | `PacketsLogged`; `OverflowsOnlyWhenTight`: the check on each byte is enough but for headers and events |

Bounds. All bytes are different (`ByteOf`; the theorems hold for any bytes). A ring of eight words holds a packet of three bytes (four words) and most of a second: the second wraps and may fill it.
Time counts modulo 2, so a timestamp event comes at every turn that no packet takes. `View` in `MCAnalyzer` takes states as equal that differ only in memory that is written before it is read
again, or in registers of a packet that is over; the invariants and the refinement read neither (the padding of an odd
packet is the exception, and the promise leaves it open). No fairness: nothing is promised about when.

## The analyzer's FIFOs

Between the ring and the USB endpoint the stream passes three stages of `gateware/analyzer/fifo.py`, put together in `top.py`:
`HyperRAMPacketFIFO` buffers words in external memory, `Stream16to8` makes two bytes of a word, and `AsyncFIFOReadReset` carries the bytes from
the sync clock to the usb clock. `analyzer.discarding` empties all of them when a capture starts. All promise the same, which `StreamQueue` says
once: a queue, with a discard; `PacketFifo` and `ClockCrossing` both implement it.

`PacketFifo` is the first stage. One step is one cycle of the sync clock: `BeginWrite` and `BeginRead` are the two arms of state IDLE, `WriteWord`
and `ReadWord` are the strobes of a burst, which no condition of the FIFO can stop, `Recover` and `Finish` end it. The HyperRAM
controller and `SyncFIFOBuffered` are library components: the controller strobes as many times as it is let, with any pauses, and stops
at the strobe at which `final_word` is up; the output FIFO drops what it is given when it is full. In front of it is the analyzer's stream, where
packets commit words to the ring at any time and `last` is as old as the word it goes with.

`ClockCrossing` is the two stages behind it. Each step is a sync cycle, every second one ends with an edge of the usb clock. The counters cross in Gray code
through two flip-flops each way; with `Skewed` a code caught while it changes may be any mixture of old and new bits, whether or not the two
counters can differ in only one. `stale` marks bytes accepted before the last discard and `dirty` a discard with a write in flight; both are history.

`AnalyzerStages` puts the two side by side, one of them in sight in each behaviour (`stage`): what comes between them, `last` and the levels, neither of
them looks at, so each meets every neighbour and not only the other. What they share, the words and `discarding`, is declared in `AnalyzerStream`.

| run | actors | shows |
|---|---|---|
| `AnalyzerStages` | the FIFO: a ring that fills at any time, a controller of any speed, a reader of any speed, a discard at any time; the crossing: words at any time, a host that reads at any time, discards at any time, skewed codes | `EveryStrobeCounts`, `WordsQueued` (the FIFO implements `StreamQueue`); `BytesQueued` (so does the crossing, across the clocks); `CrossingSound`: however busy the crossing at the discard, no byte is overwritten and nothing stale comes behind the new; `EverythingLeaves`: writing first does not starve reading in either |

Bounds. Four words of HyperRAM and four of output FIFO let each of them fill, empty, and wrap within one burst and across several, and every combination
of levels occur; two words tell neighbours apart (the source numbers them modulo `NumWords`, so a word lost or doubled shows). `DepthBits` is the code's own, 2.
The proofs for `PacketFifo` and `ClockCrossing` have no bounds.

Fairness (`StagesFairness`). The clock runs, so the FSM of the FIFO leaves a state it can leave, a discard under way goes through, and the crossing ticks; the controller goes on with a
burst and recovers; the endpoint behind is polled, so that a word offered is taken (`Takes`, weak; `Read`, strong, since the byte may be withdrawn by a discard).

Left out: the levels of the asynchronous FIFO, depth 0, and `StreamFIFO`, which is wiring.

## Discovery: descriptors and the libgreat registry

`Descriptors` serialises every descriptor type of `smolusb` byte by byte (lengths, numbers, types and indexes are real, other fields
are zero) and gives the reply of `Descriptors::write` (`Write`) and of the Microsoft request (`Microsoft`): data, a zero-length packet, a stall or
a panic. `Devices` holds the tables of the CONTROL port and of the three example devices (serial port, speed test, HAL test), with the serial number as `read_flash_uuid` and
`format_flash_uuid` make it: 8 to 16 characters, because small bytes get one digit and an unread flash gives zeros. `Libgreat` is the registry: tables of classes and verbs
with their signatures, `Find`, the verbs of the core class, and what the dispatchers of the other classes refuse and how long their answers are.
`Discovery` composes them with a host (external) that asks for what it has learned: the strings that descriptors name, the vendor code of the Microsoft string, the verbs of
listed classes, a call as its `in_signature` says.

| run | devices | shows |
|---|---|---|
| `Discovery` | the CONTROL port with a serial number of mixed digits and with an unread flash; the three example devices | `DescriptorsConsistent` (`ConfigurationParses`, `IndexesResolve`, `MicrosoftConsistent`): descriptors parse to the end, indexes resolve, the tables agree with each other; `TransferEnds`: every reply ends its transfer (a libgreat response is asked for with the size of the largest command, so none is longer than wLength); `ListedVerbsAnswer`: the tables of verbs agree with the dispatchers |

Bounds. `wLength` is 9, 18, 64, 255 and the total lengths learned: the lengths that operating systems ask with, one
packet, and the most a byte can say. Arguments of up to 12 bytes cover the signatures but for payloads. No fairness: each reply is a step.

Divergences seen while modelling. None is reached by this host, which is why each is in a precondition or an exception that names it.

* `get_verb_descriptor` publishes `<III` and reads two words and a byte (`class_core.rs:90` and `:218`); a client that calls it as published is refused.
* A string index one past the last passes the check of `device.rs:142` and panics. No descriptor names it.
* The Microsoft string is not cut to `wLength`; the host asks for at least 18 bytes.
* In `acm.rs` the other-speed configuration has the type of a configuration, its interrupt endpoint is declared bulk, and the qualifier has another packet size than the device.
* `bLength` of a string counts its bytes in UTF-8 and wraps at 256; the strings of the repository are short and ASCII.

## The example programs

`firmware/moondancer/examples` holds three complete USB devices on usb0. `ExampleDevice` is what they share: the interrupt handler that queues
events, the part of the main loop that gives those of endpoint 0 to `Control` (the same module as for the CONTROL port), and a controller whose bulk endpoints
stand next to endpoint 0. The driver of `Endpoint0` is used for all endpoints; which of them is meant is kept beside it: `primed`, `out_epno` (the endpoint
selected to be primed), `data_ep` (the endpoint of the packet received), `in_epno`, `write_ep`.

| module | program | its own actions |
|---|---|---|
| `AcmSerial` | `acm_serial.rs`, a serial port that echoes | `ReceiveData`, `DataSent`, `HandleClassRequest`; the host opens the port, sends, reads, closes |
| `UsbHal` | `usb_hal.rs`, data moved as vendor requests tell | `ReceiveBulk`, `HandleVendorRequest` with an arm for each request, split where it waits (`BulkIn`, `BulkInTimeout`); the host runs the four tests of `scripts/usb_hal.py` |
| `SpeedTest` | `bulk_speed_test.rs`, a stream of test data started and stopped by commands | `BulkEvent`, `TestInSpeed`; the host runs `scripts/bulk_speed_test.py` |
| `Examples` | whichever of the three is in flash | none: it instantiates the three, each with the size its source gives `EVENT_QUEUE` (16, 64, 32) |

Driver calls are one step but for `write_with_packet_size`, as for the CONTROL port. `TX_ACK_ACTIVE` has a bit for each endpoint; one is enough here, as a program waits only
for the endpoint it has just written to. The programs do not build against this version of `smolusb`, whose `Descriptors` has a field `microsoft10` that they do not set; they are
modelled as if they set None. Statistics and messages are left out, but for the message that panics. It does so for any packet shorter than eight bytes; the host sends commands of one byte and whole packets of data, so that only a packet found empty is that short.

How soon the host goes on within a transfer decides some of what follows, so it is a constant. `OutAt` says when an OUT packet of endpoint 0 may arrive: before the interrupt of
what came before it is handled ("sent"), while its event is queued ("queued"), or after that ("handled"). A host that misses its moment gives up. The HAL test
is checked with all three. The serial port is checked with "handled": at any other pace endpoints 0 and 4 may both be primed with a packet on its way, which is finding 5. The speed test is checked
with "queued": a comment of `usb_hal.rs` measures 100 us from interrupt to dispatch, within which a host comes back, and at either other pace it runs into finding 8.

A behaviour of `Examples` is that of one program (`program`) on a calm bus or on one with a reset (`calm`); neither changes. The properties are conjunctions over the programs:

| run | program | shows |
|---|---|---|
| `Examples` | serial port: a host that opens and closes the port between other requests; short packets, as fast as they are accepted | `DataExact` (`EchoInOrder`): every echo is exact and in order; `Served`: every packet is echoed |
| | HAL test: the four tests in any order, for ever | `DataExact` (`BulkExact`, `AnnouncedPacketKept`): payloads arrive as sent, no packet is discarded between its interrupt and its event; `Served`: every test passes |
| | speed test: both tests, enumeration and one bus reset, by a host that leaves the device at rest in between and, beside a command, makes only control transfers without data (`Unhurried`) | `DataExact` (`WholePackets`): test data comes in whole packets; `CommandObeyed`: every command, Stop too, has its effect, also if SET_ADDRESS or SET_CONFIGURATION stand in the queue beside it; `Served`: tests end |
| | serial port and HAL test with one bus reset anywhere, of which they do not tell Control | `Recovers`: the first SETUP may be dropped, a host that goes on is served; of the HAL test, one that repeats a test other than BulkIn |
| | all | `NeverHalted`: nothing panics, and no event queue overflows (these hosts do not come near 16, 64 or 32 events) |

Bounds. Three packets and three transfer identities in the serial port tell a packet from its neighbours on both sides; two of each kind where a reset may come, and of the HAL test then one that goes each way. In the HAL test
payloads of nothing, one short packet, and one full and one short give every shape of an answer. In the speed test a test of two packets has one to
come back for; a stream of test data keeps at most one event in the queue for each packet, and 32 slots are never filled by it. One reset anywhere meets every state of
each program.

Fairness. The core executes, and a host goes on with what it has begun: weak fairness of each. In `SpeedTest` the stream rewrites the FIFO again and again, so a bulk packet is not offered
without interruption; the bus gives every endpoint with a transfer a turn, hence strong fairness of the host's bulk steps there. Nothing obliges a host to begin.
The three programs have the same kinds of steps, and `Examples` states the fairness of each kind once for all of them: as the program never changes, that is the fairness of the one in flash.

Two things TLC showed limit a property. A bus reset in the middle of BulkIn leaves the empty packet primed behind the program's wait; the host takes it for the answer to its next request,
whose own answer is then left behind, and so on: `Recovers` excepts that test. And when an IN test ends, a packet of test data stays primed: the next answer of endpoint 0 waits
for it until the driver times out and gives up, so the first control transfer afterwards fails.

## Findings

Eleven places where the program does something other than its comments say. TLC refuted the property named, which stands in the module, with the change of an instance given
here; the runs of the project leave these cases out, and the hazards in `PROJECT.json` name the finding.

1. `SetupNeverDropped` of `ControlPort`, with a request for a descriptor that does not exist (`GetDescriptor`, value 1) among those of `ControlPort_polite` (`control.rs:178`). GET_DESCRIPTOR
   sets the state to Send before the descriptor is looked up. When there is none, nothing is sent, no SendComplete follows, and the next SETUP finds Send:
   it is neither handled nor returned, as `control.rs:83` says it would be, but dropped.
2. `OverrunWhenOverfull` of `Analyzer`, as in `Analyzer_capture` (`analyzer.py:248`). Headers and timestamp events reserve their words
   without a look at the room left, and fullness is tested by equality. With one or two words free the count wraps, unread words
   are lost, and OVERRUN is not entered; `analyzer.py:39` calls the signal "asserted iff" that happens.
3. `ReadsWhenHalfEmpty` of `PacketFifo`, as in `AnalyzerStages` (`fifo.py:124`). The comment at line 123 says "read when FIFO is less than half full". The top bit of the level of a FIFO of 128 words
   is set only when it is full: reads begin for as little as one word.
4. `NothingStale` of `ClockCrossing`, as in `AnalyzerStages`, with or without skew (`fifo.py:298`). The discard sets the read counter to the write counter as the read side sees it, two edges old: the bytes
   written in between survive, and are sent in front of the new capture (`top.py:350` says they are discarded).
5. `EventNamesEndpoint` of `AcmSerial`, with `Orderly = FALSE` (`acm_serial.rs:122`). The handler reads `epno`, the endpoint selected to be primed, where the other programs read `data_ep`.
6. `EveryPacketEchoed` of `AcmSerial`, with `FullPackets = {1, 2}` (`acm_serial.rs:250`). The echo of a full packet completes twice, each completion primes endpoint 4, and
   the second discards the packet received after the first.
7. `TestsPass` of `UsbHal`, with a BulkOut of two packets (`usb_hal.rs:312`). The bulk OUT endpoint is primed once for each request, and `scripts/usb_hal.py:42` announces payloads of up to four packets.
8. `TestsEnd` of `SpeedTest`, with `OutAt = {"handled"}` (`bulk_speed_test.rs:264`). The one enable bit of the OUT endpoints is cleared by a packet of endpoint 0, and then
   nobody primes: no command is ever accepted again.
9. `NeverHalted` of `SpeedTest`, with `Unhurried = FALSE` (`bulk_speed_test.rs:314`). A command discarded by the priming of endpoint 0 is read as no bytes, and `bytes_read - 8` underflows
   where line 308 means to report an invalid command and go on.
10. `AnswerKept` of `SpeedTest`, with `Unhurried = FALSE` (`bulk_speed_test.rs:399`). "Wait for fifo endpoint to be idle" is a wait of a hundred polls, after which the FIFO is emptied: an answer of
    endpoint 0 in it is lost.
11. `AnswersIntact` and `Answered` of `ControlPort`, with a `Response` of one packet among the requests of `ControlPort_polite` (whose host is then no `PoliteHost`). `smolusb/src/traits.rs:97` says that `write_requested`
    writes "the requested number of bytes from the iterator"; `lunasoc-hal/src/usb.rs:490` writes all of them. The rest of an answer that is longer stays primed, and the next transfer reads it; its own
    answer is then left behind or, if its host has seen enough, nothing primes OUT for its status stage.

Others were met on the way and are recorded with the hazard they belong to. Each limits a property or a bound as said there.

* SET_CONFIGURATION of an unknown configuration stalls OUT, but its status stage is IN (`control.rs:196`): the host waits until it gives up.
* The stall of a refused command is raised after the host has its acknowledgement (`bin/moondancer.rs:508`). If the SETUP of the Response comes first
  it is cleared, and `dispatch_libgreat_response` writes nothing when an error is queued. `CommandsServed` holds all the same.
* A SendComplete queued before a bus reset restores the address after it, in `control.rs:318` and in `gcp/moondancer.rs:136`. In the second
  `AddressAfterAnswer` says that only then, while the reset waits in the queue, can the address be one the host has had no answer to.
* `disconnect` flushes `irq_queue` and `control_queue` but not `packet_buffer` (`gcp/moondancer.rs:287`): the next session's first
  `read_endpoint` of that endpoint returns a packet of the old one and stays one behind.
* The zero-length packet and the late client of `write_endpoint`, above.

## Proofs

Twenty-three theorems, each of its component's specification (`Spec`, or `CrossingSpec` for the clock crossing) and for every value of the constants.

| theorem | states |
|---|---|
| `ControlPort_proofs!TypeCorrect` | `TypeOK` of the CONTROL port |
| `ControlPort_proofs!RxBufferSafe` | `RxBufferBounded` |
| `ControlPort_proofs!OutcomeUnique` | `OneOutcome` |
| `ControlPort_proofs!SetupsAccepted` | `SetupNeverDropped`, if `PoliteHost` |
| `ControlPort_proofs!AnswersUnmixed` | `AnswersIntact`, if `PoliteHost` (which includes that a `Response` asks for the longest answer) |
| `ControlPort_proofs!StallsDeserved` | `NoStrayStall`, if `PoliteHost` |
| `ControlPort_proofs!AddressKept` | `AddressChangesAfterStatus`, if `PoliteHost` |
| `ControlPort_proofs!QueueSuffices` | the event queue never overflows, if `PoliteHost` and it holds `MaxLength + 2` events |
| `ControlPort_proofs!CommandsInOrder` | the safety part of `CommandsServed`: it implements `CommandChannel`, under the same conditions |
| `InEndpoints_proofs!TypeCorrect` | `TypeOK` of the IN endpoints |
| `InEndpoints_proofs!FifoHoldsSinglePacket` | `SinglePacket` |
| `InEndpoints_proofs!WritesAreDelivered` | `Delivered`, if `NoEmptyPackets` |
| `InEndpoints_proofs!AddressTakenAfterAnswer` | `AddressAfterAnswer`, if not `Late` |
| `Moondancer_proofs!TypeCorrect` | `TypeOK` of the Moondancer class |
| `Moondancer_proofs!StopIsFull` | `StopsOnlyWhenFull` |
| `Moondancer_proofs!QueuesSuffice` | `NeverStuck`, if `Obliging` |
| `Analyzer_proofs!TypeCorrect` | `TypeOK` of the analyzer |
| `Analyzer_proofs!OverflowIsTight` | `OverflowsOnlyWhenTight` |
| `Analyzer_proofs!CaptureImplementsLog` | `PacketsLogged`: it implements `PacketLog` |
| `PacketFifo_proofs!StrobesCount` | `EveryStrobeCounts` of the HyperRAM FIFO |
| `PacketFifo_proofs!FifoImplementsQueue` | `WordsQueued`: it implements `StreamQueue` |
| `ClockCrossing_proofs!CrossingStaysSound` | `CrossingSound` of the clock crossing |
| `ClockCrossing_proofs!CrossingImplementsQueue` | `BytesQueued`: it implements `StreamQueue` |

**CONTROL port.** The first three hold for any number of
identities, any wLength, any buffer and queue size, any requests and any number of
time-outs and resets. The first two use the inductive invariant

    IInv == TypeOK /\ InProgress /\ RxBufferBounded

`InProgress` is needed because typing alone is not inductive: the handler reads a
SETUP packet when `EpControl` is pending, so there must be one; a transfer in its data
or status stage must have a request; and a host in the data stage must have data
left, or the next packet would not exist. `Write` carries in its type that a write about to
fill has a packet to fill with, which is what makes `Head` safe there. The argument is one lemma
per action: `Endpoint0_proofs` types each driver call, `Control_proofs`
lifts that to the arms of `dispatch_event` and shows that they leave pending
interrupts and SETUP packets alone (`SameInterrupts`), and `ControlPort_proofs`
adds handler, main loop, verbs and host. `OutcomeUnique` is inductive by itself.

They assume `EndpointAssumption`, `SetupAssumption`, `RxBufferAssumption` and `HostAssumption`,
that is: the constants are numbers, requests are in range, and the placeholder for "no
SETUP packet" is not one. TLC evaluates them in each run.

*A polite host.* The next four are about a host that finishes its transfers: two identities or more, no early time-outs, no resets, and only requests that are
`Servable`. A `Response` is one if it asks for `MaxAnswer` packets or more: to a host that asks for less the rest of the answer is what its next transfer reads, and `AnswersUnmixed` would be false (finding 11). That leaves out commands that are refused or longer than `rx_buffer`, unknown descriptors, configurations and OUT requests, and requests for data with a wLength of 0:
what the firmware does with the first five is in other runs or among the findings; in the last USB has the host read the status stage, which `HostOut` does not model. `MCControlPort` assumes that the host of `ControlPort_polite` is one.
The sizes remain arbitrary, that of the event queue too: a queue that overflows hangs the core, which then has nothing primed.
The inductive invariant is `IInv /\ Protocol`. `Protocol` says, for each moment of a transfer, what bus, queue and state machine may look like together:

* `SetupLast`: a SETUP packet that is not dispatched is the last thing that happened. Its interrupt has the lowest number, the handler takes the highest first, and the host waits,
  so in the queue it is behind all others.
* `Settling`, between transfers and until that SETUP packet is dispatched: nothing is primed, the write in progress only has to notice that its packet has left, and each state of `Control` that waits for
  an event (`WaitForZlp`, `SetAddress`, `Complete`, `FinishHostData`) has that event pending or queued. So when the SETUP packet comes to the head, the state accepts it.
* `Serving`, while a transfer is served: its request is with the caller (`Handed`), or the device stalls (`Refused`), answers (`Answering`), takes data (`Receiving`) or
  acknowledges (`Acknowledging`). In `Answering`, `AnswerLeft` ties the packets not yet read to what the host has got of wLength, so that host and device agree on which packet is the last.

There is again a lemma per action, and for the main loop one per type of event. The four theorems then follow by cases of `Protocol`. For the last: the address changes only in `Settling`, where the host is between transfers or the address is
that of the transfer before, known by its identity, for which two are needed.

*The event queue* (`QueueSuffices`). `Roomy` bounds the events that are queued and those that pending interrupts will add: one for each packet the host has of its answer,
since the main loop dispatches none of them while it is still inside `write_with_packet_size`; one more for the acknowledgement of the answer; and one for the next SETUP packet, behind which nothing comes. The bound is tight: in `ControlPort_polite` with
a slot less TLC finds the overflow. The queue of the firmware holds 64, so what is shown is that answers of up to 62 packets are safe; `MaxLength` bounds the wLength of a request, and with it the answer to a polite host, and no request of the firmware has a longer answer.
With a queue that suffices a polite host never gives up (`NoTimeout`): whoever waits is answered.

*The command channel* (`CommandsInOrder`) is a refinement under `IInv /\ Protocol /\ Roomy /\ Commanding`: the first step is one of the channel's initial states, and every step is one of `Send`, `Execute`, `Respond`, `Cancel`, `Read`, or none. `Commanding` has what `Protocol` leaves open, which is the
data. `Kept` follows the bytes of a command: `rx_buffer` holds a beginning of what the host has sent, the packet in the FIFO continues it, and from the acknowledgement until `dispatch_libgreat_request` it is all there, although in the meantime the host may have opened its next transfer. That transfer is dispatched
only after the command has been handed on, which is `Settling`. `Uniform` says that the packets of an answer, in the FIFO or left to be written, answer one command, so that reading one but the last of them is no step of the channel and reading the last is `Read`. `Following` connects
where a client has got to in the sequence with what is queued for it: it cancels only a response that was not there. The lemmas on the channel (`AnswerFound`, `ChannelSteps`, `WayOfCommand`) say what the three state functions of the mapping are
in these terms, and there is again a lemma per action, and one per type of event. It takes one more assumption, `NoneIsNoCommand`: the placeholder for "no command" is not a command. A `PoliteHost` sends no command that is refused; that the outcome is the right one when the stall of a refused command races the next SETUP is shown by `ControlPort_sequence` on a small instance only.

**IN endpoints.** For any endpoints, packet sizes, payloads, addresses and number of calls and resets, and for a late client, from the inductive invariant

    IInv == TypeOK /\ SinglePacket /\ WritePosition /\ SentIsEmpty
              /\ WriteOfCall /\ EventsOf

`SinglePacket` alone is not inductive: `WriteByte` appends to the FIFO, so what is already in it must be of the same call and
shorter than a packet. `WritePosition` says so for each position of a write: at most as many bytes as have been counted for the
packet begun, all of this call (fewer after a bus reset, which empties the FIFO under the writer's hands). To return from "sent" to "bytes" with an empty
FIFO, `SentIsEmpty` ties the flag that the handler clears to the packet that has left: an `EpIn` interrupt is pending only
over an empty FIFO, and whoever finds the flag clear finds the FIFO empty. `WriteOfCall` connects the write to the call it belongs to, so that
the byte's identity is that of the call; `EventsOf` types what an event carries from the host to the handler. One lemma per
action, as for the CONTROL port; the assumption is `InEndpointsAssumption`. TLC checked `IInv` on a small instance with `Late` before the proof.

*What is written is read* (`Delivered`) needs more, `IInv /\ Delivering`. `Streaming` is the heart: what the host has read from the endpoint, followed by what is in the FIFO, ends
with exactly the bytes of this call that are written. `Position` makes it inductive: it ties the fill of the packet to the remainder of the bytes written,
so that the FIFO is empty when the next packet begins and full, or at the end of the payload, when one is primed. That remainder is where `NoEmptyPackets` is used, and only there: a packet of no bytes
is primed over an empty FIFO, and whoever comes next takes it for a free one. `TakenWhole` carries the result over the return of a blocking write, `FifoSorted` and `ReadSorted` say that bytes are in order
across calls, `PrimedWhole` that no byte joins a packet the host may take, and `CallsOnce` that a call is executed by one write. Bus resets and late clients come in by
`InReach`: those invariants hold of a write that the host can still take packets of. A reset puts the host out of reach until the write has ended, and so does the status stage of
an assignment whose FIFO a late client has written to (`OutOfReach`). For a write out of reach nothing is promised but order: it cannot return Ok with bytes that were lost, for
its flag stays set until it times out.

*The address* (`AddressAfterAnswer`) is `IInv /\ Assigning`. The difficulty is the queue: between the host's SETUP packet, the SetAddress event,
the acknowledgement and its SendComplete, events of other endpoints and of resets pass. `PendsAt(k, a)` says that *a* is the address pending when the main loop comes to place *k*
of the queue, `Lasts` that nothing between two places changes it; `SendsAnswered` then says of each SendComplete in the queue that the address it will find pending is the one answered, unless a reset
comes after it. `HostAsks`, `SetupAsked` and `Asking` follow an address from the host to the queue, and `StatusEmpty` and `OnePacket` keep a client's bytes out of the status stage,
which is where the client must not be `Late`.

**Moondancer class.** For any queue sizes, requests, packets and numbers of transfers, resets and connections, from

    IInv == DeviceOK /\ EventsOK /\ QueuesOK /\ StuckOK /\ HostOK /\ ClientOK

Each part is the type of some variables with what relates them. `StopsOnlyWhenFull` needs `RequestsHeld`: `read_control` unwraps the front of `control_queue`, and the client calls it for an event it fetched earlier, so
as many requests must be queued as there are ReceiveControl events in the client's hands and in `irq_queue` together, although `irq_queue` drops events and a disconnect clears both. It is a statement about cardinalities,
and the lemmas `ControlsAppend` and `ControlsTail` say how the operations on queues change the count. `OneVerb` and `CalledFor` are needed because a verb waits in the event queue while the rest goes on: there is at most one, and what
the client holds still calls for it when its turn comes. The assumption is `MoondancerAssumption`.

`QueuesSuffice` says when nothing stops at all, for any requests, packets and sizes that are `Obliging`: the host finishes its transfers, never resets the bus and asks for data only
where wLength is not 0; the client is careful and connects once; and `EVENT_QUEUE` has room for the acknowledgements of the longest answer (`MostAnswered`) and three events more. With the sizes of `Moondancer_patient`, which are the
smallest it admits, TLC finds `NeverStuck` violated as soon as any one of these conditions is dropped. For the 64 places of the real queue they admit answers of up to 61 packets; `write_with_packet_size` waits for
every packet inside one event, so the acknowledgements do pile up. The invariant is `IInv /\ Flowing`, whose parts say where the transfer in progress is:

* `Asked`: its request is at most at one of four places, the interrupt, `EVENT_QUEUE`, `control_queue` and the client's hands (`Waiting <= 1`), and as long as it is at one of them the endpoint holds nothing the host could
  take to be done. That is why `control_queue` is empty whenever a request is dispatched, however small it is.
* `Answered` and `Writing`: once it is being answered, the packets still to be taken end the data stage and no earlier one does (`Ends`), so the host opens no further transfer while
  the main loop is in the write, and no time-out of the write drops a packet.
* `Acknowledged`: packets yet to be taken, the interrupt and the SendComplete events together are no more than one answer has, and none of those events is behind the next request (`SetupBehind`).
* `OneReceived`: of OUT enabled, its interrupt, its event and the event in `irq_queue` there is at most one, and none when the client believes the interface idle; this is what `Careful` is for.
* `Session` and `Undisturbed`: one verb, no reset, no disconnect.

The lemmas `NumberAppend`, `NumberTail` and `NumberAll` count the events of each type, `QueuedBounded` bounds them and `RoomForOne` concludes that whatever is queued next finds a place.

**Analyzer.** For any depth of the ring of at least four words, any timestamp width, and packets short enough for the 11 bits of `fifo_words_pending` (`AnalyzerAssumption`), from

    IInv == TypeOK /\ Receiving /\ Counted /\ Roomy

`Counted` bounds `fifo_words_pending` by the bytes of the packet, which are bounded by `Receiving`; without it the counter could wrap. `Roomy` is what makes `OverflowsOnlyWhenTight` inductive: unless a header or an event has begun with too little room,
what is committed and pending leaves two words free while a packet is captured, so that the test for equality on the next byte still comes in time.

`CaptureImplementsLog` is a refinement proof under `IInv /\ Laid`. `Laid` says where things lie in the ring: until it is overfull, the header address is the first place
behind the committed words, the write address is the header and the bytes counted behind it, pending words are those of header and bytes, they fit, and each byte received is at its place.
The lemma `CycleLogs` reduces a cycle to its effect on the log: the reader takes at most one word in each of the two sync cycles, from the front, and what is committed is put behind the rest, whatever memory the cycle writes,
as long as it writes behind the committed words. A packet that ends then appends its header and bytes as one entry; every other cycle is a read or a stutter. Once the ring is overfull nothing is promised.

**HyperRAM FIFO.** For any size of the HyperRAM, of the output FIFO (with the weight of its top bit) and of the ring, and whatever controller, reader and discards do, from

    IInv == TypeOK /\ EveryStrobeCounts /\ LastIsHonest /\ AddressesMeet

A strobe is safe because the one before it was not the last: with `final_word` down there is one more word, or room for one more, after it. For a write that takes `LastIsHonest`: a valid word
without `last` has another behind it, in a ring that only grows while the word waits. `AddressesMeet` ties the three counters together: the write address is `word_count` behind the read address, modulo the size, and during a
burst the controller's own address is the one of the side it works for. `FifoImplementsQueue` is a refinement: under `IInv` each of the
actions is a put, a take, both or neither of the queue `out \o InRam`; the lemmas `WordsAfterPut` and its like say what a write at one end and a read at the other do to the words of a wrapping memory.
The assumption is `PacketFifoAssumption`.

**Clock crossing.** For a FIFO of any power of two, any words, skewed codes or not, and whatever writer, reader and discards do. The invariant is `CrossingInv`; TLC checked it
for two and for four bytes before the proof. `Distance(a, b)` is how far counter *b* is ahead of *a*, modulo twice the depth, and `Gap` that of the two counters.

* *Codes.* Counting up by one changes one bit of the Gray code (`Adjacent`, by way of `CarriesDown`, `CodeChange` and `CodeWrap`), so what is caught of a counter that counts is its code before or after (`CatchesEither`);
  different counters have different codes (`EncodeInjective`), so codes may be read back as counters; and the test of `w_full` is true of two counters exactly when they are a depth apart (`Opposite`). These are facts about the bits of numbers, for any number
  of bits; they rest on an induction over the naturals for a set (`Induction`, from the well-foundedness of `<`), and so does the recursive `Weight`.
* *Views.* `ReadView`: the two stages of the read side hold counters between its own and the writer's, in order, so what it reads is written. `WriteView`: those of the write side hold counters behind its own by a depth at most
  and by `Gap` at least, so as long as it does not find the FIFO full there is a free place. That, with the places told apart (`SlotFree`), is why no byte is overwritten.
* *Discards.* `ext_rst` sets the read counter to what the read side sees of the write counter, any number of bytes at once, so many bits change together and the write side may catch a code that was never a counter. `WriteView` is
  false then; `TornFirst` and `TornSeen` follow that code through the two stages, and say that as long as it is there no word and no byte wait to be written, for `Stream16to8` is being reset too.
* *Bytes.* `StaleFirst` orders the stale bytes before the others, `OldestShown` says that `read_data` follows the counter in time, `Emptied` that a discard which met no write in flight has left nothing.

`CrossingStaysSound` follows from the invariant. `CrossingImplementsQueue` shows that each cycle is a put, a take, both or neither of the queue `InFifo \o InShift`, or a discard: `ChainMoves` says what moving the two counters and the shift register does
to the bytes between them, item by item. The assumptions are `ClockCrossingAssumption` (at least one bit of depth, at least one word) and `NoneIsNoByte`.

Only model-checked: the refinement of `CommandChannel` with refused commands, and that every command sent is executed and every answer read, which is liveness; the refinement of `EventStream` by the Moondancer class;
the example devices. Out of reach of the prover: the properties of `Discovery`, which are inductions over tables and descriptors, and liveness under fairness.

## Not modelled

See `components` in `PROJECT.json` for the reason of each. Of the 20 000 lines of Rust about half are
register accessors generated from `lunasoc.svd` (`moondancer-pac`), and much of the rest of what is left out is tests, logging, print formatting and
examples that blink an LED or print a byte: they have no behaviour of their own to specify, or none that reaches a state modelled here. What is left of the
firmware and its libraries is modelled but for the verbs named above, `MultiEventQueue` (used by no program), the timer
and the serial port. Of the gateware, the controllers and the asynchronous primitives are library components outside the repository, and the vendor requests of the analyzer
are a table over one; of the host tools, the flashing commands are sequences of external processes.
