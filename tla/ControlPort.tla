---------------------------- MODULE ControlPort ----------------------------
(***************************************************************************)
(* The CONTROL port of a Cynthion running moondancer: a host performs      *)
(* control transfers on endpoint 0 of usb2, the interrupt handler turns    *)
(* the controller's interrupts into events, and the main loop feeds them   *)
(* to Control and carries out the libgreat command sequence                *)
(* (firmware/moondancer/src/bin/moondancer.rs, moondancer/src/util.rs).    *)
(*                                                                         *)
(* The firmware runs on one core: the main loop steps only while no        *)
(* interrupt is pending. The host is every sequence of control transfers;  *)
(* it may give a transfer up and may reset the bus.                        *)
(***************************************************************************)
EXTENDS Control

CONSTANTS
  HostRequests,      (* what a host asks for: [request, value, length]    *)
  Sequenced,         (* the host follows the libgreat command sequence    *)
  MaxAnswer,         (* the longest answer of a class, in packets         *)
  EventQueueSize,    (* capacity of EVENT_QUEUE                           *)
  MaxEarlyTimeouts,  (* transfers given up while the device is working    *)
  MaxResets,         (* bus resets                                        *)
  None               (* no response, no error                             *)

ASSUME HostAssumption ==
  /\ HostRequests \subseteq [request : Requests, value : 0 .. 2,
                             length : 0 .. MaxLength]
  /\ MaxAnswer \in Nat \ {0}
  /\ EventQueueSize \in Nat \ {0}
  /\ MaxEarlyTimeouts \in Nat
  /\ MaxResets \in Nat

ASSUME NoneIsNoCommand == None \notin Seq(OutPacket)

VARIABLES
  event_queue,                   (* EVENT_QUEUE                           *)
  hung,                          (* the handler spins after an overflow   *)
  libgreat_response,             (* the command it answers, or None       *)
  libgreat_response_last_error,  (* the command that failed, or None      *)
  advertising,                   (* the ApolloAdvertiser is enabled       *)
  host,                          (* the host's transfer in progress       *)
  early, resets                  (* transfers given up early, bus resets  *)

libgreatVars == <<libgreat_response, libgreat_response_last_error>>
firmwareVars ==
  <<next, configuration, rx_buffer, returned, libgreatVars, advertising>>
vars == <<controlVars, event_queue, hung, libgreatVars, advertising,
          host, early, resets>>

Stages == {"idle", "data", "status", "done", "stalled", "failed"}

(* setup is the request in progress, sent and got count the packets of its *)
(* data stage, command is the last Execute the device acknowledged, and id *)
(* the identity of the last transfer. client is where a host that follows  *)
(* the command sequence has got to.                                        *)
Host == [stage : Stages, setup : SetupPacket \union {NoSetup},
         sent : 0 .. MaxLength, got : 0 .. MaxLength,
         command : Seq(OutPacket), id : Transfers,
         client : {"ready", "executed", "refused"}]

Init ==
  /\ ControlInit
  /\ event_queue = <<>>
  /\ hung = FALSE
  /\ libgreat_response = None
  /\ libgreat_response_last_error = None
  /\ advertising = TRUE
  /\ host = [stage |-> "idle", setup |-> NoSetup, sent |-> 0, got |-> 0,
             command |-> <<>>, id |-> NumTransfers, client |-> "ready"]
  /\ early = 0
  /\ resets = 0
-----------------------------------------------------------------------------
(* The interrupt handler.                                                  *)

(* dispatch_event: an overflow empties the queue and never returns.        *)
Enqueue(event) ==
  \/ /\ Len(event_queue) < EventQueueSize
     /\ event_queue' = Append(event_queue, event)
     /\ UNCHANGED hung
  \/ /\ Len(event_queue) >= EventQueueSize
     /\ event_queue' = <<>>
     /\ hung' = TRUE

(* get_usb_interrupt_event: the pending interrupt of the highest number is *)
(* acknowledged and becomes an event.                                      *)
MachineExternal ==
  /\ ~ hung
  /\ usb.pending # {}
  /\ LET irq == HighestPending(usb.pending)
         event(type) == [type |-> type, setup |-> NoSetup]
     IN  \/ /\ irq = "BusReset"
            /\ usb' = BusReset(usb)
            /\ Enqueue(event("BusReset"))
         \/ /\ irq = "EpControl"
            /\ usb' = ReadSetup(usb)
            /\ Enqueue([type |-> "ReceiveSetupPacket", setup |-> usb.setup])
         \/ /\ irq = "EpIn"
            /\ usb' = SendComplete(usb)
            /\ Enqueue(event("SendComplete"))
         \/ /\ irq = "EpOut"
            /\ usb' = ClearPending(usb, "EpOut")
            /\ Enqueue(event("ReceivePacket"))
  /\ UNCHANGED <<firmwareVars, host, early, resets>>
-----------------------------------------------------------------------------
(* The main loop.                                                          *)

MainRuns == ~ hung /\ usb.pending = {}

(* Take the next event and dispatch it.                                    *)
MainLoop ==
  /\ MainRuns
  /\ usb.tx.at = "none"
  /\ returned = NoSetup
  /\ event_queue # <<>>
  /\ DispatchEvent(Head(event_queue))
  /\ event_queue' = Tail(event_queue)
  /\ UNCHANGED <<hung, libgreatVars, advertising, host, early, resets>>

(* One iteration of a loop of write_with_packet_size. The host polls an    *)
(* endpoint it waits on far more often than DEFAULT_TIMEOUT iterations, so *)
(* the driver times out only when the host does not want the packet.       *)
HostPolls ==
  \/ host.stage = "data" /\ DeviceToHost(host.setup)
  \/ host.stage = "status" /\ ~ DeviceToHost(host.setup)

NotTaken == ~ (HostPolls /\ SendsData(usb))

WriteStep ==
  /\ MainRuns
  /\ \/ /\ DrainDone(usb)
        /\ usb' = [usb EXCEPT !.tx.at = "fill"]
     \/ /\ usb.tx.at = "drain" /\ Have(usb) /\ NotTaken
        /\ usb' = DrainTimeout(usb)
     \/ /\ usb.tx.at = "fill"
        /\ usb' = Fill(usb)
     \/ /\ usb.tx.at = "wait" /\ ~ usb.tx_ack
        /\ usb' = Sent(usb)
     \/ /\ usb.tx.at = "wait" /\ usb.tx_ack /\ NotTaken
        /\ usb' = WaitTimeout(usb)
  /\ UNCHANGED <<firmwareVars, event_queue, hung, host, early, resets>>
-----------------------------------------------------------------------------
(* handle_vendor_request.                                                  *)

(* vendor::VendorRequest and VendorValue: the requests that are carried    *)
(* out. 0x65 with the value Execute is an Execute or, to be read, a        *)
(* Response; with the value Cancel it is a Cancel.                         *)
VendorRequests == {"Claim", "Execute", "Response", "Cancel"}

(* The host hands the port to Apollo.                                      *)
ClaimInterface ==
  /\ returned.request = "Claim"
  /\ usb' = WriteZlp(usb, returned.id)
  /\ advertising' = FALSE
  /\ UNCHANGED libgreatVars

(* The outcome of a command: an answer or an error.                        *)
QueueOutcomeErrorKept(accepted) ==
  IF accepted
  THEN /\ libgreat_response' = rx_buffer
       /\ UNCHANGED libgreat_response_last_error
  ELSE /\ libgreat_response' = None
       /\ libgreat_response_last_error' = rx_buffer

QueueOutcomeErrorLost(accepted) ==
  IF accepted
  THEN /\ libgreat_response' = rx_buffer
       /\ libgreat_response_last_error' = None
  ELSE /\ libgreat_response' = None
       /\ UNCHANGED libgreat_response_last_error

QueueOutcome(accepted) ==
  IF accepted
  THEN /\ libgreat_response' = rx_buffer
       /\ libgreat_response_last_error' = None
  ELSE /\ libgreat_response' = None
       /\ libgreat_response_last_error' = rx_buffer

(* dispatch_libgreat_request: the class refuses a command of value 1. Data *)
(* too short for a command (less than one packet) leaves everything as it  *)
(* was.                                                                    *)
DispatchLibgreatRequest ==
  /\ returned.request = "Execute"
  /\ \/ /\ rx_buffer = <<>>
        /\ UNCHANGED <<libgreatVars, usb>>
     \/ /\ rx_buffer # <<>>
        /\ QueueOutcome(returned.value = 0)
        /\ usb' = IF returned.value = 0 THEN usb ELSE StallEndpointIn(usb)
  /\ UNCHANGED advertising

(* The packets of the answer of a class, which is as long as the class     *)
(* made it: write_requested does not cut it to the length the host asks    *)
(* for, and looks at that length only to leave out a ZLP. What is longer   *)
(* stays behind for the next transfer.                                     *)
WholeAnswers(id, of, length) ==
  LET packet(size) == [id |-> id, of |-> of, size |-> size]
      full(n) == [i \in 1 .. n |-> packet("full")]
      exact == {length} \intersect (1 .. MaxAnswer)
  IN  {Append(full(n), packet("short")) : n \in 0 .. MaxAnswer - 1}
        \union {full(n) : n \in exact}
        \union {Append(full(n), packet("zlp")) : n \in (0 .. MaxAnswer) \ exact}

(* dispatch_libgreat_response                                              *)
DispatchLibgreatResponse ==
  /\ returned.request = "Response"
  /\ \/ /\ libgreat_response # None
        /\ \E packets \in WholeAnswers(returned.id, libgreat_response,
                                       returned.length) :
             usb' = WriteWithPacketSize(EpOutPrimeReceive(usb), packets)
        /\ libgreat_response' = None
     \/ /\ libgreat_response = None
        /\ libgreat_response_last_error # None
        /\ UNCHANGED <<usb, libgreat_response>>
     \/ /\ libgreat_response = None
        /\ libgreat_response_last_error = None
        /\ usb' = StallEndpointIn(usb)
        /\ UNCHANGED libgreat_response
  /\ UNCHANGED <<libgreat_response_last_error, advertising>>

(* dispatch_libgreat_abort: four bytes, the error queued or                *)
(* StateNotRecoverable, which fit one packet.                              *)
DispatchLibgreatAbort ==
  /\ returned.request = "Cancel"
  /\ LET failed == libgreat_response_last_error
         code   == IF failed = None THEN <<>> ELSE failed
         packet == [id |-> returned.id, of |-> code, size |-> "short"]
     IN  usb' = WriteWithPacketSize(EpOutPrimeReceive(usb), <<packet>>)
  /\ libgreat_response' = None
  /\ libgreat_response_last_error' = None
  /\ UNCHANGED advertising

(* Every other request, and the descriptors Control could not write. A     *)
(* request of one of the legacy boards stalls IN even if it is a write (as *)
(* a read it is an UnknownIn).                                             *)
StallUnknown ==
  /\ returned.request \notin VendorRequests
  /\ usb' = IF DeviceToHost(returned) \/ returned.request = "LegacyOut"
            THEN StallEndpointIn(usb)
            ELSE StallEndpointOut(usb)
  /\ UNCHANGED <<libgreatVars, advertising>>

HandleVendorRequest ==
  /\ MainRuns
  /\ returned # NoSetup
  /\ \/ ClaimInterface
     \/ DispatchLibgreatRequest
     \/ DispatchLibgreatResponse
     \/ DispatchLibgreatAbort
     \/ StallUnknown
  /\ returned' = NoSetup
  /\ UNCHANGED <<next, configuration, rx_buffer, event_queue, hung,
                 host, early, resets>>
-----------------------------------------------------------------------------
(* The host (external). Its view of a transfer: the stage it is in, the    *)
(* packets it has sent and received.                                       *)

Between == host.stage \in {"idle", "done", "stalled", "failed"}

(* libgreat's command sequence: execute, read the response, and if that    *)
(* does not succeed cancel, which reads the error.                         *)
Follows(request) ==
  Sequenced => \/ host.client = "ready" /\ request \notin {"Response", "Cancel"}
               \/ host.client = "executed" /\ request = "Response"
               \/ host.client = "refused" /\ request = "Cancel"

ClientAfter(stage) ==
  CASE ~ Sequenced -> "ready"
    [] host.setup.request = "Execute" /\ stage = "done" -> "executed"
    [] host.setup.request \in {"Execute", "Response"} /\ stage # "done" -> "refused"
    [] OTHER -> "ready"

(* The data of a request with data from the host.                          *)
DataOf(setup) == [i \in 1 .. setup.length |-> [id |-> setup.id, i |-> i]]

(* The transfer is over: nothing but how it ended, and the last command,   *)
(* is remembered.                                                          *)
Ended(stage) ==
  [host EXCEPT !.stage = stage, !.setup = NoSetup, !.sent = 0, !.got = 0,
     !.command = IF stage = "done" /\ host.setup.request = "Execute"
                 THEN DataOf(host.setup) ELSE @,
     !.client = ClientAfter(stage)]

(* Open a transfer. A bus reset outlasts the interrupt handler by far, so  *)
(* the host speaks again only once it has been handled.                    *)
HostSetup ==
  /\ Between
  /\ "BusReset" \notin usb.pending
  /\ \E r \in {q \in HostRequests : Follows(q.request)} :
       LET id    == IF host.id = NumTransfers THEN 1 ELSE host.id + 1
           setup == [request |-> r.request, value |-> r.value,
                     length |-> r.length, id |-> id]
       IN  /\ host' = [host EXCEPT !.setup = setup, !.id = id,
                         !.stage = IF r.length = 0 THEN "status" ELSE "data"]
           /\ usb' = AcceptSetup(usb, setup)
  /\ UNCHANGED <<firmwareVars, event_queue, hung, early, resets>>

(* An IN token: of the data stage of a request for data, of the status     *)
(* stage of the others, where anything but a ZLP is an error.              *)
HostIn ==
  /\ HostPolls
  /\ \/ /\ usb.in_stall
        /\ host' = Ended("stalled")
        /\ UNCHANGED usb
     \/ /\ SendsData(usb)
        /\ host.stage = "status"
        /\ usb' = TakeIn(usb)
        /\ host' = IF Have(usb) THEN Ended("failed") ELSE Ended("done")
     \/ /\ SendsData(usb)
        /\ host.stage = "data"
        /\ usb' = TakeIn(usb)
        /\ LET got  == host.got + Len(usb.in)
               last == usb.in[Len(usb.in)].size # "full"
           IN  host' = IF got > host.setup.length
                       THEN Ended("failed")
                       ELSE [host EXCEPT !.got = got,
                               !.stage = IF last \/ got = host.setup.length
                                         THEN "status" ELSE "data"]
  /\ UNCHANGED <<firmwareVars, event_queue, hung, early, resets>>

(* An OUT packet: the next of the data stage, or the ZLP that acknowledges *)
(* the data received.                                                      *)
HostSends ==
  \/ host.stage = "data" /\ ~ DeviceToHost(host.setup)
  \/ host.stage = "status" /\ DeviceToHost(host.setup)

HostOut ==
  /\ HostSends
  /\ \/ /\ usb.out_stall
        /\ host' = Ended("stalled")
        /\ UNCHANGED usb
     \/ /\ AcceptsOut(usb)
        /\ host.stage = "data"
        /\ usb' = AcceptOut(usb, << DataOf(host.setup)[host.sent + 1] >>)
        /\ host' = [host EXCEPT !.sent = @ + 1,
                      !.stage = IF host.sent + 1 = host.setup.length
                                THEN "status" ELSE "data"]
     \/ /\ AcceptsOut(usb)
        /\ host.stage = "status"
        /\ usb' = AcceptOut(usb, <<>>)
        /\ host' = Ended("done")
  /\ UNCHANGED <<firmwareVars, event_queue, hung, early, resets>>

(* The device has nothing left to do and NAKs the host's tokens.           *)
Unanswered ==
  /\ \/ hung
     \/ /\ usb.pending = {} /\ event_queue = <<>>
        /\ usb.tx.at = "none" /\ returned = NoSetup
  /\ ~ (HostPolls /\ (usb.in_stall \/ SendsData(usb)))
  /\ ~ (HostSends /\ (usb.out_stall \/ AcceptsOut(usb)))

(* The host gives up: because it is not answered, or too early.            *)
HostTimeout ==
  /\ ~ Between
  /\ \/ Unanswered /\ UNCHANGED early
     \/ /\ ~ Unanswered /\ early < MaxEarlyTimeouts
        /\ early' = early + 1
  /\ host' = Ended("failed")
  /\ UNCHANGED <<usb, firmwareVars, event_queue, hung, resets>>

HostBusReset ==
  /\ resets < MaxResets
  /\ resets' = resets + 1
  /\ usb' = ResetSignal(usb)
  /\ host' = [host EXCEPT !.stage = "idle", !.setup = NoSetup, !.sent = 0,
                          !.got = 0, !.client = "ready"]
  /\ UNCHANGED <<firmwareVars, event_queue, hung, early>>
-----------------------------------------------------------------------------
Firmware == MachineExternal \/ MainLoop \/ WriteStep \/ HandleVendorRequest

Tokens == HostIn \/ HostOut

Next == Firmware \/ HostSetup \/ Tokens \/ HostTimeout \/ HostBusReset

(* The core always executes, and a host keeps polling a transfer until it  *)
(* is answered or times out. Nothing obliges a host to open transfers.     *)
Spec == /\ Init /\ [][Next]_vars
        /\ WF_vars(MachineExternal) /\ WF_vars(MainLoop)
        /\ WF_vars(WriteStep) /\ WF_vars(HandleVendorRequest)
        /\ WF_vars(Tokens) /\ WF_vars(HostTimeout)
-----------------------------------------------------------------------------
TypeOK ==
  /\ ControlTypeOK
  /\ event_queue \in Seq(Event)
  /\ hung \in BOOLEAN
  /\ libgreat_response \in Seq(OutPacket) \union {None}
  /\ libgreat_response_last_error \in Seq(OutPacket) \union {None}
  /\ advertising \in BOOLEAN
  /\ host \in Host
  /\ early \in 0 .. MaxEarlyTimeouts
  /\ resets \in 0 .. MaxResets

(* What the actions rely on: a SETUP interrupt comes with a SETUP packet,  *)
(* and a transfer in progress has a request and data left to send.         *)
InProgress ==
  /\ "EpControl" \in usb.pending => usb.setup # NoSetup
  /\ host.stage \in {"data", "status"} => host.setup # NoSetup
  /\ host.stage \notin {"data", "status"} => host.sent = 0
  /\ host.stage = "data" => host.sent < host.setup.length
-----------------------------------------------------------------------------
(* Safety. The properties that speak of a polite host are checked without  *)
(* early timeouts and resets, and with a host that asks for whole answers. *)

(* A SETUP packet reaches dispatch_event only in a state that accepts one, *)
(* so that none is dropped by the catch-all arm: the interrupt priorities  *)
(* and the queue deliver the end of a transfer before the next SETUP.      *)
SetupNeverDropped ==
  (/\ usb.tx.at = "none" /\ returned = NoSetup /\ event_queue # <<>>
   /\ Head(event_queue).type = "ReceiveSetupPacket")
    => AcceptsSetup

(* What is primed when the host polls belongs to the transfer in progress: *)
(* no answer, and no acknowledgement, leaks into a later transfer.         *)
AnswersBelongToTransfer ==
  HostPolls /\ SendsData(usb)
    => \A i \in DOMAIN usb.in : usb.in[i].id = host.setup.id

(* The driver never writes to an IN endpoint that is still primed.         *)
FifoHoldsOnePacket == Len(usb.in) <= 1

(* What a host reads is the answer to what it has asked, once and whole    *)
(* packets of it: none is left over from a transfer before (Control,       *)
(* write_with_packet_size).                                                *)
AnswersIntact == AnswersBelongToTransfer /\ FifoHoldsOnePacket

(* A command has an answer or an error, never both.                        *)
OneOutcome ==
  libgreat_response = None \/ libgreat_response_last_error = None

(* A request that every device must serve is not stalled.                  *)
NoStrayStall ==
  HostPolls /\ usb.in_stall
    => \/ host.setup.request = "Response"
       \/ host.setup.value # 0
       \/ host.setup.request \in {"UnknownIn", "UnknownOut", "LegacyOut"}

(* A device keeps the address under which the host asked it to change      *)
(* until that host has its acknowledgement.                                *)
AddressChangesAfterStatus ==
  [][usb'.address # usb.address /\ host.stage = "status"
       => host.setup \notin {next.setup, next'.setup}]_vars

(* A request that gets an answer, or a stall that its host is looking at:  *)
(* data is asked for from the device only if it may have some, a Response  *)
(* asks for as much as any class answers (clients of libgreat ask for the  *)
(* largest command), and a command fits rx_buffer and is accepted.         *)
Servable(r) ==
  \/ r.request = "GetDescriptor" /\ r.value = 0 /\ r.length > 0
  \/ /\ r.request \in {"GetStatus", "MicrosoftOs", "Cancel", "UnknownIn"}
     /\ r.length > 0
  \/ r.request = "Response" /\ r.length >= MaxAnswer
  \/ r.request = "SetConfiguration" /\ r.value <= 1 /\ r.length = 0
  \/ r.request \in {"SetAddress", "Feature", "Claim"} /\ r.length = 0
  \/ r.request = "Execute" /\ r.value = 0 /\ r.length \in 1 .. RxBufferSize

(* A host that asks for nothing else and finishes its transfers.           *)
PoliteHost ==
  /\ NumTransfers > 1 /\ MaxEarlyTimeouts = 0 /\ MaxResets = 0
  /\ \A r \in HostRequests : Servable(r)
-----------------------------------------------------------------------------
(* Liveness.                                                               *)

(* A host is answered: every transfer it opens ends, and not because the   *)
(* device fell silent.                                                     *)
Answered ==
  ~ Between ~> host.stage \in {"done", "stalled"}

(* The port recovers: whatever was given up half-way or reset, a host that *)
(* keeps trying succeeds again. In particular the event queue never        *)
(* overflows for good, which would stop the core.                          *)
Recovers == []<> ~ Between => []<> (host.stage = "done")
-----------------------------------------------------------------------------
(* The promise to a client of libgreat. A command is on its way while it   *)
(* is acknowledged and until it has been dispatched, an outcome is unread  *)
(* while it is queued, and being read while some of it is left to send.    *)

OnItsWay ==
  {s \in {IF host.stage = "status" THEN host.setup ELSE NoSetup,
          IF next.state = "FinishHostData" THEN next.setup ELSE NoSetup,
          returned} : s # NoSetup /\ s.request = "Execute"}

Offered ==
  {p \in {usb.in[i] : i \in DOMAIN usb.in}
           \union {usb.tx.left[i] : i \in DOMAIN usb.tx.left} : p.of # <<>>}

Channel == INSTANCE CommandChannel WITH
  Commands <- {DataOf(setup) : setup \in [id : Transfers, length : 1 .. MaxLength]},
  sent <- IF OnItsWay = {} THEN None ELSE DataOf(CHOOSE s \in OnItsWay : TRUE),
  outcome <-
    IF libgreat_response # None
    THEN [command |-> libgreat_response, accepted |-> TRUE]
    ELSE IF libgreat_response_last_error # None
    THEN [command |-> libgreat_response_last_error, accepted |-> FALSE]
    ELSE None,
  answer <- IF Offered = {} THEN None ELSE (CHOOSE p \in Offered : TRUE).of

(* Each command is executed once and whole, and the outcome that a client  *)
(* reads is that of its last one, though all requests share rx_buffer, an  *)
(* error is announced by a stall that races the next SETUP, and answers    *)
(* are written long after the request (dispatch_libgreat_request,          *)
(* dispatch_libgreat_response, dispatch_libgreat_abort).                   *)
CommandsServed == Channel!Spec
=============================================================================
