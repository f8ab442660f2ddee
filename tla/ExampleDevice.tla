--------------------------- MODULE ExampleDevice ---------------------------
(***************************************************************************)
(* What the example programs of firmware/moondancer/examples have in       *)
(* common: an interrupt handler that puts events in a queue, a main loop   *)
(* that feeds those of endpoint 0 to Control, and bulk endpoints next to   *)
(* it. AcmSerial, UsbHal and SpeedTest add what each does with them.       *)
(*                                                                         *)
(* The driver of Endpoint0 serves every endpoint of a controller here. Its *)
(* OUT half has one FIFO and one enable bit for all of them, and its IN    *)
(* half one FIFO and one epno; the register epno of the OUT half selects   *)
(* the endpoint to prime and is not the one a packet came from, which is   *)
(* in data_ep.                                                             *)
(***************************************************************************)
EXTENDS Control

CONSTANTS
  HostRequests,      (* what a host asks for: [request, value, length]    *)
  EventQueueSize,    (* capacity of EVENT_QUEUE                           *)
  MaxResets,         (* bus resets                                        *)
  OutAt              (* how soon the host goes on within a transfer       *)

(* An OUT packet of the host, data or the ZLP that ends a control read,    *)
(* reaches endpoint 0 before the interrupt of what came before it in the   *)
(* transfer is handled, while its event is in the queue, or after the main *)
(* loop has dealt with the event. A host that misses its moment gives up.  *)
Moments == {"sent", "queued", "handled"}

ExampleAssumption ==
  /\ HostRequests \subseteq [request : Requests, value : 0 .. 2,
                             length : 0 .. MaxLength]
  /\ EventQueueSize \in Nat \ {0}
  /\ MaxResets \in Nat
  /\ OutAt \subseteq Moments /\ OutAt # {}

VARIABLES
  primed,            (* OUT endpoints primed                              *)
  out_epno, data_ep, (* ep_out: the endpoint selected, and the packet's   *)
  in_epno,           (* ep_in: the endpoint of the packet in the FIFO     *)
  write_ep,          (* the endpoint the write in progress is for         *)
  event_queue,       (* EVENT_QUEUE                                       *)
  halted,            (* the program has panicked or spins                 *)
  transfer,          (* the host's control transfer                       *)
  resets

outVars == <<primed, out_epno, data_ep>>
inVars == <<in_epno, write_ep>>
exampleVars == <<controlVars, outVars, inVars, event_queue, halted,
                 transfer, resets>>

EpMaxEndpoints == 16
Endpoints == 0 .. EpMaxEndpoints - 1

ExampleEvent == [type : {"BusReset", "SendComplete", "ReceivePacket"},
                 ep : Endpoints, setup : {NoSetup}]
                  \union [type : {"ReceiveSetupPacket"}, ep : {0},
                          setup : SetupPacket]

Transfer == [stage : {"idle", "data", "status", "done", "stalled", "failed"},
             setup : SetupPacket \union {NoSetup},
             moved : 0 .. MaxLength, id : Transfers]

(* connect() un-primes every OUT endpoint, which leaves the last selected. *)
ExampleInit ==
  /\ ControlInit
  /\ primed = {}
  /\ out_epno = EpMaxEndpoints - 1
  /\ data_ep = 0
  /\ in_epno = 0
  /\ write_ep = 0
  /\ event_queue = <<>>
  /\ halted = FALSE
  /\ transfer = [stage |-> "idle", setup |-> NoSetup, moved |-> 0,
                 id |-> NumTransfers]
  /\ resets = 0
-----------------------------------------------------------------------------
(* The interrupt handler.                                                  *)

(* dispatch_event: a full queue is the end of the program.                 *)
Enqueue(event) ==
  \/ /\ Len(event_queue) < EventQueueSize
     /\ event_queue' = Append(event_queue, event)
     /\ UNCHANGED halted
  \/ /\ Len(event_queue) >= EventQueueSize
     /\ event_queue' = <<>>
     /\ halted' = TRUE

EventOf(type, ep) == [type |-> type, ep |-> ep, setup |-> NoSetup]

(* The endpoint interrupts, the highest pending first; received is the     *)
(* endpoint the handler names when a packet has come in.                   *)
EndpointInterrupt(received) ==
  /\ ~ halted
  /\ usb.pending # {}
  /\ LET irq == HighestPending(usb.pending)
     IN  \/ /\ irq = "EpControl"
            /\ usb' = ReadSetup(usb)
            /\ Enqueue([type |-> "ReceiveSetupPacket", ep |-> 0,
                        setup |-> usb.setup])
         \/ /\ irq = "EpIn"
            /\ usb' = SendComplete(usb)
            /\ Enqueue(EventOf("SendComplete", in_epno))
         \/ /\ irq = "EpOut"
            /\ usb' = ClearPending(usb, "EpOut")
            /\ Enqueue(EventOf("ReceivePacket", received))
  /\ UNCHANGED <<next, configuration, rx_buffer, returned, outVars, inVars,
                 transfer, resets>>

(* The interrupt of a bus reset comes last. What a program does about it   *)
(* is up to each.                                                          *)
BusResetInterrupt ==
  /\ ~ halted
  /\ usb.pending = {"BusReset"}
  /\ UNCHANGED <<next, configuration, rx_buffer, returned, inVars, data_ep,
                 transfer, resets>>
-----------------------------------------------------------------------------
(* The main loop. Like the interrupts of ControlPort, those of an example  *)
(* come first.                                                             *)

MainRuns == ~ halted /\ usb.pending = {}

(* The loop is between two events, and there is one of that kind.          *)
AtLoop == MainRuns /\ usb.tx.at = "none" /\ returned = NoSetup

Takes(event) ==
  /\ AtLoop
  /\ event_queue # <<>>
  /\ event = Head(event_queue)
  /\ event_queue' = Tail(event_queue)
  /\ UNCHANGED <<halted, transfer, resets>>

OfControl(event) ==
  event.type \in {"BusReset", "ReceiveSetupPacket"} \/ event.ep = 0

Selects(ep) == primed' = primed \union {ep} /\ out_epno' = ep

(* control.dispatch_event: it primes endpoint 0 for the ZLP of a read and  *)
(* for every packet of host data, and any write it begins is to 0.         *)
ToControl(event) ==
  /\ DispatchEvent(event)
  /\ \/ /\ \/ event.type = "SendComplete" /\ next.state = "Send"
           \/ next'.state = "ReceiveHostData"
        /\ Selects(0)
     \/ /\ ~ (event.type = "SendComplete" /\ next.state = "Send")
        /\ next'.state # "ReceiveHostData"
        /\ UNCHANGED <<primed, out_epno>>
  /\ write_ep' = 0
  /\ UNCHANGED <<data_ep, in_epno>>

PrimeReceive(ep) ==
  /\ usb' = EpOutPrimeReceive(usb)
  /\ Selects(ep)
  /\ UNCHANGED data_ep

(* Where the host is with the packet in the IN FIFO; reading says that it  *)
(* polls the bulk endpoint.                                                *)
PollsControl ==
  \/ transfer.stage = "data" /\ DeviceToHost(transfer.setup)
  \/ transfer.stage = "status" /\ ~ DeviceToHost(transfer.setup)

Offers(ep) ==
  usb.in_ready /\ in_epno = ep /\ (ep = 0 => ~ usb.in_stall)

NotTaken(reading) ==
  ~ \/ Offers(0) /\ PollsControl
    \/ in_epno # 0 /\ Offers(in_epno) /\ reading

(* One iteration of write_with_packet_size, as in ControlPort.             *)
WriteStep(reading) ==
  /\ MainRuns
  /\ \/ /\ DrainDone(usb)
        /\ usb' = [usb EXCEPT !.tx.at = "fill"]
        /\ UNCHANGED in_epno
     \/ /\ usb.tx.at = "drain" /\ Have(usb) /\ NotTaken(reading)
        /\ usb' = DrainTimeout(usb)
        /\ UNCHANGED in_epno
     \/ /\ usb.tx.at = "fill"
        /\ usb' = Fill(usb)
        /\ in_epno' = write_ep
     \/ /\ usb.tx.at = "wait" /\ ~ usb.tx_ack
        /\ usb' = Sent(usb)
        /\ UNCHANGED in_epno
     \/ /\ usb.tx.at = "wait" /\ usb.tx_ack /\ NotTaken(reading)
        /\ usb' = WaitTimeout(usb)
        /\ UNCHANGED in_epno
  /\ UNCHANGED <<next, configuration, rx_buffer, returned, outVars, write_ep,
                 event_queue, halted, transfer, resets>>
-----------------------------------------------------------------------------
(* The host (external). What its bulk transfers carry is up to each        *)
(* example; here are its control transfers and bus resets.                 *)

Receives(ep) == usb.out_enable /\ ep \in primed

Between == transfer.stage \in {"idle", "done", "stalled", "failed"}

Ended(stage) ==
  [transfer EXCEPT !.stage = stage, !.setup = NoSetup, !.moved = 0]

deviceVars == <<next, configuration, rx_buffer, returned, primed, out_epno,
                inVars, event_queue, halted>>

Opens(r) ==
  /\ Between
  /\ "BusReset" \notin usb.pending
  /\ LET id    == IF transfer.id = NumTransfers THEN 1 ELSE transfer.id + 1
         setup == [request |-> r.request, value |-> r.value,
                   length |-> r.length, id |-> id]
     IN  /\ transfer' = [stage |-> IF r.length = 0 THEN "status" ELSE "data",
                         setup |-> setup, moved |-> 0, id |-> id]
         /\ usb' = AcceptSetup(usb, setup)
  /\ UNCHANGED <<deviceVars, data_ep, resets>>

HostIn ==
  /\ PollsControl
  /\ \/ /\ usb.in_stall
        /\ transfer' = Ended("stalled")
        /\ UNCHANGED usb
     \/ /\ Offers(0)
        /\ usb' = TakeIn(usb)
        /\ LET moved == transfer.moved + Len(usb.in)
               last  == usb.in[Len(usb.in)].size # "full"
           IN  \/ /\ transfer.stage = "status"
                  /\ transfer' = Ended(IF Have(usb) THEN "failed" ELSE "done")
               \/ /\ transfer.stage = "data"
                  /\ transfer' =
                       IF moved > transfer.setup.length
                       THEN Ended("failed")
                       ELSE [transfer EXCEPT !.moved = moved,
                               !.stage = IF \/ last
                                            \/ moved = transfer.setup.length
                                         THEN "status" ELSE "data"]
  /\ UNCHANGED <<deviceVars, data_ep, resets>>

(* How far the device is with what came before in the transfer.            *)
Moment ==
  CASE usb.pending # {} -> "sent"
    [] \E i \in DOMAIN event_queue : event_queue[i].ep = 0 -> "queued"
    [] OTHER -> "handled"

HostSends ==
  /\ Moment \in OutAt
  /\ \/ transfer.stage = "data" /\ ~ DeviceToHost(transfer.setup)
     \/ transfer.stage = "status" /\ DeviceToHost(transfer.setup)

HostOut ==
  /\ HostSends
  /\ \/ /\ usb.out_stall
        /\ transfer' = Ended("stalled")
        /\ UNCHANGED <<usb, data_ep>>
     \/ /\ ~ usb.out_stall /\ Receives(0)
        /\ data_ep' = 0
        /\ \/ /\ transfer.stage = "data"
              /\ LET moved == transfer.moved + 1
                 IN  /\ usb' = AcceptOut(usb, << [id |-> transfer.id,
                                                  i |-> moved] >>)
                     /\ transfer' =
                          [transfer EXCEPT !.moved = moved,
                             !.stage = IF moved = transfer.setup.length
                                       THEN "status" ELSE "data"]
           \/ /\ transfer.stage = "status"
              /\ usb' = AcceptOut(usb, <<>>)
              /\ transfer' = Ended("done")
  /\ UNCHANGED <<deviceVars, resets>>

(* The program has nothing left to do that could answer the host.          *)
Quiet ==
  \/ halted
  \/ /\ usb.pending = {} /\ event_queue = <<>>
     /\ usb.tx.at = "none" /\ returned = NoSetup

Unanswered ==
  /\ Quiet
  /\ ~ (PollsControl /\ (usb.in_stall \/ Offers(0)))
  /\ ~ (HostSends /\ (usb.out_stall \/ Receives(0)))

HostTimeout ==
  /\ ~ Between
  /\ Unanswered
  /\ transfer' = Ended("failed")
  /\ UNCHANGED <<usb, deviceVars, data_ep, resets>>

HostBusReset ==
  /\ resets < MaxResets
  /\ resets' = resets + 1
  /\ usb' = ResetSignal(usb)
  /\ transfer' = Ended("idle")
  /\ UNCHANGED <<deviceVars, data_ep>>

(* The packets of a bulk endpoint, as the host sends and takes them.       *)
SendsBulk(ep, data) ==
  /\ Receives(ep)
  /\ usb' = AcceptOut(usb, data)
  /\ data_ep' = ep
  /\ UNCHANGED <<deviceVars, transfer, resets>>

TakesBulk(ep) ==
  /\ Offers(ep)
  /\ usb' = TakeIn(usb)
  /\ UNCHANGED <<deviceVars, data_ep, transfer, resets>>
-----------------------------------------------------------------------------
ExampleTypeOK ==
  /\ ControlTypeOK
  /\ primed \subseteq Endpoints
  /\ {out_epno, data_ep, in_epno, write_ep} \subseteq Endpoints
  /\ event_queue \in Seq(ExampleEvent)
  /\ halted \in BOOLEAN
  /\ transfer \in Transfer
  /\ resets \in 0 .. MaxResets
=============================================================================
