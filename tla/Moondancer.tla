----------------------------- MODULE Moondancer -----------------------------
(***************************************************************************)
(* The moondancer class: the back end of Facedancer. It drives usb0 (the   *)
(* TARGET port) for a client on the CONTROL port that emulates a device    *)
(* (firmware/moondancer/src/gcp/moondancer.rs).                            *)
(*                                                                         *)
(* Three actors share the class's queues: the host of the TARGET port      *)
(* raises interrupts, the main loop turns them into events and packets,    *)
(* and the client fetches those by verbs. The command sequence of the      *)
(* CONTROL port (ControlPort) is reduced to what it promises a client: one *)
(* verb at a time, executed by the main loop in turn with usb0's events.   *)
(***************************************************************************)
EXTENDS Endpoint0, FiniteSets

CONSTANTS
  BulkEndpoints,     (* OUT endpoints other than 0                        *)
  TargetRequests,    (* what the host asks for: [request, value, length]  *)
  NumPackets,        (* packets the host sends to the bulk endpoints      *)
  EventQueueSize,    (* capacity of EVENT_QUEUE                           *)
  IrqQueueSize,      (* capacity of irq_queue                             *)
  ControlQueueSize,  (* capacity of control_queue                         *)
  PacketBufferSize,  (* capacity of packet_buffer                         *)
  Patient,           (* the host finishes every control transfer          *)
  Careful,           (* the client leaves an armed OUT interface alone    *)
  MaxResets,         (* bus resets                                        *)
  MaxSessions,       (* connections                                       *)
  None               (* no address pending, no verb                       *)

Verbs == {"connect", "disconnect", "get_interrupt_events", "read_control",
          "read_endpoint", "ep_out_prime_receive", "ep_out_interface_enable",
          "configure_endpoints", "write_control_endpoint",
          "stall_endpoint_in", "stall_endpoint_out", "bus_reset"}

ASSUME MoondancerAssumption ==
  /\ BulkEndpoints \subseteq Nat \ {0}
  /\ TargetRequests \subseteq [request : Requests, value : 0 .. 2,
                               length : 0 .. MaxLength]
  /\ {NumPackets, MaxResets, MaxSessions} \subseteq Nat
  /\ {EventQueueSize, IrqQueueSize, ControlQueueSize, PacketBufferSize}
       \subseteq Nat \ {0}
  /\ NumPackets <= NumTransfers /\ (NumPackets > 0 => MaxLength > 0)
  /\ None \notin 0 .. 2 /\ None \notin Verbs

VARIABLES
  usb0,                 (* the controller; its OUT half serves every OUT  *)
  primed, data_ep,      (* endpoint: those primed, and the packet's       *)
  event_queue,          (* EVENT_QUEUE                                    *)
  stuck,                (* what spins for good: nothing, main loop, core  *)
  irq_queue, control_queue, packet_buffer, pending_set_address,
  target,               (* the host's control transfer                    *)
  sent, resets,         (* its bulk packets and bus resets                *)
  client, sessions      (* the client, and its connections                *)

queueVars == <<irq_queue, control_queue, packet_buffer, pending_set_address>>
outVars == <<primed, data_ep>>
targetVars == <<target, sent, resets>>
vars == <<usb0, outVars, event_queue, stuck, queueVars, targetVars,
          client, sessions>>

OutEndpoints == {0} \union BulkEndpoints

(* An event as the client sees it. tag is what raised it: the transfer of  *)
(* a SETUP packet, or the packet; the client does not get to know it.      *)
IrqEvent ==
  [type : {"BusReset"}, ep : {0}, tag : {<<>>}]
    \union [type : {"ReceiveControl"}, ep : {0}, tag : Transfers]
    \union [type : {"ReceivePacket"}, ep : OutEndpoints, tag : Seq(OutPacket)]

(* An event in EVENT_QUEUE. "Verb" stands for the events of usb2 that end  *)
(* with the execution of the client's verb.                                *)
Event ==
  [type : {"BusReset", "SendComplete", "Verb"}, ep : {0}, data : {<<>>}]
    \union [type : {"ReceiveSetupPacket"}, ep : {0}, data : SetupPacket]
    \union [type : {"ReceivePacket"}, ep : OutEndpoints, data : Seq(OutPacket)]

(* armed: the client believes that the OUT interface can receive. inbox:   *)
(* events fetched and not yet dealt with. setup: the request to answer.    *)
Client == [connected : BOOLEAN, verb : Verbs \union {None},
           ep : OutEndpoints, blocking : BOOLEAN,
           inbox : Seq(IrqEvent), setup : SetupPacket \union {NoSetup},
           armed : BOOLEAN]

Target == [stage : {"idle", "data", "status"},
           setup : SetupPacket \union {NoSetup},
           moved : 0 .. MaxLength, id : 0 .. NumTransfers]

Init ==
  /\ usb0 = Connected
  /\ primed = {}
  /\ data_ep = 0
  /\ event_queue = <<>>
  /\ stuck = "nothing"
  /\ irq_queue = <<>>
  /\ control_queue = <<>>
  /\ packet_buffer = <<>>
  /\ pending_set_address = None
  /\ target = [stage |-> "idle", setup |-> NoSetup, moved |-> 0, id |-> 0]
  /\ sent = 0
  /\ resets = 0
  /\ client = [connected |-> FALSE, verb |-> None, ep |-> 0,
               blocking |-> FALSE, inbox |-> <<>>, setup |-> NoSetup,
               armed |-> FALSE]
  /\ sessions = 0
-----------------------------------------------------------------------------
(* The interrupt handler, for usb0.                                        *)

Enqueue(event) ==
  \/ /\ Len(event_queue) < EventQueueSize
     /\ event_queue' = Append(event_queue, event)
     /\ UNCHANGED stuck
  \/ /\ Len(event_queue) >= EventQueueSize
     /\ event_queue' = <<>>
     /\ stuck' = "core"

MachineExternal ==
  /\ stuck # "core"
  /\ usb0.pending # {}
  /\ LET irq == HighestPending(usb0.pending)
         event(type, ep, data) == [type |-> type, ep |-> ep, data |-> data]
     IN  \/ /\ irq = "BusReset"
            /\ usb0' = BusReset(usb0)
            /\ Enqueue(event("BusReset", 0, <<>>))
         \/ /\ irq = "EpControl"
            /\ usb0' = ReadSetup(usb0)
            /\ Enqueue(event("ReceiveSetupPacket", 0, usb0.setup))
         \/ /\ irq = "EpIn"
            /\ usb0' = SendComplete(usb0)
            /\ Enqueue(event("SendComplete", 0, <<>>))
         \/ /\ irq = "EpOut"
            /\ usb0' = ClearPending(usb0, "EpOut")
            /\ Enqueue(event("ReceivePacket", data_ep, usb0.out))
  /\ UNCHANGED <<outVars, queueVars, targetVars, client, sessions>>
-----------------------------------------------------------------------------
(* Moondancer::dispatch_event, in the main loop.                           *)

MainRuns == stuck = "nothing" /\ usb0.pending = {} /\ usb0.tx.at = "none"

(* The verb whose execution has begun and not ended.                       *)
Executing ==
  /\ client.verb # None
  /\ \A i \in DOMAIN event_queue : event_queue[i].type # "Verb"

NextEvent(type) ==
  /\ MainRuns
  /\ ~ Executing
  /\ event_queue # <<>>
  /\ Head(event_queue).type = type
  /\ event_queue' = Tail(event_queue)

(* A full irq_queue drops the event.                                       *)
IrqEnqueue(event) ==
  irq_queue' = IF Len(irq_queue) < IrqQueueSize
               THEN Append(irq_queue, event) ELSE irq_queue

OnBusResetFlushes ==
  /\ NextEvent("BusReset")
  /\ pending_set_address' = None
  /\ control_queue' = <<>>
  /\ IrqEnqueue([type |-> "BusReset", ep |-> 0, tag |-> <<>>])
  /\ UNCHANGED <<usb0, outVars, stuck, packet_buffer, targetVars, client,
                 sessions>>

(* The queues are not flushed, whatever the comment there says: their      *)
(* events are still to be read.                                            *)
OnBusReset ==
  /\ NextEvent("BusReset")
  /\ pending_set_address' = None
  /\ IrqEnqueue([type |-> "BusReset", ep |-> 0, tag |-> <<>>])
  /\ UNCHANGED <<usb0, outVars, stuck, control_queue, packet_buffer,
                 targetVars, client, sessions>>

(* SET_ADDRESS is answered here, every other request by the client.        *)
OnSetAddress ==
  /\ NextEvent("ReceiveSetupPacket")
  /\ LET setup == Head(event_queue).data
     IN  /\ setup.request = "SetAddress"
         /\ pending_set_address' = setup.value
         /\ usb0' = WriteZlp(usb0, setup.id)
  /\ UNCHANGED <<outVars, stuck, irq_queue, control_queue, packet_buffer,
                 targetVars, client, sessions>>

(* A full control_queue stops the main loop for good.                      *)
OnSetup ==
  /\ NextEvent("ReceiveSetupPacket")
  /\ LET setup == Head(event_queue).data
     IN  /\ setup.request # "SetAddress"
         /\ \/ /\ Len(control_queue) < ControlQueueSize
               /\ control_queue' = Append(control_queue, setup)
               /\ IrqEnqueue([type |-> "ReceiveControl", ep |-> 0,
                              tag |-> setup.id])
               /\ UNCHANGED stuck
            \/ /\ Len(control_queue) >= ControlQueueSize
               /\ stuck' = "main"
               /\ UNCHANGED <<control_queue, irq_queue>>
  /\ UNCHANGED <<usb0, outVars, packet_buffer, pending_set_address,
                 targetVars, client, sessions>>

OnSendCompleteForwarded ==
  /\ NextEvent("SendComplete")
  /\ usb0' = IF pending_set_address = None THEN usb0
             ELSE SetAddress(usb0, pending_set_address)
  /\ pending_set_address' = None
  /\ IrqEnqueue([type |-> "SendComplete", ep |-> 0, tag |-> <<>>])
  /\ UNCHANGED <<outVars, stuck, control_queue, packet_buffer, targetVars,
                 client, sessions>>

OnSendComplete ==
  /\ NextEvent("SendComplete")
  /\ usb0' = IF pending_set_address = None THEN usb0
             ELSE SetAddress(usb0, pending_set_address)
  /\ pending_set_address' = None
  /\ UNCHANGED <<outVars, stuck, irq_queue, control_queue, packet_buffer,
                 targetVars, client, sessions>>

OnReceivePacketPrimesFirst ==
  /\ NextEvent("ReceivePacket")
  /\ LET event == Head(event_queue)
         primedUsb == EpOutPrimeReceive(usb0)
     IN  /\ packet_buffer' =
              IF Len(packet_buffer) < PacketBufferSize
              THEN Append(packet_buffer,
                          [ep |-> event.ep, data |-> primedUsb.out])
              ELSE packet_buffer
         /\ usb0' = Read(primedUsb)
         /\ IrqEnqueue([type |-> "ReceivePacket", ep |-> event.ep,
                        tag |-> event.data])
  /\ UNCHANGED <<outVars, stuck, control_queue, pending_set_address,
                 targetVars, client, sessions>>

(* A full packet_buffer drops the packet, but not its event.               *)
OnReceivePacket ==
  /\ NextEvent("ReceivePacket")
  /\ LET event == Head(event_queue)
     IN  /\ packet_buffer' =
              IF Len(packet_buffer) < PacketBufferSize
              THEN Append(packet_buffer, [ep |-> event.ep, data |-> usb0.out])
              ELSE packet_buffer
         /\ IrqEnqueue([type |-> "ReceivePacket", ep |-> event.ep,
                        tag |-> event.data])
  /\ usb0' = Read(usb0)
  /\ UNCHANGED <<outVars, stuck, control_queue, pending_set_address,
                 targetVars, client, sessions>>

DispatchEvent ==
  OnBusReset \/ OnSetAddress \/ OnSetup \/ OnSendComplete \/ OnReceivePacket
-----------------------------------------------------------------------------
(* The verbs, executed by the main loop when their turn comes.             *)

Execute(verb) ==
  /\ NextEvent("Verb")
  /\ client.verb = verb

(* connect and disconnect: pending events are acknowledged, OUT endpoints  *)
(* unprimed and the FIFOs cleared; TX_ACK_ACTIVE stays.                    *)
Detached(u) ==
  [u EXCEPT !.pending = {}, !.setup = NoSetup, !.in = <<>>,
            !.in_ready = FALSE, !.out = <<>>, !.out_enable = FALSE]

Connect ==
  /\ Execute("connect")
  /\ usb0' = Detached(usb0)
  /\ primed' = {}
  /\ client' = [client EXCEPT !.verb = None, !.connected = TRUE]
  /\ sessions' = sessions + 1
  /\ UNCHANGED <<data_ep, stuck, queueVars, targetVars>>

(* packet_buffer is not flushed.                                           *)
Disconnect ==
  /\ Execute("disconnect")
  /\ usb0' = SetAddress(Detached(usb0), 0)
  /\ primed' = {}
  /\ pending_set_address' = None
  /\ irq_queue' = <<>>
  /\ control_queue' = <<>>
  /\ client' = [client EXCEPT !.verb = None, !.connected = FALSE,
                  !.inbox = <<>>, !.setup = NoSetup, !.armed = FALSE]
  /\ target' = [target EXCEPT !.stage = "idle", !.setup = NoSetup,
                              !.moved = 0]
  /\ UNCHANGED <<data_ep, stuck, packet_buffer, sent, resets, sessions>>

GetInterruptEventsKeeps ==
  /\ Execute("get_interrupt_events")
  /\ client' = [client EXCEPT !.verb = None, !.inbox = irq_queue,
                  !.armed = @ /\ \A i \in DOMAIN irq_queue :
                                   irq_queue[i].type # "ReceivePacket"]
  /\ UNCHANGED <<usb0, outVars, stuck, queueVars, targetVars, sessions>>

GetInterruptEventsTruncates ==
  /\ Execute("get_interrupt_events")
  /\ irq_queue' = <<>>
  /\ client' = [client EXCEPT !.verb = None,
                  !.inbox = IF irq_queue = <<>> THEN <<>>
                            ELSE <<Head(irq_queue)>>]
  /\ UNCHANGED <<usb0, outVars, stuck, control_queue, packet_buffer,
                 pending_set_address, targetVars, sessions>>

(* Every event queued so far, oldest first.                                *)
GetInterruptEvents ==
  /\ Execute("get_interrupt_events")
  /\ irq_queue' = <<>>
  /\ client' = [client EXCEPT !.verb = None, !.inbox = irq_queue,
                  !.armed = @ /\ \A i \in DOMAIN irq_queue :
                                   irq_queue[i].type # "ReceivePacket"]
  /\ UNCHANGED <<usb0, outVars, stuck, control_queue, packet_buffer,
                 pending_set_address, targetVars, sessions>>

(* The bus reset has already happened: the client only forgets its request.*)
BusResetVerb ==
  /\ Execute("bus_reset")
  /\ client' = [client EXCEPT !.verb = None, !.setup = NoSetup,
                              !.inbox = Tail(@)]
  /\ UNCHANGED <<usb0, outVars, stuck, queueVars, targetVars, sessions>>

(* An empty control_queue stops the main loop for good.                    *)
ReadControl ==
  /\ Execute("read_control")
  /\ IF control_queue = <<>>
     THEN stuck' = "main" /\ UNCHANGED <<client, control_queue>>
     ELSE /\ client' = [client EXCEPT !.verb = None, !.inbox = Tail(@),
                          !.setup = Head(control_queue)]
          /\ control_queue' = Tail(control_queue)
          /\ UNCHANGED stuck
  /\ UNCHANGED <<usb0, outVars, irq_queue, packet_buffer,
                 pending_set_address, targetVars, sessions>>

(* The oldest packet of the endpoint, or an empty answer.                  *)
Remove(s, i) == SubSeq(s, 1, i - 1) \o SubSeq(s, i + 1, Len(s))

ReadEndpoint ==
  /\ Execute("read_endpoint")
  /\ LET buffered == {i \in DOMAIN packet_buffer :
                       packet_buffer[i].ep = client.ep}
         first == CHOOSE i \in buffered : \A j \in buffered : i <= j
     IN  packet_buffer' = IF buffered = {} THEN packet_buffer
                          ELSE Remove(packet_buffer, first)
  /\ client' = [client EXCEPT !.verb = None, !.inbox = Tail(@)]
  /\ UNCHANGED <<usb0, outVars, stuck, irq_queue, control_queue,
                 pending_set_address, targetVars, sessions>>

(* ep_out_prime_receive, ep_out_interface_enable and configure_endpoints:  *)
(* all discard an unread packet and enable the one OUT interface; they     *)
(* differ in the endpoints they prime.                                     *)
Primes(verb) ==
  CASE verb = "ep_out_prime_receive" -> {client.ep}
    [] verb = "ep_out_interface_enable" -> {}
    [] verb = "configure_endpoints" -> BulkEndpoints

ArmOut ==
  /\ \E verb \in {"ep_out_prime_receive", "ep_out_interface_enable",
                   "configure_endpoints"} :
       /\ Execute(verb)
       /\ primed' = primed \union Primes(verb)
  /\ usb0' = EpOutPrimeReceive(usb0)
  /\ client' = [client EXCEPT !.verb = None, !.armed = TRUE]
  /\ UNCHANGED <<data_ep, stuck, queueVars, targetVars, sessions>>

(* Answer the request: its data, or the ZLP of its status stage. The verb  *)
(* returns when the packet is primed, or, blocking, when it was sent.      *)
WriteControlEndpoint ==
  /\ Execute("write_control_endpoint")
  /\ LET setup == client.setup
     IN  IF setup.request = "In"
         THEN \E n \in 0 .. setup.length :
                \E packets \in Answers(setup.id, <<>>, n, setup.length) :
                  usb0' = WriteWithPacketSize(usb0, packets)
         ELSE usb0' = WriteZlp(usb0, setup.id)
  /\ client' = [client EXCEPT !.setup = NoSetup]
  /\ UNCHANGED <<outVars, stuck, queueVars, targetVars, sessions>>

StallEndpoint ==
  /\ \/ Execute("stall_endpoint_in") /\ usb0' = StallEndpointIn(usb0)
     \/ Execute("stall_endpoint_out") /\ usb0' = StallEndpointOut(usb0)
  /\ client' = [client EXCEPT !.verb = None, !.setup = NoSetup]
  /\ UNCHANGED <<outVars, stuck, queueVars, targetVars, sessions>>

HostPolls ==
  \/ target.stage = "data" /\ target.setup.request = "In"
  \/ target.stage = "status" /\ target.setup.request # "In"

NotTaken == ~ (HostPolls /\ SendsData(usb0))

(* The loops of write_with_packet_size, of the SET_ADDRESS acknowledgement *)
(* and of write_control_endpoint.                                          *)
WriteStep ==
  /\ stuck = "nothing" /\ usb0.pending = {}
  /\ \/ /\ DrainDone(usb0)
        /\ usb0' = [usb0 EXCEPT !.tx.at = "fill"]
     \/ /\ usb0.tx.at = "drain" /\ Have(usb0) /\ NotTaken
        /\ usb0' = DrainTimeout(usb0)
     \/ /\ usb0.tx.at = "fill"
        /\ usb0' = Fill(usb0)
     \/ /\ usb0.tx.at = "wait" /\ ~ usb0.tx_ack
        /\ usb0' = Sent(usb0)
     \/ /\ usb0.tx.at = "wait" /\ usb0.tx_ack /\ NotTaken
        /\ usb0' = WaitTimeout(usb0)
  /\ UNCHANGED <<outVars, event_queue, stuck, queueVars, targetVars,
                 client, sessions>>

(* The end of write_control_endpoint, after the wait of a blocking write.  *)
WriteControlEndpointDone ==
  /\ MainRuns
  /\ Executing
  /\ client.verb = "write_control_endpoint"
  /\ ~ client.blocking \/ ~ usb0.tx_ack \/ NotTaken
  /\ usb0' = [usb0 EXCEPT !.tx_ack = @ /\ ~ client.blocking]
  /\ client' = [client EXCEPT !.verb = None]
  /\ UNCHANGED <<outVars, event_queue, stuck, queueVars, targetVars, sessions>>

ExecuteVerb ==
  \/ Connect \/ Disconnect \/ GetInterruptEvents \/ BusResetVerb
  \/ ReadControl \/ ReadEndpoint \/ ArmOut
  \/ WriteControlEndpoint \/ WriteControlEndpointDone \/ StallEndpoint
-----------------------------------------------------------------------------
(* The client (external): one verb at a time, and no verb that its view of *)
(* the device does not call for. A disconnect is followed by a connect.    *)

Holds(type) == client.inbox # <<>> /\ Head(client.inbox).type = type

(* A verb that discards what is in the OUT FIFO.                           *)
MayDiscard == ~ Careful \/ ~ client.armed

MayCall(verb) ==
  /\ verb = "connect" <=> ~ client.connected
  /\ CASE verb \in {"connect", "disconnect"} -> sessions < MaxSessions
       [] verb = "get_interrupt_events" -> client.inbox = <<>>
       [] verb = "bus_reset" -> Holds("BusReset")
       [] verb = "read_control" -> Holds("ReceiveControl")
       [] verb = "read_endpoint" -> Holds("ReceivePacket")
       [] verb \in {"write_control_endpoint", "stall_endpoint_in"} ->
            client.setup # NoSetup
       [] verb = "stall_endpoint_out" -> client.setup # NoSetup /\ MayDiscard
       [] OTHER -> MayDiscard

EndpointsFor(verb) ==
  CASE verb = "read_endpoint" -> {Head(client.inbox).ep}
    [] verb = "ep_out_prime_receive" -> OutEndpoints
    [] OTHER -> {0}

ClientCalls ==
  /\ client.verb = None
  /\ stuck # "core"
  /\ \E verb \in {v \in Verbs : MayCall(v)}, blocking \in BOOLEAN :
       \E ep \in EndpointsFor(verb) :
         /\ blocking => verb = "write_control_endpoint"
         /\ client' = [client EXCEPT !.verb = verb, !.ep = ep,
                                     !.blocking = blocking]
  /\ Enqueue([type |-> "Verb", ep |-> 0, data |-> <<>>])
  /\ UNCHANGED <<usb0, outVars, queueVars, targetVars, sessions>>
-----------------------------------------------------------------------------
(* The host of the TARGET port (external).                                 *)

Ended == [target EXCEPT !.stage = "idle", !.setup = NoSetup, !.moved = 0]

(* The next stage, when one more packet of the data stage has moved.       *)
Moved(last) ==
  [target EXCEPT !.moved = @ + 1,
     !.stage = IF last \/ target.moved + 1 = target.setup.length
               THEN "status" ELSE "data"]

TargetSetup ==
  /\ client.connected
  /\ "BusReset" \notin usb0.pending
  /\ target.stage = "idle" \/ ~ Patient
  /\ target.id < NumTransfers
  /\ \E r \in TargetRequests :
       LET setup == [request |-> r.request, value |-> r.value,
                     length |-> r.length, id |-> target.id + 1]
       IN  /\ target' = [stage |-> IF r.length = 0 THEN "status" ELSE "data",
                         setup |-> setup, moved |-> 0, id |-> target.id + 1]
           /\ usb0' = AcceptSetup(usb0, setup)
  /\ UNCHANGED <<outVars, event_queue, stuck, queueVars, sent, resets,
                 client, sessions>>

TargetIn ==
  /\ client.connected
  /\ HostPolls
  /\ \/ /\ usb0.in_stall
        /\ target' = Ended
        /\ UNCHANGED usb0
     \/ /\ SendsData(usb0)
        /\ usb0' = TakeIn(usb0)
        /\ target' = IF target.stage = "status" THEN Ended
                     ELSE Moved(usb0.in[Len(usb0.in)].size # "full")
  /\ UNCHANGED <<outVars, event_queue, stuck, queueVars, sent, resets,
                 client, sessions>>

Receives(ep) == client.connected /\ AcceptsOut(usb0) /\ ep \in primed

TargetOut ==
  /\ \/ /\ Receives(0)
        /\ target.stage = "data" /\ target.setup.request = "Out"
        /\ usb0' = AcceptOut(usb0, << [id |-> target.id,
                                       i |-> target.moved + 1] >>)
        /\ target' = Moved(FALSE)
     \/ /\ Receives(0)
        /\ target.stage = "status" /\ target.setup.request = "In"
        /\ usb0' = AcceptOut(usb0, <<>>)
        /\ target' = Ended
     \/ /\ client.connected /\ usb0.out_stall
        /\ target.stage = "data" /\ target.setup.request = "Out"
        /\ target' = Ended
        /\ UNCHANGED usb0
  /\ data_ep' = IF usb0' = usb0 THEN data_ep ELSE 0
  /\ UNCHANGED <<primed, event_queue, stuck, queueVars, sent, resets,
                 client, sessions>>

(* A packet to a bulk endpoint: the host sends what it has whenever it can.*)
TargetBulk ==
  /\ sent < NumPackets
  /\ sent' = sent + 1
  /\ \E ep \in BulkEndpoints :
       /\ Receives(ep)
       /\ usb0' = AcceptOut(usb0, << [id |-> sent + 1, i |-> 1] >>)
       /\ data_ep' = ep
  /\ UNCHANGED <<primed, event_queue, stuck, queueVars, target, resets,
                 client, sessions>>

TargetReset ==
  /\ client.connected
  /\ resets < MaxResets
  /\ resets' = resets + 1
  /\ usb0' = ResetSignal(usb0)
  /\ target' = Ended
  /\ UNCHANGED <<outVars, event_queue, stuck, queueVars, sent, client,
                 sessions>>

TargetHost ==
  TargetSetup \/ TargetIn \/ TargetOut \/ TargetBulk \/ TargetReset
-----------------------------------------------------------------------------
MainLoop == DispatchEvent \/ ExecuteVerb \/ WriteStep

Next == MachineExternal \/ MainLoop \/ ClientCalls \/ TargetHost

(* The core always executes, and a host that polls takes what is primed:   *)
(* nothing else is assumed of the host, and nothing of the client.         *)
Spec == /\ Init /\ [][Next]_vars
        /\ WF_vars(MachineExternal) /\ WF_vars(MainLoop) /\ WF_vars(TargetIn)
-----------------------------------------------------------------------------
TypeOK ==
  /\ usb0 \in Usb
  /\ primed \subseteq OutEndpoints /\ data_ep \in OutEndpoints
  /\ event_queue \in Seq(Event)
  /\ stuck \in {"nothing", "main", "core"}
  /\ irq_queue \in Seq(IrqEvent)
  /\ control_queue \in Seq(SetupPacket)
  /\ packet_buffer \in Seq([ep : OutEndpoints, data : Seq(OutPacket)])
  /\ pending_set_address \in 0 .. 2 \union {None}
  /\ target \in Target
  /\ sent \in 0 .. NumPackets /\ resets \in 0 .. MaxResets
  /\ client \in Client /\ sessions \in 0 .. MaxSessions
-----------------------------------------------------------------------------
(* The events the client has not dealt with, oldest first.                 *)
Fetched == client.inbox \o irq_queue

(* The events of EventStream: those fetched, with the data their verb will *)
(* return, then those still in EVENT_QUEUE, with the data they will be     *)
(* given when they are dispatched. A datum that is gone is None.           *)
WithData(type, ep, data) == [type |-> type, ep |-> ep, data |-> data]

FetchedItem(i) ==
  LET event == Fetched[i]
      same == {j \in 1 .. i : Fetched[j].type = event.type
                              /\ Fetched[j].ep = event.ep}
      packets == SelectSeq(packet_buffer, LAMBDA packet : packet.ep = event.ep)
      n == Cardinality(same)
  IN  WithData(event.type, event.ep,
           CASE event.type = "BusReset" -> <<>>
             [] event.type = "ReceiveControl" ->
                  IF n <= Len(control_queue) THEN control_queue[n] ELSE None
             [] event.type = "ReceivePacket" ->
                  IF n <= Len(packets) THEN packets[n].data ELSE None)

Undispatched ==
  SelectSeq(event_queue,
            LAMBDA event : \/ event.type \in {"BusReset", "ReceivePacket"}
                           \/ /\ event.type = "ReceiveSetupPacket"
                              /\ event.data.request # "SetAddress")

UndispatchedItem(event) ==
  CASE event.type = "BusReset" -> WithData("BusReset", 0, <<>>)
    [] event.type = "ReceiveSetupPacket" ->
         WithData("ReceiveControl", 0, event.data)
    [] event.type = "ReceivePacket" ->
         WithData("ReceivePacket", event.ep, usb0.out)

Stream == INSTANCE EventStream WITH
  Item <- [type : {"BusReset"}, ep : {0}, data : {<<>>}]
            \union [type : {"ReceiveControl"}, ep : {0}, data : SetupPacket]
            \union [type : {"ReceivePacket"}, ep : OutEndpoints,
                    data : {<<>>} \union {<<p>> : p \in OutPacket}],
  stream <- [i \in DOMAIN Fetched |-> FetchedItem(i)]
              \o [i \in DOMAIN Undispatched |->
                    UndispatchedItem(Undispatched[i])],
  connected <- client.connected

(* The class delivers every event once, in order, with its data: the verbs *)
(* of a client that answers its events join what dispatch_event separated. *)
EventsDelivered == Stream!Spec

(* The main loop stops only for a control_queue that is really full: never *)
(* because a client that holds an event finds its packet gone, even when   *)
(* irq_queue drops events (dispatch_event, read_control).                  *)
StopsOnlyWhenFull ==
  stuck = "main" => Len(control_queue) = ControlQueueSize

(* Nothing spins for good: the queues are large enough for a host that     *)
(* finishes its transfers and a client that answers its events, and no     *)
(* event is fetched twice (dispatch_event, read_control).                  *)
NeverStuck == stuck = "nothing"

(* Every verb is answered, whatever the host of the TARGET port does: the  *)
(* waits of the driver and of write_control_endpoint end.                  *)
VerbsAnswered == client.verb # None ~> client.verb = None
=============================================================================
