---------------------------- MODULE InEndpoints ----------------------------
(***************************************************************************)
(* The IN side of usb0: the one transmit FIFO that every IN endpoint of    *)
(* the emulated device shares, write_endpoint of the moondancer class that *)
(* fills it for a client, and the acknowledgement of SET_ADDRESS, which    *)
(* the class writes itself into the same FIFO. The host of the TARGET port *)
(* addresses the device and polls the endpoints it likes                   *)
(* (firmware/moondancer/src/gcp/moondancer.rs, lunasoc-hal/src/usb.rs).    *)
(*                                                                         *)
(* Moondancer models the queues between host and client with endpoint 0    *)
(* as the only IN endpoint, a packet at a time; here data is counted in    *)
(* bytes, because a bus reset may come between two of them.                *)
(***************************************************************************)
EXTENDS Integers, Sequences

CONSTANTS
  Endpoints,   (* IN endpoints other than 0                               *)
  PacketSize,  (* their ep_in_max_packet_size                             *)
  Payloads,    (* <<endpoint, length>> of what the client may write       *)
  NumWrites,   (* calls of write_endpoint                                 *)
  Addresses,   (* addresses the host may assign                           *)
  MaxResets,   (* bus resets                                              *)
  Late,        (* calls may overlap the assignment of an address          *)
  None         (* no address                                              *)

(* A client configures an endpoint before it writes to it: the size of one *)
(* that is not configured is 0, and the first byte written divides by it.  *)
ASSUME InEndpointsAssumption ==
  /\ Endpoints \subseteq Nat \ {0}
  /\ PacketSize \in [Endpoints -> Nat \ {0}]
  /\ Payloads \subseteq Endpoints \X Nat
  /\ {NumWrites, MaxResets} \subseteq Nat
  /\ Addresses \subseteq Nat \ {0}
  /\ Late \in BOOLEAN
  /\ None \notin Nat

(* A client that makes packets itself: no payload ends with a packet of no *)
(* bytes.                                                                  *)
NoEmptyPackets ==
  \A payload \in Payloads :
    LET size == PacketSize[payload[1]]
    IN  payload[2] = size \/ payload[2] % size # 0

VARIABLES
  ep_in,                (* the EP_IN registers                            *)
  address,              (* the address register                           *)
  setup,                (* the SET_ADDRESS that was not read yet          *)
  pending,              (* interrupts                                     *)
  tx_ack_active,        (* TX_ACK_ACTIVE                                  *)
  event_queue,          (* EVENT_QUEUE                                    *)
  pending_set_address,
  write,                (* the write the main loop is inside of           *)
  call,                 (* the client's call of write_endpoint            *)
  host,                 (* the host of the TARGET port                    *)
  received,             (* the bytes it took from each endpoint           *)
  resets                (* bus resets so far                              *)

usbVars == <<ep_in, address, setup, pending, tx_ack_active>>
hostVars == <<host, received, resets>>
vars == <<usbVars, event_queue, pending_set_address, write, call, hostVars>>

AllEndpoints == {0} \union Endpoints

(* The i-th byte of the id-th payload, which was written to ep.            *)
Byte == [ep : Endpoints, id : 1 .. NumWrites, i : Nat]

EpIn == [fifo : Seq(Byte), epno : AllEndpoints, primed : BOOLEAN]

Irq == {"BusReset", "EpControl", "EpIn"}

(* of: the address of a SET_ADDRESS, the endpoint of a SendComplete. "Verb"*)
(* stands for the events of usb2 that end with the execution of a verb.    *)
Event == [type : {"BusReset", "ReceiveSetupPacket", "SendComplete", "Verb"},
          of : Nat]

(* Where a write is: "drain" waits for an empty FIFO, "bytes" is about to  *)
(* write the next byte, "prime" about to write epno, "sent" waits until a  *)
(* full packet was sent, "block" until the last one was. fill counts the   *)
(* bytes of the packet begun, which are bytes_written % max_packet_size.   *)
Write == [at : {"none", "drain", "bytes", "prime", "sent", "block"},
          ep : AllEndpoints, left : Nat, fill : Nat]

Call == [state : {"none", "called", "executing", "Ok", "Err"},
         ep : Endpoints, id : 0 .. NumWrites, length : Nat,
         blocking : BOOLEAN, resets : 0 .. MaxResets]

(* stage is "status" while the host waits for the acknowledgement of the   *)
(* address it asks for; answered is the last one it had an answer to.      *)
Host == [address : {0} \union Addresses, stage : {"none", "status"},
         asks : {0} \union Addresses, answered : {0} \union Addresses,
         polls : SUBSET Endpoints]

Init ==
  /\ ep_in = [fifo |-> <<>>, epno |-> 0, primed |-> FALSE]
  /\ address = 0
  /\ setup = None
  /\ pending = {}
  /\ tx_ack_active = [ep \in AllEndpoints |-> FALSE]
  /\ event_queue = <<>>
  /\ pending_set_address = None
  /\ write = [at |-> "none", ep |-> 0, left |-> 0, fill |-> 0]
  /\ call \in [state : {"none"}, ep : Endpoints, id : {0}, length : {0},
               blocking : {FALSE}, resets : {0}]
  /\ host = [address |-> 0, stage |-> "none", asks |-> 0, answered |-> 0,
             polls |-> {}]
  /\ received = [ep \in Endpoints |-> <<>>]
  /\ resets = 0
-----------------------------------------------------------------------------
(* The registers.                                                          *)

Have == ep_in.fifo # <<>>

(* ep_in.reset: the packet is gone, and nothing is left to send.           *)
Cleared == [ep_in EXCEPT !.fifo = <<>>, !.primed = FALSE]

(* Writing epno makes what is in the FIFO a packet of that endpoint.       *)
PrimedFor(ep) == [ep_in EXCEPT !.epno = ep, !.primed = TRUE]

SetTxAck(ep, active) == tx_ack_active' = [tx_ack_active EXCEPT ![ep] = active]
-----------------------------------------------------------------------------
(* The interrupt handler: the highest number first, each made an event.    *)

Enqueue(type, of) ==
  event_queue' = Append(event_queue, [type |-> type, of |-> of])

OnEpIn ==
  /\ "EpIn" \in pending
  /\ pending' = pending \ {"EpIn"}
  /\ SetTxAck(ep_in.epno, FALSE)
  /\ Enqueue("SendComplete", ep_in.epno)
  /\ UNCHANGED <<ep_in, address, setup>>

OnEpControl ==
  /\ "EpControl" \in pending /\ "EpIn" \notin pending
  /\ pending' = pending \ {"EpControl"}
  /\ setup' = None
  /\ Enqueue("ReceiveSetupPacket", setup)
  /\ UNCHANGED <<ep_in, address, tx_ack_active>>

(* bus_reset() also acknowledges what became pending meanwhile.            *)
OnReset ==
  /\ pending = {"BusReset"}
  /\ pending' = {}
  /\ address' = 0
  /\ setup' = None
  /\ ep_in' = Cleared
  /\ tx_ack_active' = [ep \in AllEndpoints |-> FALSE]
  /\ Enqueue("BusReset", 0)

MachineExternal ==
  /\ OnEpIn \/ OnEpControl \/ OnReset
  /\ UNCHANGED <<pending_set_address, write, call, hostVars>>
-----------------------------------------------------------------------------
(* dispatch_event, in the main loop. A write ends before the next event.   *)

NextEvent(type) ==
  /\ pending = {} /\ write.at = "none"
  /\ event_queue # <<>>
  /\ Head(event_queue).type = type
  /\ event_queue' = Tail(event_queue)

BeginWrite(ep, length) ==
  /\ write' = [at |-> "drain", ep |-> ep, left |-> length, fill |-> 0]
  /\ SetTxAck(ep, TRUE)

BusReset ==
  /\ NextEvent("BusReset")
  /\ pending_set_address' = None
  /\ UNCHANGED <<usbVars, write, call, hostVars>>

SetAddressAtOnce ==
  /\ NextEvent("ReceiveSetupPacket")
  /\ address' = Head(event_queue).of
  /\ BeginWrite(0, 0)
  /\ UNCHANGED <<ep_in, setup, pending, pending_set_address, call, hostVars>>

SetAddress ==
  /\ NextEvent("ReceiveSetupPacket")
  /\ pending_set_address' = Head(event_queue).of
  /\ BeginWrite(0, 0)
  /\ UNCHANGED <<ep_in, address, setup, pending, call, hostVars>>

(* Whichever endpoint the packet was sent on.                              *)
SendComplete ==
  /\ NextEvent("SendComplete")
  /\ address' = IF pending_set_address = None THEN address
                ELSE pending_set_address
  /\ pending_set_address' = None
  /\ UNCHANGED <<ep_in, setup, pending, tx_ack_active, write, call, hostVars>>

WriteEndpoint ==
  /\ NextEvent("Verb")
  /\ BeginWrite(call.ep, call.length)
  /\ call' = [call EXCEPT !.state = "executing", !.resets = resets]
  /\ UNCHANGED <<ep_in, address, setup, pending, pending_set_address,
                 hostVars>>

DispatchEvent == BusReset \/ SetAddress \/ SendComplete \/ WriteEndpoint
-----------------------------------------------------------------------------
(* The loops of write_endpoint, and of write_with_packet_size for the      *)
(* acknowledgement, which is a write to endpoint 0 that has no bytes.      *)

Writing(at) == pending = {} /\ write.at = at

Acknowledges == write.ep = 0

Returns(result) ==
  /\ write' = [write EXCEPT !.at = "none", !.left = 0, !.fill = 0]
  /\ call' = IF Acknowledges THEN call ELSE [call EXCEPT !.state = result]

(* The host takes the packet before a loop gives up on it.                 *)
Polls(ep) ==
  /\ address = host.address
  /\ IF ep = 0 THEN host.stage = "status" ELSE ep \in host.polls

NotTaken == ~ (ep_in.primed /\ Polls(ep_in.epno))

DrainIgnored ==
  /\ Writing("drain")
  /\ write' = [write EXCEPT !.at = "bytes"]
  /\ UNCHANGED <<ep_in, tx_ack_active, call>>

Drain ==
  /\ Writing("drain") /\ ~ Have
  /\ write' = [write EXCEPT !.at = "bytes"]
  /\ UNCHANGED <<ep_in, tx_ack_active, call>>

DrainTimeoutKeepsFifo ==
  /\ Writing("drain") /\ Have /\ NotTaken
  /\ SetTxAck(write.ep, FALSE)
  /\ Returns("Err")
  /\ UNCHANGED ep_in

DrainTimeout ==
  /\ Writing("drain") /\ Have /\ NotTaken
  /\ ep_in' = Cleared
  /\ SetTxAck(write.ep, FALSE)
  /\ Returns("Err")

NextByte == [ep |-> write.ep, id |-> call.id, i |-> call.length - write.left + 1]

AddByte == ep_in' = [ep_in EXCEPT !.fifo = Append(@, NextByte)]

IsFull(fill) == ~ Acknowledges /\ fill = PacketSize[write.ep]

WriteByteOneMore ==
  /\ Writing("bytes")
  /\ AddByte
  /\ LET full == IsFull(write.fill + 1)
     IN  /\ write' = [write EXCEPT !.left = @ - 1, !.fill = @ + 1,
                        !.at = IF full THEN "prime" ELSE "bytes"]
         /\ SetTxAck(write.ep, full)
  /\ UNCHANGED call

WriteByte ==
  /\ Writing("bytes") /\ write.left > 0
  /\ AddByte
  /\ \/ /\ IsFull(write.fill + 1)
        /\ write' = [write EXCEPT !.left = @ - 1, !.fill = @ + 1,
                                  !.at = "prime"]
        /\ SetTxAck(write.ep, TRUE)
     \/ /\ ~ IsFull(write.fill + 1)
        /\ write' = [write EXCEPT !.left = @ - 1, !.fill = @ + 1]
        /\ UNCHANGED tx_ack_active
  /\ UNCHANGED call

(* A payload of a single full packet is not ended by a packet of its own,  *)
(* one of several is.                                                      *)
EndPayload ==
  /\ Writing("bytes") /\ write.left = 0
  /\ \/ /\ IsFull(call.length)
        /\ write' = [write EXCEPT !.at = "block"]
        /\ UNCHANGED tx_ack_active
     \/ /\ ~ IsFull(call.length)
        /\ write' = [write EXCEPT !.at = "prime"]
        /\ SetTxAck(write.ep, TRUE)
  /\ UNCHANGED <<ep_in, call>>

(* Only a full packet is always waited for.                                *)
Prime ==
  /\ Writing("prime")
  /\ ep_in' = PrimedFor(write.ep)
  /\ write' = [write EXCEPT !.at = IF IsFull(write.fill) THEN "sent" ELSE "block",
                            !.fill = 0]
  /\ UNCHANGED <<tx_ack_active, call>>

SentUnawaited ==
  /\ Writing("sent")
  /\ write' = [write EXCEPT !.at = "bytes"]
  /\ UNCHANGED <<ep_in, tx_ack_active, call>>

Sent ==
  /\ Writing("sent") /\ ~ tx_ack_active[write.ep]
  /\ write' = [write EXCEPT !.at = "bytes"]
  /\ UNCHANGED <<ep_in, tx_ack_active, call>>

(* Only write_endpoint may be asked to wait for its last packet.           *)
Blocks == ~ Acknowledges /\ call.blocking

WriteDone ==
  /\ Writing("block")
  /\ ~ Blocks \/ ~ tx_ack_active[write.ep]
  /\ Returns("Ok")
  /\ UNCHANGED <<ep_in, tx_ack_active>>

WriteTimeoutNever == FALSE

(* The packet stays primed: only what waits for it gives up.               *)
WriteTimeout ==
  /\ \/ Writing("sent")
     \/ Writing("block") /\ Blocks
  /\ tx_ack_active[write.ep] /\ NotTaken
  /\ SetTxAck(write.ep, FALSE)
  /\ Returns("Err")
  /\ UNCHANGED ep_in

WriteStep ==
  /\ \/ Drain \/ DrainTimeout \/ WriteByte \/ EndPayload \/ Prime
     \/ Sent \/ WriteDone \/ WriteTimeout
  /\ UNCHANGED <<address, setup, pending, event_queue, pending_set_address,
                 hostVars>>

MainLoop == DispatchEvent \/ WriteStep
-----------------------------------------------------------------------------
(* The client (external): one call at a time, whenever it likes. It does   *)
(* not know of a bus reset before it fetches its event, and it has done so *)
(* when the host assigns an address unless it is Late.                     *)
Settled == call.state \notin {"called", "executing"}

ClientCalls ==
  /\ host.stage = "none" \/ Late
  /\ Settled
  /\ call.id < NumWrites
  /\ \E payload \in Payloads, blocking \in BOOLEAN :
       call' = [state |-> "called", ep |-> payload[1], id |-> call.id + 1,
                length |-> payload[2], blocking |-> blocking,
                resets |-> resets]
  /\ Enqueue("Verb", 0)
  /\ UNCHANGED <<usbVars, pending_set_address, write, hostVars>>
-----------------------------------------------------------------------------
(* The host of the TARGET port (external).                                 *)

HostReset ==
  /\ resets < MaxResets
  /\ resets' = resets + 1
  /\ address' = 0
  /\ pending' = pending \union {"BusReset"}
  /\ host' = [host EXCEPT !.address = 0, !.stage = "none", !.asks = 0,
                          !.polls = {}]
  /\ UNCHANGED <<ep_in, setup, tx_ack_active, event_queue,
                 pending_set_address, write, call, received>>

HostSetsAddress ==
  /\ Settled \/ Late
  /\ host.address = 0 /\ host.stage = "none"
  /\ address = 0 /\ "BusReset" \notin pending
  /\ \E a \in Addresses :
       /\ setup' = a
       /\ host' = [host EXCEPT !.stage = "status", !.asks = a]
  /\ pending' = pending \union {"EpControl"}
  /\ UNCHANGED <<ep_in, address, tx_ack_active, event_queue,
                 pending_set_address, write, call, received, resets>>

(* An IN transaction takes the packet that is primed.                      *)
Takes(ep) ==
  /\ ep_in.primed /\ ep_in.epno = ep /\ Polls(ep)
  /\ ep_in' = Cleared
  /\ pending' = pending \union {"EpIn"}
  /\ UNCHANGED <<address, setup, tx_ack_active, event_queue,
                 pending_set_address, write, call, resets>>

(* A status stage that carries data is an error: the address stays 0.      *)
HostTakesStatus ==
  /\ Takes(0)
  /\ host' = [host EXCEPT !.stage = "none", !.answered = host.asks,
                 !.address = IF ep_in.fifo = <<>> THEN host.asks ELSE 0]
  /\ UNCHANGED received

HostTakesPacket ==
  /\ \E ep \in Endpoints :
       /\ Takes(ep)
       /\ received' = [received EXCEPT ![ep] = @ \o ep_in.fifo]
  /\ UNCHANGED host

(* It gives up on a device that has nothing left to do.                    *)
HostGivesUp ==
  /\ host.stage = "status"
  /\ pending = {} /\ event_queue = <<>> /\ write.at = "none"
  /\ NotTaken
  /\ host' = [host EXCEPT !.stage = "none"]
  /\ UNCHANGED <<usbVars, event_queue, pending_set_address, write, call,
                 received, resets>>

(* An addressed host polls the endpoints it has something to read from.    *)
HostPolls ==
  /\ host.address # 0
  /\ \E polls \in SUBSET Endpoints : host' = [host EXCEPT !.polls = polls]
  /\ UNCHANGED <<usbVars, event_queue, pending_set_address, write, call,
                 received, resets>>

HostTakes == HostTakesStatus \/ HostTakesPacket

TargetHost ==
  HostReset \/ HostSetsAddress \/ HostTakes \/ HostGivesUp \/ HostPolls
-----------------------------------------------------------------------------
Next == MachineExternal \/ MainLoop \/ ClientCalls \/ TargetHost

(* The core always executes; a host takes what it polls for again and      *)
(* again, and gives up on a device that is silent. Nothing is assumed of   *)
(* the client.                                                             *)
Spec == /\ Init /\ [][Next]_vars
        /\ WF_vars(MachineExternal) /\ WF_vars(MainLoop)
        /\ SF_vars(HostTakes) /\ WF_vars(HostGivesUp)
-----------------------------------------------------------------------------
TypeOK ==
  /\ ep_in \in EpIn
  /\ address \in {0} \union Addresses
  /\ setup \in Addresses \union {None}
  /\ "EpControl" \in pending => setup # None
  /\ pending \subseteq Irq
  /\ tx_ack_active \in [AllEndpoints -> BOOLEAN]
  /\ event_queue \in Seq(Event)
  /\ pending_set_address \in Addresses \union {None}
  /\ write \in Write
  /\ call \in Call
  /\ host \in Host
  /\ received \in [Endpoints -> Seq(Byte)]
  /\ resets \in 0 .. MaxResets

(* "This queue should only ever contain a single packet" (lunasoc.svd):    *)
(* whatever was given up or reset, the FIFO holds bytes of one payload, and*)
(* no more than fit the packets of its endpoint (write_endpoint).          *)
SinglePacket ==
  \A i, j \in DOMAIN ep_in.fifo :
    /\ ep_in.fifo[i].id = ep_in.fifo[j].id
    /\ ep_in.fifo[i].ep = ep_in.fifo[j].ep
    /\ Len(ep_in.fifo) <= PacketSize[ep_in.fifo[i].ep]

(* A host reads from an endpoint what was written to it, in the order it   *)
(* was written and nothing twice, while several endpoints share the FIFO.  *)
(* There are NoEmptyPackets: one would be primed over an empty FIFO, which *)
(* the next write finds free to use (write_endpoint).                      *)
Before(b, c) == b.id < c.id \/ (b.id = c.id /\ b.i < c.i)

InOrder ==
  \A ep \in Endpoints :
    LET bytes == received[ep]
    IN  /\ \A i \in DOMAIN bytes : bytes[i].ep = ep
        /\ \A i \in 2 .. Len(bytes) : Before(bytes[i - 1], bytes[i])

(* A blocking write that returns without an error has been taken whole by  *)
(* the host, unless the bus was reset meanwhile (write_endpoint).          *)
OkMeansDelivered ==
  call.state = "Ok" /\ call.blocking /\ call.resets = resets
    => LET bytes == received[call.ep]
           before == Len(bytes) - call.length
       IN  /\ before >= 0
           /\ \A i \in 1 .. call.length :
                bytes[before + i] = [ep |-> call.ep, id |-> call.id, i |-> i]

(* What a client writes is what a host reads: in order, nothing twice, and *)
(* all of what was reported to the client as written.                      *)
Delivered == InOrder /\ OkMeansDelivered

(* The device takes an address only after the status stage in which the    *)
(* host asked for that address was answered, although the SendComplete of  *)
(* any endpoint applies it, unless a bus reset that ends the assignment    *)
(* still waits behind it in the queue (dispatch_event).                    *)
ResetWaits == \E i \in DOMAIN event_queue : event_queue[i].type = "BusReset"

AddressAfterAnswer ==
  [][address' \notin {0, address} => address' = host.answered \/ ResetWaits]_vars

(* Whatever a client that has not heard of a bus reset still writes, a     *)
(* host that keeps trying succeeds in addressing the device.               *)
Addressed == host.address # 0 /\ address = host.address

Enumerates ==
  []<> (host.stage = "status" \/ Addressed) => <> Addressed

(* Every call returns, even to a client that writes to an endpoint no host *)
(* polls (write_endpoint).                                                 *)
CallsReturn == ~ Settled ~> Settled
=============================================================================
