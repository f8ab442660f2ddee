----------------------------- MODULE AcmSerial -----------------------------
(***************************************************************************)
(* The example acm_serial: a CDC-ACM serial port that echoes what it       *)
(* receives on endpoint 4, in capital letters                              *)
(* (firmware/moondancer/examples/acm_serial.rs).                           *)
(*                                                                         *)
(* A host opens the port with SET_LINE_CODING, sends packets, reads their  *)
(* echoes, and closes it.                                                  *)
(***************************************************************************)
EXTENDS ExampleDevice

CONSTANTS
  NumPackets,        (* packets sent while the port is open               *)
  FullPackets,       (* those of maximum packet size                      *)
  Orderly            (* no control transfers while the port is open, and  *)
                     (* it is not closed before all echoes have come      *)

AcmAssumption ==
  /\ NumPackets \in 1 .. NumTransfers
  /\ FullPackets \subseteq 1 .. NumPackets
  /\ Orderly \in BOOLEAN

VARIABLE port        (* the host's serial port                            *)

vars == <<exampleVars, port>>

DataEp == 4

Port == [state : {"closed", "opening", "open"},
         sent : 0 .. NumPackets, echoed : 0 .. NumPackets]

Closed == [state |-> "closed", sent |-> 0, echoed |-> 0]

Packet(n) == << [id |-> n, i |-> 1] >>

Init == ExampleInit /\ port = Closed
-----------------------------------------------------------------------------
(* The interrupt handler: it names the endpoint that epno selects, and     *)
(* primes endpoint 4 on a bus reset, of which Control is not told.         *)
MachineExternal ==
  /\ \/ EndpointInterrupt(out_epno)
     \/ /\ BusResetInterrupt
        /\ usb' = EpOutPrimeReceive(BusReset(usb))
        /\ Selects(DataEp)
        /\ UNCHANGED <<event_queue, halted>>
  /\ UNCHANGED port

(* The packets written back for one received: a full one is followed by a  *)
(* ZLP, an empty one is a ZLP itself.                                      *)
Echo(data) ==
  LET packet(of, size) == [id |-> 1, of |-> of, size |-> size]
  IN  CASE data = <<>> -> << packet(<<>>, "zlp") >>
        [] data # <<>> /\ data[1].id \in FullPackets
             -> << packet(data, "full"), packet(<<>>, "zlp") >>
        [] OTHER -> << packet(data, "short") >>

(* Nothing is received while the echo is on its way.                       *)
ReceiveDataPrimed ==
  /\ usb' = WriteWithPacketSize(EpOutPrimeReceive(usb), Echo(usb.out))
  /\ Selects(DataEp)
  /\ write_ep' = DataEp
  /\ UNCHANGED <<data_ep, in_epno>>

ReceiveData ==
  /\ usb' = WriteWithPacketSize(Read(usb), Echo(usb.out))
  /\ write_ep' = DataEp
  /\ UNCHANGED <<outVars, in_epno>>

(* On send complete, the next packet is received.                          *)
DataSent == PrimeReceive(DataEp) /\ UNCHANGED inVars

MainLoop ==
  /\ \E event \in {Head(event_queue) : i \in DOMAIN event_queue} :
       /\ Takes(event)
       /\ \/ OfControl(event) /\ ToControl(event)
          \/ /\ ~ OfControl(event)
             /\ \/ /\ event.type = "ReceivePacket" /\ event.ep = DataEp
                   /\ ReceiveData
                \/ /\ event.type = "SendComplete" /\ event.ep = DataEp
                   /\ DataSent
             /\ UNCHANGED <<next, configuration, rx_buffer, returned>>
  /\ UNCHANGED port

(* acm::serial::ClassRequest: all but SetLineCoding are told apart by      *)
(* their direction only.                                                   *)
ClassRequests == {"SetLineCoding", "ClassIn", "ClassOut"}

(* handle_class_request: SET_LINE_CODING opens endpoint 4, other class     *)
(* requests stall the direction opposite to their data, and anything else  *)
(* is only logged.                                                         *)
ClassRequest ==
  \/ /\ returned.request = "SetLineCoding"
     /\ PrimeReceive(DataEp)
     /\ UNCHANGED in_epno
  \/ /\ returned.request = "ClassIn"
     /\ usb' = StallEndpointOut(usb)
     /\ out_epno' = 0
     /\ UNCHANGED <<primed, data_ep, in_epno>>
  \/ /\ returned.request = "ClassOut"
     /\ usb' = StallEndpointIn(usb)
     /\ in_epno' = 0
     /\ UNCHANGED outVars
  \/ /\ returned.request \notin ClassRequests
     /\ UNCHANGED <<usb, outVars, in_epno>>

HandleClassRequest ==
  /\ MainRuns
  /\ returned # NoSetup
  /\ ClassRequest
  /\ returned' = NoSetup
  /\ UNCHANGED <<next, configuration, rx_buffer, write_ep, event_queue,
                 halted, transfer, resets, port>>

Reading == port.state = "open"

WriteIn == WriteStep(Reading) /\ UNCHANGED port
-----------------------------------------------------------------------------
(* The host (external).                                                    *)

HostSetup ==
  \E r \in HostRequests :
    /\ port.state \in IF Orderly THEN {"closed"} ELSE {"closed", "open"}
    /\ Opens(r)
    /\ port' = IF r.request = "SetLineCoding" /\ port.state = "closed"
               THEN [port EXCEPT !.state = "opening"] ELSE port

(* The port is open once its request has succeeded.                        *)
HostOpen ==
  /\ port.state = "opening" /\ Between
  /\ port' = IF transfer.stage = "done"
             THEN [port EXCEPT !.state = "open"] ELSE Closed
  /\ UNCHANGED exampleVars

HostSend ==
  /\ port.state = "open" /\ port.sent < NumPackets
  /\ SendsBulk(DataEp, Packet(port.sent + 1))
  /\ port' = [port EXCEPT !.sent = @ + 1]

(* The data of the packets in the FIFO; ZLPs add nothing to it.            *)
Contents == SelectSeq(usb.in, LAMBDA packet : packet.size # "zlp")

HostRead ==
  /\ Reading
  /\ TakesBulk(DataEp)
  /\ port' = [port EXCEPT !.echoed = IF Contents # <<>> /\ @ < NumPackets
                                     THEN @ + 1 ELSE @]

HostClose ==
  /\ port.state = "open"
  /\ Orderly => port.sent = port.echoed
  /\ transfer.stage \notin {"data", "status"}
  /\ port' = Closed
  /\ UNCHANGED exampleVars

Tokens == (HostIn \/ HostOut) /\ UNCHANGED port

GivesUp == HostTimeout /\ UNCHANGED port

Reset == HostBusReset /\ port' = Closed

Next ==
  \/ MachineExternal \/ MainLoop \/ HandleClassRequest \/ WriteIn
  \/ HostSetup \/ HostOpen \/ HostSend \/ HostRead \/ HostClose
  \/ Tokens \/ GivesUp \/ Reset

(* The core executes, and the host polls what it has asked for. It sends   *)
(* and closes when it likes.                                               *)
Spec == /\ Init /\ [][Next]_vars
        /\ WF_vars(MachineExternal) /\ WF_vars(MainLoop)
        /\ WF_vars(HandleClassRequest) /\ WF_vars(WriteIn)
        /\ WF_vars(Tokens) /\ WF_vars(GivesUp)
        /\ WF_vars(HostOpen) /\ WF_vars(HostRead)
-----------------------------------------------------------------------------
TypeOK == ExampleTypeOK /\ port \in Port

(* What the host reads are the packets it sent, one at a time and in       *)
(* order: none is echoed twice and none in place of another.               *)
EchoInOrder ==
  Reading /\ Offers(DataEp) /\ Contents # <<>>
    => /\ Len(Contents) = 1 /\ port.echoed < port.sent
       /\ Contents[1].of = Packet(port.echoed + 1)

(* The event of a packet names the endpoint the packet was sent to.        *)
EventNamesEndpoint ==
  [][Len(event_queue') > Len(event_queue)
       /\ event_queue'[Len(event_queue')].type = "ReceivePacket"
     => event_queue'[Len(event_queue')].ep = data_ep]_vars

(* Whatever is sent comes back, unless the bus is reset.                   *)
EveryPacketEchoed == port.sent > port.echoed ~> port.sent = port.echoed

(* The queue never overflows, which would stop the core for good.          *)
NeverHalted == ~ halted

(* A host that keeps asking for the same thing the program serves gets it, *)
(* whatever a bus reset of which Control was not told has left behind.     *)
Serves(r) ==
  \/ r.request \in {"SetAddress", "SetLineCoding"}
  \/ r.request = "GetDescriptor" /\ r.value = 0

Repeats(r) ==
  [] (Between \/ /\ transfer.setup.request = r.request
                 /\ transfer.setup.value = r.value)

Recovers ==
  \A r \in {r \in HostRequests : Serves(r)} :
    []<> ~ Between /\ <> Repeats(r) => []<> (transfer.stage = "done")
=============================================================================
