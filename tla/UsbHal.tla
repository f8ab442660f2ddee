------------------------------- MODULE UsbHal -------------------------------
(***************************************************************************)
(* The example usb_hal: a device that moves data over endpoint 0 and over  *)
(* the bulk endpoints 1 as vendor requests tell it to                      *)
(* (firmware/moondancer/examples/usb_hal.rs).                              *)
(*                                                                         *)
(* A host runs the tests of scripts/usb_hal.py against it, one after       *)
(* another. A test is named after its vendor request; the wIndex of the    *)
(* request, the length of the payload, is the value of a request here.     *)
(***************************************************************************)
EXTENDS ExampleDevice

VARIABLES
  handler,           (* where handle_vendor_request is after a write      *)
  test               (* the test the host is running                      *)

vars == <<exampleVars, handler, test>>

BulkEp == 1

Tests == {"ControlOut", "ControlIn", "BulkOut", "BulkIn"}

UsbHalAssumption ==
  /\ Tests \subseteq Requests
  /\ \A r \in HostRequests :
       /\ r.request \in Tests
       /\ r.request = "ControlOut" => r.length > 0
       /\ r.request = "ControlIn" => r.value < r.length
       /\ r.request = "BulkOut" => r.value > 0
       /\ r.request \in {"BulkOut", "BulkIn"} => r.length = 0

(* moved counts the packets on the bulk endpoint.                          *)
Test == [stage : {"none", "control", "out", "in"}, request : Tests,
         value : 0 .. 2, moved : 0 .. 3,
         result : {"none", "passed", "failed"}]

Init ==
  /\ ExampleInit
  /\ handler = "none"
  /\ test = [stage |-> "none", request |-> "ControlOut", value |-> 0,
             moved |-> 0, result |-> "none"]
-----------------------------------------------------------------------------
(* The interrupt handler: it names the endpoint of the packet.             *)
MachineExternal ==
  /\ \/ EndpointInterrupt(data_ep)
     \/ /\ BusResetInterrupt
        /\ usb' = BusReset(usb)
        /\ Enqueue(EventOf("BusReset", 0))
        /\ UNCHANGED <<primed, out_epno>>
  /\ UNCHANGED <<handler, test>>

(* A bulk packet is only counted; the endpoint is not primed again.        *)
ReceiveBulk == usb' = Read(usb) /\ UNCHANGED <<outVars, inVars>>

MainLoop ==
  /\ \E event \in {Head(event_queue) : i \in DOMAIN event_queue} :
       /\ Takes(event)
       /\ \/ OfControl(event) /\ ToControl(event)
          \/ /\ ~ OfControl(event)
             /\ \/ event.type = "ReceivePacket" /\ ReceiveBulk
                \/ /\ event.type = "SendComplete"
                   /\ UNCHANGED <<usb, outVars, inVars>>
             /\ UNCHANGED <<next, configuration, rx_buffer, returned>>
  /\ UNCHANGED <<handler, test>>
-----------------------------------------------------------------------------
(* The arms of handle_vendor_request.                                      *)

(* A payload of at least one byte: n full packets, and some bytes more or  *)
(* a ZLP.                                                                  *)
Payloads(id, n) ==
  {answer \in AnswersAlwaysTerminated(id, <<>>, n, n) :
     answer[1].size # "zlp"}

Returns == handler' = "none" /\ returned' = NoSetup

(* The data has come with the request.                                     *)
VendorControlOut ==
  /\ returned.request = "ControlOut"
  /\ Returns
  /\ UNCHANGED <<usb, outVars, write_ep>>

VendorControlIn ==
  /\ returned.request = "ControlIn" /\ handler = "none"
  /\ \E answer \in Payloads(returned.id, returned.value) :
       usb' = WriteWithPacketSize(usb, answer)
  /\ write_ep' = 0
  /\ handler' = "prime"
  /\ UNCHANGED <<outVars, returned>>

(* "prime endpoint to receive zlp ack from host"                           *)
ControlInWritten ==
  /\ handler = "prime"
  /\ PrimeReceive(0)
  /\ Returns
  /\ UNCHANGED write_ep

VendorBulkOut ==
  /\ returned.request = "BulkOut"
  /\ usb' = WriteZlp(EpOutPrimeReceive(usb), returned.id)
  /\ Selects(BulkEp)
  /\ write_ep' = 0
  /\ Returns
  /\ UNCHANGED data_ep

VendorBulkIn ==
  /\ returned.request = "BulkIn" /\ handler = "none"
  /\ usb' = WriteZlp(usb, returned.id)
  /\ write_ep' = 0
  /\ handler' = "wait"
  /\ UNCHANGED <<outVars, returned>>

(* "wait for zlp to be sent", then "send requested data"                   *)
BulkIn ==
  /\ handler = "wait" /\ ~ usb.tx_ack
  /\ \E answer \in Payloads(returned.id, returned.value) :
       usb' = WriteWithPacketSize(usb, answer)
  /\ write_ep' = BulkEp
  /\ Returns
  /\ UNCHANGED outVars

(* The host polls the bulk endpoint once the request has succeeded.        *)
Reading ==
  /\ test.request = "BulkIn"
  /\ \/ test.stage = "in"
     \/ test.stage = "control" /\ transfer.stage = "done"

BulkInTimeout ==
  /\ handler = "wait" /\ usb.tx_ack /\ NotTaken(Reading)
  /\ Returns
  /\ UNCHANGED <<usb, outVars, write_ep>>

HandleVendorRequest ==
  /\ MainRuns
  /\ returned # NoSetup /\ usb.tx.at = "none"
  /\ \/ VendorControlOut \/ VendorControlIn \/ ControlInWritten
     \/ VendorBulkOut \/ VendorBulkIn \/ BulkIn \/ BulkInTimeout
  /\ UNCHANGED <<next, configuration, rx_buffer, in_epno, event_queue,
                 halted, transfer, resets, test>>

WriteIn == WriteStep(Reading) /\ UNCHANGED <<handler, test>>
-----------------------------------------------------------------------------
(* The host (external).                                                    *)

TestEnds(result) ==
  test' = [test EXCEPT !.stage = "none", !.result = result]

HostTest ==
  \E r \in HostRequests :
    /\ test.stage = "none"
    /\ Opens(r)
    /\ test' = [stage |-> "control", request |-> r.request,
                value |-> r.value, moved |-> 0, result |-> "none"]
    /\ UNCHANGED handler

(* The control transfer of a test is over.                                 *)
HostGoesOn ==
  /\ test.stage = "control" /\ Between
  /\ \/ transfer.stage # "done" /\ TestEnds("failed")
     \/ /\ transfer.stage = "done"
        /\ \/ /\ test.request \in {"ControlOut", "ControlIn"}
              /\ TestEnds("passed")
           \/ /\ test.request = "BulkOut"
              /\ test' = [test EXCEPT !.stage = "out"]
           \/ /\ test.request = "BulkIn"
              /\ test' = [test EXCEPT !.stage = "in"]
  /\ UNCHANGED <<exampleVars, handler>>

(* The packets of a transfer are told apart by their number.               *)
Packet(n) == << [id |-> 1, i |-> n] >>

HostSend ==
  /\ test.stage = "out"
  /\ SendsBulk(BulkEp, Packet(test.moved + 1))
  /\ test' = [test EXCEPT !.moved = @ + 1,
                !.stage = IF test.moved + 1 = test.value
                          THEN "none" ELSE "out",
                !.result = IF test.moved + 1 = test.value
                           THEN "passed" ELSE "none"]
  /\ UNCHANGED handler

(* A short packet ends what the host reads; more than it has room for, or  *)
(* less than the payload, is a failure.                                    *)
HostRead ==
  /\ Reading /\ test.stage = "in"
  /\ TakesBulk(BulkEp)
  /\ LET last == usb.in[Len(usb.in)].size # "full"
     IN  test' = [test EXCEPT !.moved = @ + 1,
                    !.stage = IF last \/ test.moved = 2
                              THEN "none" ELSE "in",
                    !.result = IF last /\ test.moved = test.value
                               THEN "passed"
                               ELSE IF last \/ test.moved = 2
                                    THEN "failed" ELSE "none"]
  /\ UNCHANGED handler

(* "timeout=1000": nothing that could go on is left.                       *)
BulkTimeout ==
  /\ Quiet
  /\ \/ test.stage = "out" /\ ~ Receives(BulkEp)
     \/ test.stage = "in" /\ ~ Offers(BulkEp)
  /\ TestEnds("failed")
  /\ UNCHANGED <<exampleVars, handler>>

Tokens == (HostIn \/ HostOut) /\ UNCHANGED <<handler, test>>

GivesUp == HostTimeout /\ UNCHANGED <<handler, test>>

Reset ==
  /\ HostBusReset
  /\ test' = [test EXCEPT !.stage = "none", !.result = "none"]
  /\ UNCHANGED handler

Next ==
  \/ MachineExternal \/ MainLoop \/ HandleVendorRequest \/ WriteIn
  \/ HostTest \/ HostGoesOn \/ HostSend \/ HostRead \/ BulkTimeout
  \/ Tokens \/ GivesUp \/ Reset

(* The core executes, and the host goes on with a test it has begun.       *)
Spec == /\ Init /\ [][Next]_vars
        /\ WF_vars(MachineExternal) /\ WF_vars(MainLoop)
        /\ WF_vars(HandleVendorRequest) /\ WF_vars(WriteIn)
        /\ WF_vars(Tokens) /\ WF_vars(GivesUp) /\ WF_vars(HostGoesOn)
        /\ WF_vars(HostSend) /\ WF_vars(HostRead) /\ WF_vars(BulkTimeout)
-----------------------------------------------------------------------------
TypeOK ==
  /\ ExampleTypeOK
  /\ handler \in {"none", "prime", "wait"}
  /\ handler # "none" => returned # NoSetup
  /\ test \in Test

(* The packet a ReceivePacket event of endpoint 1 announces is in the FIFO *)
(* when the event is handled: no priming has discarded it in between.      *)
AnnouncedPacketKept ==
  \A i \in DOMAIN event_queue :
    event_queue[i].type = "ReceivePacket" /\ event_queue[i].ep = BulkEp
      => usb.out # <<>>

(* What the host reads on the bulk endpoint is, packet by packet, what the *)
(* request it has just made asks for.                                      *)
BulkExact ==
  Reading /\ Offers(BulkEp)
    => /\ Len(usb.in) = 1
       /\ usb.in[1].id = transfer.id
       /\ (usb.in[1].size = "full") = (test.moved < test.value)

(* A test that is begun passes.                                            *)
TestsPass ==
  test.stage = "control" ~> test.stage = "none" /\ test.result = "passed"

(* A host that keeps running one test sees it pass, whatever the test a    *)
(* bus reset cut short has left behind. BulkIn is no such test: a ZLP left *)
(* behind is taken for the answer to its request.                          *)
Repeats(request) == [] (test.stage = "none" \/ test.request = request)

Recovers ==
  \A request \in Tests \ {"BulkIn"} :
    []<> (test.stage # "none") /\ <> Repeats(request)
      => []<> (test.result = "passed")
=============================================================================
