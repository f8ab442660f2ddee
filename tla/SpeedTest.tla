----------------------------- MODULE SpeedTest -----------------------------
(***************************************************************************)
(* The example bulk_speed_test: commands on endpoint 2 start and stop a    *)
(* stream of test data on endpoint 1                                       *)
(* (firmware/moondancer/examples/bulk_speed_test.rs).                      *)
(*                                                                         *)
(* A host enumerates the device and then runs scripts/bulk_speed_test.py:  *)
(* it submits its transfers, sends the command that starts a test, moves   *)
(* its data and sends the command that stops the test.                     *)
(***************************************************************************)
EXTENDS ExampleDevice

CONSTANTS
  TestSize,          (* bulk packets in a test                            *)
  Unhurried          (* bus resets only between tests, a test only on a    *)
                     (* device at rest, and until it is over no control   *)
                     (* transfers but, beside a command, those without    *)
                     (* data                                              *)

SpeedTestAssumption ==
  /\ TestSize \in Nat \ {0}
  /\ Unhurried \in BOOLEAN
  /\ MaxLength >= 3 /\ NumTransfers >= 2

VARIABLES
  test_command,      (* the test the device performs                      *)
  test               (* the test the host is running                      *)

vars == <<exampleVars, test_command, test>>

DataEp == 1
CommandEp == 2

Commands == <<"Stop", "In", "Out">>

CommandPacket(command) ==
  << [id |-> 1, i |-> CHOOSE i \in DOMAIN Commands : Commands[i] = command] >>

DataPacket == << [id |-> 2, i |-> 1] >>

TestData == [id |-> 1, of |-> <<>>, size |-> "full"]

(* The stages of a test, and the packets moved in it.                      *)
Test == [stage : {"none", "begun", "moving", "stopping"},
         command : {"In", "Out"}, moved : 0 .. TestSize]

(* The endpoints are primed before the main loop is entered.               *)
Init ==
  /\ next = [state |-> "Idle", setup |-> NoSetup]
  /\ configuration = 0 /\ rx_buffer = <<>> /\ returned = NoSetup
  /\ usb = EpOutPrimeReceive(Connected)
  /\ primed = {0, DataEp, CommandEp} /\ out_epno = CommandEp
  /\ data_ep = 0 /\ in_epno = 0 /\ write_ep = 0
  /\ event_queue = <<>> /\ halted = FALSE
  /\ transfer = [stage |-> "idle", setup |-> NoSetup, moved |-> 0,
                 id |-> NumTransfers]
  /\ resets = 0
  /\ test_command = "Stop"
  /\ test = [stage |-> "none", command |-> "In", moved |-> 0]
-----------------------------------------------------------------------------
(* The interrupt handler: it names the endpoint of the packet.             *)
MachineExternal ==
  /\ \/ EndpointInterrupt(data_ep)
     \/ /\ BusResetInterrupt
        /\ usb' = BusReset(usb)
        /\ Enqueue(EventOf("BusReset", 0))
        /\ UNCHANGED <<primed, out_epno>>
  /\ UNCHANGED <<test_command, test>>

(* An event of endpoint 0. The result of control.dispatch_event is dropped *)
(* in the same statement: a request Control does not know is not answered. *)
ControlEvent ==
  /\ \E event \in {Head(event_queue) : i \in DOMAIN event_queue} :
       /\ Takes(event) /\ OfControl(event)
       /\ ToControl(event)
  /\ UNCHANGED <<test_command, test>>

DropSetup ==
  /\ MainRuns /\ returned # NoSetup
  /\ returned' = NoSetup
  /\ UNCHANGED <<usb, next, configuration, rx_buffer, outVars, inVars,
                 event_queue, halted, transfer, resets, test_command, test>>

(* Some messages print the last eight bytes read: with fewer than that,    *)
(* the index underflows and the program panics. No host here sends packets *)
(* of 2 to 7 bytes; what is read is a command of one byte, a whole packet  *)
(* of test data, or nothing if it was discarded.                           *)
Panics == halted' = TRUE /\ UNCHANGED test_command

(* What a packet on the command endpoint does: the first byte of it is a   *)
(* command if there is no other.                                           *)
CommandNeverStops(data) ==
  /\ data # <<>> /\ data[1].id = 1
  /\ test_command' = <<test_command, "In", "Out">>[data[1].i]
  /\ UNCHANGED halted

Command(data) ==
  \/ /\ data # <<>> /\ data[1].id = 1
     /\ test_command' = Commands[data[1].i]
     /\ UNCHANGED halted
  \/ data = DataPacket /\ UNCHANGED <<test_command, halted>>
  \/ data = <<>> /\ Panics

(* Bulk data is only counted, and a message printed for every hundredth    *)
(* packet.                                                                 *)
Count(data) ==
  \/ UNCHANGED <<test_command, halted>>
  \/ data # DataPacket /\ Panics

(* The endpoint is primed again when its packet has been read.             *)
ReceivedUnprimed(ep) ==
  /\ usb' = Read(usb) /\ UNCHANGED outVars
  /\ \/ ep = DataEp /\ Count(usb.out)
     \/ ep = CommandEp /\ Command(usb.out)

ReceivedPrimedFirst(ep) ==
  /\ PrimeReceive(ep)
  /\ \/ ep = DataEp /\ Count(usb'.out)
     \/ ep = CommandEp /\ Command(usb'.out)

Received(ep) ==
  /\ PrimeReceive(ep)
  /\ \/ ep = DataEp /\ Count(usb.out)
     \/ ep = CommandEp /\ Command(usb.out)

BulkEvent ==
  /\ AtLoop /\ event_queue # <<>>
  /\ event_queue' = Tail(event_queue)
  /\ LET event == Head(event_queue)
     IN  /\ ~ OfControl(event)
         /\ \/ event.type = "ReceivePacket" /\ Received(event.ep)
            \/ /\ event.type = "SendComplete"
               /\ UNCHANGED <<usb, outVars, test_command, halted>>
  /\ UNCHANGED <<next, configuration, rx_buffer, returned, inVars, transfer,
                 resets, test>>

(* test_in_speed: "wait for fifo endpoint to be idle", for a hundred polls *)
(* at most; then drop what is left in the FIFO and write one packet.       *)
WriteTest(u) == [u EXCEPT !.in = << TestData >>, !.in_ready = TRUE]

InEpnoUnmasked(ep) == ep + 128
InEpno(ep) == ep % 16

TestInSpeed ==
  /\ AtLoop /\ event_queue = <<>>
  /\ test_command = "In"
  /\ usb' = WriteTest(usb)
  /\ in_epno' = InEpno(DataEp)
  /\ UNCHANGED <<next, configuration, rx_buffer, returned, outVars, write_ep,
                 event_queue, halted, transfer, resets, test_command, test>>

Reading == test.command = "In" /\ test.stage \in {"begun", "moving"}

WriteIn == WriteStep(Reading) /\ UNCHANGED <<test_command, test>>
-----------------------------------------------------------------------------
(* The host (external).                                                    *)

HostSetup ==
  \E r \in HostRequests :
    /\ Unhurried => \/ test.stage = "none"
                    \/ r.length = 0 /\ test.stage # "moving"
    /\ Opens(r)
    /\ UNCHANGED <<test_command, test>>

AtRest == Quiet /\ test_command # "In"

HostBegins ==
  \E command \in {"In", "Out"} :
    /\ test.stage = "none" /\ Between
    /\ Unhurried => AtRest
    /\ test' = [stage |-> "begun", command |-> command, moved |-> 0]
    /\ UNCHANGED <<exampleVars, test_command>>

HostCommands(stage, command, then) ==
  /\ test.stage = stage
  /\ SendsBulk(CommandEp, CommandPacket(command))
  /\ test' = [test EXCEPT !.stage = then]
  /\ UNCHANGED test_command

HostStarts == HostCommands("begun", test.command, "moving")
HostStops == HostCommands("stopping", "Stop", "none")

(* One more packet of the transfers submitted. Those of an OUT test are    *)
(* sent before the command as well.                                        *)
Moved ==
  test' = [test EXCEPT !.moved = IF @ < TestSize THEN @ + 1 ELSE @,
             !.stage = IF test.stage = "moving" /\ test.moved + 1 >= TestSize
                       THEN "stopping" ELSE test.stage]

HostRead == Reading /\ TakesBulk(DataEp) /\ Moved /\ UNCHANGED test_command

HostSend ==
  /\ test.command = "Out" /\ test.stage \in {"begun", "moving"}
  /\ SendsBulk(DataEp, DataPacket)
  /\ Moved
  /\ UNCHANGED test_command

Tokens == (HostIn \/ HostOut) /\ UNCHANGED <<test_command, test>>

GivesUp == HostTimeout /\ UNCHANGED <<test_command, test>>

Reset ==
  /\ Unhurried => test.stage = "none" /\ AtRest
  /\ HostBusReset
  /\ test' = [test EXCEPT !.stage = "none"]
  /\ UNCHANGED test_command

Next ==
  \/ MachineExternal \/ ControlEvent \/ DropSetup \/ BulkEvent
  \/ TestInSpeed \/ WriteIn
  \/ HostSetup \/ HostBegins \/ HostStarts \/ HostStops \/ HostRead
  \/ HostSend \/ Tokens \/ GivesUp \/ Reset

(* The core executes, and the host goes on with what it has begun. Its bus *)
(* gives every endpoint with a transfer a turn.                            *)
Spec == /\ Init /\ [][Next]_vars
        /\ WF_vars(MachineExternal) /\ WF_vars(ControlEvent)
        /\ WF_vars(DropSetup) /\ WF_vars(BulkEvent)
        /\ WF_vars(TestInSpeed) /\ WF_vars(WriteIn)
        /\ WF_vars(Tokens) /\ WF_vars(GivesUp)
        /\ SF_vars(HostStarts) /\ SF_vars(HostStops)
        /\ SF_vars(HostRead) /\ SF_vars(HostSend)
-----------------------------------------------------------------------------
TypeOK ==
  /\ ExampleTypeOK
  /\ test_command \in {"Stop", "In", "Out"}
  /\ test \in Test

(* The program does not panic: what it reads is what the host has sent, if *)
(* the host is Unhurried.                                                  *)
NeverHalted == ~ halted

(* The host never reads anything but whole packets of test data.           *)
WholePackets == Reading /\ Offers(DataEp) => usb.in = << TestData >>

(* The last command the device has accepted from the host.                 *)
LastCommand ==
  IF test.stage \in {"moving", "stopping"} THEN test.command ELSE "Stop"

(* The device does what the last command says, Stop too, once it has dealt *)
(* with all that was queued.                                               *)
CommandObeyed == Quiet => test_command = LastCommand

(* A test that is begun comes to its end.                                  *)
TestsEnd == test.stage = "begun" ~> test.stage = "none"

(* An answer of endpoint 0 that the host has not fetched is not replaced   *)
(* by test data.                                                           *)
AnswerKept ==
  [][usb.in_ready /\ in_epno = 0 => in_epno' = 0]_vars
=============================================================================
