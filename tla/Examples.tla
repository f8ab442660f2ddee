------------------------------ MODULE Examples ------------------------------
(***************************************************************************)
(* The three example programs side by side: the board is flashed with one  *)
(* of acm_serial, usb_hal and bulk_speed_test, and runs it until the end.  *)
(* They share Endpoint0, Control and ExampleDevice. On a calm bus no reset *)
(* comes; on another it may come at any time to the first two programs,    *)
(* and between two tests to the third. The properties are about the hosts  *)
(* instantiated here, which keep out of the way of some findings of the    *)
(* README: a serial port is opened before it is used and its packets are   *)
(* short, and no answer with data is asked of a running speed test.        *)
(***************************************************************************)
EXTENDS Control

CONSTANTS
  AcmRequests, HalRequests, SpeedRequests,  (* what each host asks for     *)
  AcmShortRequests, HalShortRequests,       (* the same if resets come     *)
  NumPackets,        (* packets a host of acm_serial sends: on a calm bus, *)
  NumShortPackets,   (* and if resets come                                 *)
  TestSize,          (* packets in a test of bulk_speed_test               *)
  MaxResets          (* bus resets                                         *)

VARIABLES
  program,           (* the program in flash                               *)
  calm,              (* no bus reset comes                                 *)
  primed, out_epno, data_ep, in_epno, write_ep, event_queue, halted,
  transfer, resets,  (* as in ExampleDevice                                *)
  port,              (* acm_serial                                         *)
  handler, test,     (* usb_hal                                            *)
  test_command, speed_test   (* bulk_speed_test                            *)

acmVars == port
halVars == <<handler, test>>
speedVars == <<test_command, speed_test>>
vars == <<program, calm, controlVars, primed, out_epno, data_ep, in_epno, write_ep,
          event_queue, halted, transfer, resets, acmVars, halVars, speedVars>>

(* EVENT_QUEUE of each program is as large as in its source. Where a host  *)
(* is quicker than OutAt allows, findings of the README come in its way.   *)
Acm == INSTANCE AcmSerial WITH
  HostRequests <- AcmRequests, EventQueueSize <- 16, OutAt <- {"handled"},
  FullPackets <- {}, Orderly <- TRUE

AcmShort == INSTANCE AcmSerial WITH
  HostRequests <- AcmShortRequests, NumPackets <- NumShortPackets,
  EventQueueSize <- 16, OutAt <- {"handled"},
  FullPackets <- {}, Orderly <- TRUE

Hal == INSTANCE UsbHal WITH
  HostRequests <- HalRequests, EventQueueSize <- 64,
  OutAt <- {"sent", "queued", "handled"}

HalShort == INSTANCE UsbHal WITH
  HostRequests <- HalShortRequests, EventQueueSize <- 64,
  OutAt <- {"sent", "queued", "handled"}

Speed == INSTANCE SpeedTest WITH
  HostRequests <- SpeedRequests, EventQueueSize <- 32, OutAt <- {"queued"},
  Unhurried <- TRUE, test <- speed_test

ASSUME ExamplesAssumption ==
  /\ Acm!ExampleAssumption /\ Acm!AcmAssumption
  /\ AcmShort!ExampleAssumption /\ AcmShort!AcmAssumption
  /\ NumShortPackets <= NumPackets
  /\ Hal!ExampleAssumption /\ Hal!UsbHalAssumption
  /\ HalShort!ExampleAssumption /\ HalShort!UsbHalAssumption
  /\ Speed!ExampleAssumption /\ Speed!SpeedTestAssumption

acm == program = "acm_serial"
hal == program = "usb_hal"
speed == program = "bulk_speed_test"

(* The state of a program that is not in flash is that of a fixed start.   *)
Init ==
  /\ program \in {"acm_serial", "usb_hal", "bulk_speed_test"}
  /\ calm \in BOOLEAN
  /\ IF speed THEN Speed!Init ELSE Acm!Init
  /\ port = Acm!Closed
  /\ handler = "none"
  /\ test = [stage |-> "none", request |-> "ControlOut", value |-> 0,
             moved |-> 0, result |-> "none"]
  /\ test_command = "Stop"
  /\ speed_test = [stage |-> "none", command |-> "In", moved |-> 0]

AcmStep(action) ==
  acm /\ action /\ UNCHANGED <<program, calm, halVars, speedVars>>

HalStep(action) ==
  hal /\ action /\ UNCHANGED <<program, calm, acmVars, speedVars>>

SpeedStep(action) ==
  speed /\ action /\ UNCHANGED <<program, calm, acmVars, halVars>>

Next ==
  /\ \/ calm /\ AcmStep(Acm!Next)
     \/ ~ calm /\ AcmStep(AcmShort!Next)
     \/ calm /\ HalStep(Hal!Next)
     \/ ~ calm /\ HalStep(HalShort!Next)
     \/ SpeedStep(Speed!Next)
  /\ calm => resets' = 0

(* The fairness of each program, the same parts of them together.          *)
Machine ==
  \/ AcmStep(Acm!MachineExternal)
  \/ HalStep(Hal!MachineExternal)
  \/ SpeedStep(Speed!MachineExternal)

Loop ==
  \/ AcmStep(Acm!MainLoop)
  \/ HalStep(Hal!MainLoop)
  \/ SpeedStep(Speed!ControlEvent)

Handler ==
  \/ AcmStep(Acm!HandleClassRequest)
  \/ HalStep(Hal!HandleVendorRequest)
  \/ SpeedStep(Speed!DropSetup)

WriteIn ==
  \/ AcmStep(Acm!WriteIn) \/ HalStep(Hal!WriteIn) \/ SpeedStep(Speed!WriteIn)

Tokens ==
  \/ AcmStep(Acm!Tokens) \/ HalStep(Hal!Tokens) \/ SpeedStep(Speed!Tokens)

GivesUp ==
  \/ AcmStep(Acm!GivesUp) \/ HalStep(Hal!GivesUp) \/ SpeedStep(Speed!GivesUp)

GoesOn ==
  \/ AcmStep(Acm!HostOpen)
  \/ HalStep(Hal!HostGoesOn)
  \/ SpeedStep(Speed!BulkEvent)

BulkIn ==
  \/ AcmStep(Acm!HostRead)
  \/ HalStep(Hal!HostRead)
  \/ SpeedStep(Speed!TestInSpeed)

Spec == /\ Init /\ [][Next]_vars
        /\ WF_vars(Machine) /\ WF_vars(Loop) /\ WF_vars(Handler)
        /\ WF_vars(WriteIn) /\ WF_vars(Tokens) /\ WF_vars(GivesUp)
        /\ WF_vars(GoesOn) /\ WF_vars(BulkIn)
        /\ WF_vars(HalStep(Hal!HostSend)) /\ WF_vars(HalStep(Hal!BulkTimeout))
        /\ SF_vars(SpeedStep(Speed!HostStarts))
        /\ SF_vars(SpeedStep(Speed!HostStops))
        /\ SF_vars(SpeedStep(Speed!HostRead))
        /\ SF_vars(SpeedStep(Speed!HostSend))
-----------------------------------------------------------------------------
TypeOK ==
  /\ acm => Acm!TypeOK
  /\ hal => Hal!TypeOK
  /\ speed => Speed!TypeOK

(* What these hosts read and what a program acts on is exactly what was    *)
(* sent: echoes in order, payloads packet by packet, whole packets of test *)
(* data, and in usb_hal no bulk packet discarded before its event is       *)
(* handled.                                                                *)
DataExact ==
  /\ acm /\ resets = 0 => Acm!EchoInOrder
  /\ hal /\ resets = 0 => Hal!AnnouncedPacketKept /\ Hal!BulkExact
  /\ speed => Speed!WholePackets

(* bulk_speed_test does what the last command its host sent says, Stop     *)
(* too, once it has dealt with its queue, in which a command may stand     *)
(* before or behind the events of a control transfer without data.         *)
CommandObeyed == speed => Speed!CommandObeyed

(* With these hosts no program panics or overflows its event queue (which  *)
(* they never fill), either of which stops the core for good.              *)
NeverHalted == ~ halted

(* What one of these hosts has begun comes to its end: its packets are     *)
(* echoed, its test of usb_hal passes and its test of speed is over,       *)
(* unless a bus reset comes.                                               *)
Begun ==
  \/ acm /\ port.sent > port.echoed
  \/ hal /\ test.stage = "control"
  \/ speed /\ speed_test.stage = "begun"

Over ==
  \/ acm /\ port.sent = port.echoed
  \/ hal /\ test.stage = "none" /\ test.result = "passed"
  \/ speed /\ speed_test.stage = "none"
  \/ ~ speed /\ resets > 0

Served == Begun ~> Over

(* A host that repeats itself succeeds again after a bus reset at any      *)
(* moment, but for the test BulkIn of usb_hal (acm_serial, usb_hal).       *)
Recovers == (acm => AcmShort!Recovers) /\ (hal => HalShort!Recovers)
=============================================================================
