------------------------------ MODULE Control ------------------------------
(***************************************************************************)
(* smolusb's control interface: the state machine of endpoint 0 that       *)
(* answers standard requests itself and hands the others to its caller     *)
(* (firmware/smolusb/src/control.rs).                                      *)
(*                                                                         *)
(* One action per arm of dispatch_event. The SETUP packet dispatch_event   *)
(* returns to its caller is the variable returned.                         *)
(***************************************************************************)
EXTENDS Endpoint0

CONSTANT RxBufferSize   (* RX_BUFFER_SIZE, in packets *)

ASSUME RxBufferAssumption == RxBufferSize \in Nat

VARIABLES
  usb,                  (* the controller and its driver                  *)
  next,                 (* the state, and the SETUP packet it carries     *)
  configuration,        (* 0 stands for None                              *)
  rx_buffer,            (* rx_buffer[..rx_buffer_position]                *)
  returned              (* Option<SetupPacket>, the result                *)

controlVars == <<usb, next, configuration, rx_buffer, returned>>

State == {"Idle", "Send", "WaitForZlp", "SetAddress", "ReceiveHostData",
          "FinishHostData", "Complete", "Stall"}

Event ==
  [type : {"BusReset", "SendComplete", "ReceivePacket"},
   setup : {NoSetup}]
    \union [type : {"ReceiveSetupPacket"}, setup : SetupPacket]

ControlTypeOK ==
  /\ usb \in Usb
  /\ next \in [state : State, setup : SetupPacket \union {NoSetup}]
  /\ next.state \in {"SetAddress", "ReceiveHostData", "FinishHostData"}
       => next.setup # NoSetup
  /\ configuration \in 0 .. 1
  /\ rx_buffer \in Seq(OutPacket)
  /\ returned \in SetupPacket \union {NoSetup}

ControlInit ==
  /\ usb = Connected
  /\ next = [state |-> "Idle", setup |-> NoSetup]
  /\ configuration = 0
  /\ rx_buffer = <<>>
  /\ returned = NoSetup

Goto(state) == next' = [state |-> state, setup |-> NoSetup]
GotoWith(state, setup) == next' = [state |-> state, setup |-> setup]

(* The direction of each request kind the model distinguishes.             *)
DeviceToHost(setup) ==
  setup.request \in {"GetDescriptor", "GetStatus", "MicrosoftOs",
                     "Response", "Cancel", "UnknownIn", "ClassIn",
                     "ControlIn"}
-----------------------------------------------------------------------------
(* A SETUP packet in the states that accept one. Every request names the   *)
(* arm of the match it takes.                                              *)

(* GET_DESCRIPTOR of a known descriptor (value 0), GET_CONFIGURATION,      *)
(* GET_STATUS and the Microsoft OS 1.0 descriptors: queue the answer.      *)
(* The state is Send even if the write below times out.                    *)
SetupSend(setup) ==
  /\ \/ setup.request = "GetDescriptor" /\ setup.value = 0
     \/ setup.request = "MicrosoftOs" /\ setup.value = 0
     \/ setup.request = "GetStatus"
  /\ Goto("Send")
  /\ \E n \in 0 .. setup.length :
       \E packets \in Answers(setup.id, <<>>, n, setup.length) :
         /\ setup.request = "GetStatus" => packets[1].size = "short"
         /\ usb' = WriteWithPacketSize(usb, packets)
  /\ returned' = NoSetup
  /\ UNCHANGED <<configuration, rx_buffer>>

(* GET_DESCRIPTOR of an unknown descriptor: returned to the caller, with   *)
(* the state already set to Send.                                          *)
SetupUnknownDescriptor(setup) ==
  /\ setup.request = "GetDescriptor" /\ setup.value # 0
  /\ Goto("Send")
  /\ returned' = setup
  /\ UNCHANGED <<usb, configuration, rx_buffer>>

SetupSetAddressAtOnce(setup) ==
  /\ setup.request = "SetAddress"
  /\ GotoWith("SetAddress", setup)
  /\ usb' = SetAddress(WriteZlp(usb, setup.id), setup.value)
  /\ returned' = NoSetup
  /\ UNCHANGED <<configuration, rx_buffer>>

SetupSetAddress(setup) ==
  /\ setup.request = "SetAddress"
  /\ GotoWith("SetAddress", setup)
  /\ usb' = WriteZlp(usb, setup.id)
  /\ returned' = NoSetup
  /\ UNCHANGED <<configuration, rx_buffer>>

SetupSetConfiguration(setup) ==
  /\ setup.request = "SetConfiguration"
  /\ \/ /\ setup.value > 1
        /\ configuration' = 0
        /\ Goto("Stall")
        /\ usb' = StallEndpointOut(usb)
     \/ /\ setup.value <= 1
        /\ configuration' = setup.value
        /\ Goto("Complete")
        /\ usb' = WriteZlp(usb, setup.id)
  /\ returned' = NoSetup
  /\ UNCHANGED rx_buffer

(* SET_FEATURE and CLEAR_FEATURE of a supported feature (value 0): the     *)
(* feature itself is not modelled.                                         *)
SetupFeature(setup) ==
  /\ setup.request = "Feature" /\ setup.value = 0
  /\ Goto("Complete")
  /\ usb' = WriteZlp(usb, setup.id)
  /\ returned' = NoSetup
  /\ UNCHANGED <<configuration, rx_buffer>>

(* Unknown features and unknown Microsoft OS 1.0 descriptors are stalled.  *)
SetupStallKnownToo(setup) ==
  /\ setup.request \in {"Feature", "MicrosoftOs"}
  /\ Goto("Stall")
  /\ usb' = StallEndpointIn(usb)
  /\ returned' = NoSetup
  /\ UNCHANGED <<configuration, rx_buffer>>

SetupStall(setup) ==
  /\ setup.request \in {"Feature", "MicrosoftOs"} /\ setup.value # 0
  /\ Goto("Stall")
  /\ usb' = StallEndpointIn(usb)
  /\ returned' = NoSetup
  /\ UNCHANGED <<configuration, rx_buffer>>

StandardRequests ==
  {"GetDescriptor", "GetStatus", "MicrosoftOs", "SetAddress",
   "SetConfiguration", "Feature"}

(* Any other request with data from the host: receive the data first.      *)
SetupReceiveAppending(setup) ==
  /\ setup.request \notin StandardRequests
  /\ ~ DeviceToHost(setup)
  /\ setup.length > 0
  /\ GotoWith("ReceiveHostData", setup)
  /\ usb' = EpOutPrimeReceive(usb)
  /\ returned' = NoSetup
  /\ UNCHANGED <<configuration, rx_buffer>>

SetupReceive(setup) ==
  /\ setup.request \notin StandardRequests
  /\ ~ DeviceToHost(setup)
  /\ setup.length > 0
  /\ rx_buffer' = <<>>
  /\ GotoWith("ReceiveHostData", setup)
  /\ usb' = EpOutPrimeReceive(usb)
  /\ returned' = NoSetup
  /\ UNCHANGED configuration

(* Any other request: hand it to the caller.                               *)
SetupUnsupported(setup) ==
  /\ setup.request \notin StandardRequests
  /\ DeviceToHost(setup) \/ setup.length = 0
  /\ Goto("Idle")
  /\ returned' = setup
  /\ UNCHANGED <<usb, configuration, rx_buffer>>

AcceptsSetup == next.state \in {"Idle", "Stall"}

OnSetup(setup) ==
  /\ AcceptsSetup
  /\ \/ SetupSend(setup)
     \/ SetupUnknownDescriptor(setup)
     \/ SetupSetAddress(setup)
     \/ SetupSetConfiguration(setup)
     \/ SetupFeature(setup)
     \/ SetupStall(setup)
     \/ SetupReceive(setup)
     \/ SetupUnsupported(setup)
-----------------------------------------------------------------------------
(* SendComplete(0).                                                        *)

SendComplete_SendUnprimed ==
  /\ next.state = "Send"
  /\ Goto("WaitForZlp")
  /\ returned' = NoSetup
  /\ UNCHANGED <<usb, configuration, rx_buffer>>

SendComplete_Send ==
  /\ next.state = "Send"
  /\ Goto("WaitForZlp")
  /\ usb' = EpOutPrimeReceive(usb)
  /\ returned' = NoSetup
  /\ UNCHANGED <<configuration, rx_buffer>>

SendComplete_SetAddress ==
  /\ next.state = "SetAddress"
  /\ Goto("Idle")
  /\ usb' = SetAddress(usb, next.setup.value)
  /\ returned' = NoSetup
  /\ UNCHANGED <<configuration, rx_buffer>>

SendComplete_Complete ==
  /\ next.state = "Complete"
  /\ Goto("Idle")
  /\ returned' = NoSetup
  /\ UNCHANGED <<usb, configuration, rx_buffer>>

(* The status stage of a request with host data is over: only now does the *)
(* caller see the request.                                                 *)
SendComplete_FinishHostData ==
  /\ next.state = "FinishHostData"
  /\ Goto("Idle")
  /\ returned' = next.setup
  /\ UNCHANGED <<usb, configuration, rx_buffer>>

(* Part of a multi-packet send, or of an answer the caller wrote.          *)
SendComplete_Ignored ==
  /\ next.state \in {"WaitForZlp", "Idle"}
  /\ returned' = NoSetup
  /\ UNCHANGED <<usb, next, configuration, rx_buffer>>
-----------------------------------------------------------------------------
(* ReceivePacket(0).                                                       *)

ReceivePacket_WaitForZlp ==
  /\ next.state = "WaitForZlp"
  /\ Goto("Idle")
  /\ usb' = Read(usb)
  /\ returned' = NoSetup
  /\ UNCHANGED <<configuration, rx_buffer>>

(* Does a packet overflow rx_buffer?                                       *)
OverflowsOffByOne(received) == Len(received) > RxBufferSize + 1

Overflows(received) == Len(received) > RxBufferSize

(* A packet of the data stage: an empty one aborts the stage early, one    *)
(* that does not fit is dropped, the last one is acknowledged with a ZLP.  *)
ReceivePacket_ReceiveHostData ==
  /\ next.state = "ReceiveHostData"
  /\ LET setup    == next.setup
         drained  == Read(usb)
         received == rx_buffer \o usb.out
     IN  \/ /\ usb.out = <<>>
            /\ GotoWith("FinishHostData", setup)
            /\ usb' = WriteZlp(drained, setup.id)
            /\ UNCHANGED rx_buffer
         \/ /\ usb.out # <<>>
            /\ Overflows(received)
            /\ usb' = EpOutPrimeReceive(drained)
            /\ UNCHANGED <<next, rx_buffer>>
         \/ /\ usb.out # <<>>
            /\ ~ Overflows(received)
            /\ rx_buffer' = received
            /\ \/ /\ Len(received) >= setup.length
                  /\ GotoWith("FinishHostData", setup)
                  /\ usb' = WriteZlp(drained, setup.id)
               \/ /\ Len(received) < setup.length
                  /\ usb' = EpOutPrimeReceive(drained)
                  /\ UNCHANGED next
  /\ returned' = NoSetup
  /\ UNCHANGED configuration

(* The ZLP of an answer the caller wrote.                                  *)
ReceivePacket_Idle ==
  /\ next.state = "Idle"
  /\ usb' = Read(usb)
  /\ returned' = NoSetup
  /\ UNCHANGED <<next, configuration, rx_buffer>>
-----------------------------------------------------------------------------
OnBusReset ==
  /\ Goto("Idle")
  /\ returned' = NoSetup
  /\ UNCHANGED <<usb, configuration, rx_buffer>>

(* The states in which each event has an arm of its own.                   *)
Expected(type) ==
  CASE type = "ReceiveSetupPacket" -> {"Idle", "Stall"}
    [] type = "SendComplete" -> {"Send", "WaitForZlp", "SetAddress",
                                 "Complete", "FinishHostData", "Idle"}
    [] type = "ReceivePacket" -> {"WaitForZlp", "ReceiveHostData", "Idle"}
    [] OTHER -> State

(* "Control state error": the event is dropped and the state forgotten.    *)
OnUnexpectedIgnored(type) ==
  /\ next.state \notin Expected(type)
  /\ returned' = NoSetup
  /\ UNCHANGED <<usb, next, configuration, rx_buffer>>

OnUnexpected(type) ==
  /\ next.state \notin Expected(type)
  /\ Goto("Idle")
  /\ returned' = NoSetup
  /\ UNCHANGED <<usb, configuration, rx_buffer>>

DispatchEvent(event) ==
  \/ event.type = "BusReset" /\ OnBusReset
  \/ event.type = "ReceiveSetupPacket" /\ OnSetup(event.setup)
  \/ /\ event.type = "SendComplete"
     /\ \/ SendComplete_Send
        \/ SendComplete_SetAddress
        \/ SendComplete_Complete
        \/ SendComplete_FinishHostData
        \/ SendComplete_Ignored
  \/ /\ event.type = "ReceivePacket"
     /\ \/ ReceivePacket_WaitForZlp
        \/ ReceivePacket_ReceiveHostData
        \/ ReceivePacket_Idle
  \/ OnUnexpected(event.type)
-----------------------------------------------------------------------------
(* rx_buffer is never overrun, and data is only awaited while some is      *)
(* missing.                                                                *)
RxBufferBounded ==
  /\ Len(rx_buffer) <= RxBufferSize
  /\ next.state = "ReceiveHostData" => Len(rx_buffer) < next.setup.length
=============================================================================
