--------------------------- MODULE Control_proofs ---------------------------
(***************************************************************************)
(* dispatch_event keeps the types of the control interface, and never      *)
(* overruns rx_buffer.                                                     *)
(***************************************************************************)
EXTENDS Control, Endpoint0_proofs

(* What dispatching does not touch: interrupts and SETUP packets are the   *)
(* interrupt handler's and the host's.                                     *)
SameInterrupts == usb'.pending = usb.pending /\ usb'.setup = usb.setup

ControlInv == ControlTypeOK /\ RxBufferBounded

(* The answer of a verb: the OUT endpoint is primed for the status stage,  *)
(* and the packets are handed to write_with_packet_size.                   *)
LEMMA AnswerCalls ==
  ASSUME NEW u \in Usb, NEW packets \in Seq(InPacket), packets # <<>>
  PROVE  LET v == WriteWithPacketSize(EpOutPrimeReceive(u), packets)
         IN  v \in Usb /\ v.pending = u.pending /\ v.setup = u.setup
  <1> DEFINE primed == EpOutPrimeReceive(u)
             v == WriteWithPacketSize(primed, packets)
  <1>1. primed \in Usb
    BY DriverCallsType
  <1>2. primed.pending = u.pending /\ primed.setup = u.setup
    BY DEF EpOutPrimeReceive, Usb
  <1> HIDE DEF primed
  <1>3. v \in Usb
    BY <1>1, StartWriteType
  <1>4. v.pending = primed.pending /\ v.setup = primed.setup
    BY <1>1 DEF WriteWithPacketSize, Usb
  <1> HIDE DEF v
  <1>5. v \in Usb /\ v.pending = u.pending /\ v.setup = u.setup
    BY <1>2, <1>3, <1>4
  <1>6. QED
    BY <1>5 DEF v, primed

LEMMA SetAddressType ==
  ASSUME NEW u \in Usb, NEW address \in 0 .. 2
  PROVE  SetAddress(u, address) \in Usb
  BY DEF SetAddress, Usb

LEMMA SetupArms ==
  ASSUME ControlInv, NEW setup \in SetupPacket, OnSetup(setup)
  PROVE  ControlInv' /\ SameInterrupts
  <1> USE DEF ControlInv, ControlTypeOK, RxBufferBounded, Goto, GotoWith, State
  <1>0. /\ setup.id \in Transfers /\ setup.value \in 0 .. 2
        /\ setup.length \in 0 .. MaxLength /\ setup # NoSetup
        /\ usb \in Usb
    BY SetupAssumption DEF SetupPacket
  <1>1. CASE SetupSend(setup)
    <2>1. PICK n \in 0 .. setup.length :
            \E packets \in Answers(setup.id, <<>>, n, setup.length) :
              usb' = WriteWithPacketSize(usb, packets)
      BY <1>1 DEF SetupSend
    <2>2. PICK packets \in Answers(setup.id, <<>>, n, setup.length) :
            usb' = WriteWithPacketSize(usb, packets)
      BY <2>1
    <2>3. n \in Nat /\ setup.length \in Nat /\ <<>> \in Seq(OutPacket)
      BY <1>0, EndpointAssumption
    <2>4. packets \in Seq(InPacket) /\ packets # <<>>
      BY <1>0, <2>3, AnswersType
    <2>5. usb' \in Usb /\ SameInterrupts
      BY <1>0, <2>2, <2>4, StartWriteType, CallsKeepInterrupts
         DEF SameInterrupts
    <2>6. QED
      BY <1>1, <2>5 DEF SetupSend
  <1>2. CASE SetupUnknownDescriptor(setup)
    BY <1>0, <1>2 DEF SetupUnknownDescriptor, SameInterrupts
  <1>3. CASE SetupSetAddress(setup)
    <2>1. usb' \in Usb /\ SameInterrupts
      BY <1>0, <1>3, WriteZlpType, CallsKeepInterrupts
         DEF SetupSetAddress, WriteZlp, SameInterrupts
    <2>2. QED
      BY <1>0, <1>3, <2>1 DEF SetupSetAddress
  <1>4. CASE SetupSetConfiguration(setup)
    <2>1. usb' = StallEndpointOut(usb) \/ usb' = WriteZlp(usb, setup.id)
      BY <1>4 DEF SetupSetConfiguration
    <2>2. StallEndpointOut(usb) \in Usb /\ WriteZlp(usb, setup.id) \in Usb
      BY <1>0, WriteZlpType, DriverCallsType
    <2>3. usb' \in Usb /\ SameInterrupts
      BY <2>1, <2>2, CallsKeepInterrupts DEF WriteZlp, SameInterrupts
    <2>4. QED
      BY <1>0, <1>4, <2>3 DEF SetupSetConfiguration
  <1>5. CASE SetupFeature(setup)
    <2>1. usb' \in Usb /\ SameInterrupts
      BY <1>0, <1>5, WriteZlpType, CallsKeepInterrupts
         DEF SetupFeature, WriteZlp, SameInterrupts
    <2>2. QED
      BY <1>0, <1>5, <2>1 DEF SetupFeature
  <1>6. CASE SetupStall(setup)
    <2>1. usb' \in Usb /\ SameInterrupts
      BY <1>0, <1>6, DriverCallsType, CallsKeepInterrupts
         DEF SetupStall, SameInterrupts
    <2>2. QED
      BY <1>0, <1>6, <2>1 DEF SetupStall
  <1>7. CASE SetupReceive(setup)
    <2>1. usb' \in Usb /\ SameInterrupts
      BY <1>0, <1>7, DriverCallsType, CallsKeepInterrupts
         DEF SetupReceive, SameInterrupts
    <2>2. rx_buffer' = <<>> /\ Len(rx_buffer') = 0
      BY <1>7 DEF SetupReceive
    <2>3. next' = [state |-> "ReceiveHostData", setup |-> setup]
      BY <1>7 DEF SetupReceive
    <2>4. QED
      BY <1>0, <1>7, <2>1, <2>2, <2>3, RxBufferAssumption DEF SetupReceive
  <1>8. CASE SetupUnsupported(setup)
    BY <1>0, <1>8 DEF SetupUnsupported, SameInterrupts
  <1>9. QED
    BY <1>1, <1>2, <1>3, <1>4, <1>5, <1>6, <1>7, <1>8 DEF OnSetup

(* The only arm that fills rx_buffer: it appends a packet only if it fits, *)
(* and stays in ReceiveHostData only while wLength is not reached.         *)
LEMMA DataArm ==
  ASSUME ControlInv, ReceivePacket_ReceiveHostData
  PROVE  ControlInv' /\ SameInterrupts
  <1> USE DEF ControlInv, ControlTypeOK, RxBufferBounded, Goto, GotoWith, State
  <1> DEFINE setup == next.setup
  <1> DEFINE drained == Read(usb)
  <1> DEFINE received == rx_buffer \o usb.out
  <1>0. /\ next.state = "ReceiveHostData" /\ returned' = NoSetup
        /\ configuration' = configuration
    BY DEF ReceivePacket_ReceiveHostData
  <1>1. setup \in SetupPacket /\ setup # NoSetup
    BY <1>0, SetupAssumption
  <1>2. setup.id \in Transfers /\ setup.length \in Nat
    BY <1>1, EndpointAssumption DEF SetupPacket
  <1>3. /\ drained \in Usb
        /\ drained.pending = usb.pending /\ drained.setup = usb.setup
    BY DriverCallsType, CallsKeepInterrupts
  <1>4. received \in Seq(OutPacket) /\ Len(received) \in Nat
    <2>1. usb.out \in Seq(OutPacket)
      BY DEF Usb
    <2>2. QED
      BY <2>1
  <1>5. /\ WriteZlp(drained, setup.id) \in Usb
        /\ WriteZlp(drained, setup.id).pending = usb.pending
        /\ WriteZlp(drained, setup.id).setup = usb.setup
    BY <1>2, <1>3, WriteZlpType, CallsKeepInterrupts DEF WriteZlp
  <1>6. /\ EpOutPrimeReceive(drained) \in Usb
        /\ EpOutPrimeReceive(drained).pending = usb.pending
        /\ EpOutPrimeReceive(drained).setup = usb.setup
    BY <1>3, DriverCallsType, CallsKeepInterrupts
  <1> HIDE DEF drained, received
  <1>7. CASE /\ usb.out = <<>>
             /\ GotoWith("FinishHostData", setup)
             /\ usb' = WriteZlp(drained, setup.id)
             /\ UNCHANGED rx_buffer
    BY <1>0, <1>1, <1>5, <1>7 DEF SameInterrupts
  <1>8. CASE /\ usb' = EpOutPrimeReceive(drained)
             /\ UNCHANGED <<next, rx_buffer>>
    BY <1>0, <1>1, <1>6, <1>8 DEF SameInterrupts
  <1>9. CASE /\ ~ Overflows(received)
             /\ rx_buffer' = received
             /\ \/ /\ Len(received) >= setup.length
                   /\ GotoWith("FinishHostData", setup)
                   /\ usb' = WriteZlp(drained, setup.id)
                \/ /\ Len(received) < setup.length
                   /\ usb' = EpOutPrimeReceive(drained)
                   /\ UNCHANGED next
    <2>1. Len(received) <= RxBufferSize
      BY <1>4, <1>9, RxBufferAssumption DEF Overflows
    <2>2. usb' \in Usb /\ SameInterrupts
      BY <1>5, <1>6, <1>9 DEF SameInterrupts
    <2>3. QED
      BY <1>0, <1>1, <1>4, <1>9, <2>1, <2>2
  <1>10. QED
    BY <1>7, <1>8, <1>9 DEF ReceivePacket_ReceiveHostData, drained, received

LEMMA OtherArms ==
  ASSUME ControlInv,
         \/ OnBusReset
         \/ SendComplete_Send \/ SendComplete_SetAddress
         \/ SendComplete_Complete \/ SendComplete_FinishHostData
         \/ SendComplete_Ignored
         \/ ReceivePacket_WaitForZlp \/ ReceivePacket_Idle
         \/ \E type : OnUnexpected(type)
  PROVE  ControlInv' /\ SameInterrupts
  <1> USE DEF ControlInv, ControlTypeOK, RxBufferBounded, Goto, GotoWith, State
  <1>1. CASE OnBusReset
    BY <1>1 DEF OnBusReset, SameInterrupts
  <1>2. CASE SendComplete_Send
    <2>1. usb' \in Usb /\ SameInterrupts
      BY <1>2, DriverCallsType, CallsKeepInterrupts
         DEF SendComplete_Send, SameInterrupts
    <2>2. QED
      BY <1>2, <2>1 DEF SendComplete_Send
  <1>3. CASE SendComplete_SetAddress
    <2>1. next.setup.value \in 0 .. 2
      BY <1>3 DEF SendComplete_SetAddress, SetupPacket
    <2>2. usb' \in Usb /\ SameInterrupts
      BY <1>3, <2>1, SetAddressType, CallsKeepInterrupts
         DEF SendComplete_SetAddress, SameInterrupts
    <2>3. QED
      BY <1>3, <2>2 DEF SendComplete_SetAddress
  <1>4. CASE SendComplete_Complete
    BY <1>4 DEF SendComplete_Complete, SameInterrupts
  <1>5. CASE SendComplete_FinishHostData
    BY <1>5 DEF SendComplete_FinishHostData, SameInterrupts
  <1>6. CASE SendComplete_Ignored
    BY <1>6 DEF SendComplete_Ignored, SameInterrupts
  <1>7. CASE ReceivePacket_WaitForZlp \/ ReceivePacket_Idle
    <2>1. usb' \in Usb /\ SameInterrupts
      BY <1>7, DriverCallsType, CallsKeepInterrupts
         DEF ReceivePacket_WaitForZlp, ReceivePacket_Idle, SameInterrupts
    <2>2. QED
      BY <1>7, <2>1 DEF ReceivePacket_WaitForZlp, ReceivePacket_Idle
  <1>8. CASE \E type : OnUnexpected(type)
    BY <1>8 DEF OnUnexpected, SameInterrupts
  <1>9. QED
    BY <1>1, <1>2, <1>3, <1>4, <1>5, <1>6, <1>7, <1>8

(* Whatever the event and the state, dispatch_event keeps the invariant.   *)
LEMMA DispatchKeepsInv ==
  ASSUME ControlInv, NEW event \in Event, DispatchEvent(event)
  PROVE  ControlInv' /\ SameInterrupts
  <1>1. CASE event.type = "ReceiveSetupPacket" /\ OnSetup(event.setup)
    <2>1. event.setup \in SetupPacket
      BY <1>1 DEF Event
    <2>2. QED
      BY <1>1, <2>1, SetupArms
  <1>2. CASE ReceivePacket_ReceiveHostData
    BY <1>2, DataArm
  <1>3. CASE \/ OnBusReset
             \/ SendComplete_Send \/ SendComplete_SetAddress
             \/ SendComplete_Complete \/ SendComplete_FinishHostData
             \/ SendComplete_Ignored
             \/ ReceivePacket_WaitForZlp \/ ReceivePacket_Idle
             \/ OnUnexpected(event.type)
    BY <1>3, OtherArms
  <1>4. QED
    BY <1>1, <1>2, <1>3 DEF DispatchEvent

LEMMA ControlInitInv == ControlInit => ControlInv
  <1>1. SUFFICES ASSUME ControlInit PROVE ControlInv
    OBVIOUS
  <1>2. usb \in Usb
    BY <1>1, ConnectedType DEF ControlInit
  <1>3. rx_buffer \in Seq(OutPacket) /\ Len(rx_buffer) = 0
    BY <1>1 DEF ControlInit
  <1>4. QED
    BY <1>1, <1>2, <1>3, RxBufferAssumption
       DEF ControlInit, ControlInv, ControlTypeOK, RxBufferBounded, State
=============================================================================
