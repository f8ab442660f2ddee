------------------------ MODULE InEndpoints_proofs -------------------------
(***************************************************************************)
(* Type correctness of InEndpoints, and SinglePacket: the shared FIFO never*)
(* holds bytes of two payloads or more than a packet, for any endpoints,   *)
(* sizes, payloads, resets and hosts, a Late client included. Then that    *)
(* what is written is read, Delivered, and that the device takes the       *)
(* address of an answered status stage, AddressAfterAnswer.                *)
(***************************************************************************)
EXTENDS InEndpoints, TLAPS

(* What is in the FIFO when the next byte is written was written before it *)
(* in the same packet.                                                     *)
Filling(size) ==
  /\ \A i \in DOMAIN ep_in.fifo :
       ep_in.fifo[i].id = call.id /\ ep_in.fifo[i].ep = write.ep
  /\ Len(ep_in.fifo) <= write.fill
  /\ write.ep # 0 => write.fill <= size

WritePosition ==
  /\ write.at \in {"drain", "sent"} => write.fill = 0
  /\ write.at = "bytes" => Filling(PacketSize[write.ep] - 1)
  /\ write.at = "prime" => Filling(PacketSize[write.ep])
  /\ write.at = "sent" => write.ep # 0

(* A packet that has left has left nothing in the FIFO.                    *)
SentIsEmpty ==
  /\ "EpIn" \in pending => ep_in.fifo = <<>>
  /\ write.at \in {"prime", "sent"} /\ ~ tx_ack_active[write.ep]
       => ep_in.fifo = <<>>

(* The write the main loop is inside of is an acknowledgement or that of   *)
(* the client's call.                                                      *)
WriteOfCall ==
  write.at # "none" =>
    IF write.ep = 0 THEN write.left = 0
    ELSE /\ call.state = "executing" /\ call.id > 0
         /\ write.left <= call.length

EventsOf ==
  \A i \in DOMAIN event_queue :
    /\ event_queue[i].type = "Verb" => call.id > 0
    /\ event_queue[i].type = "ReceiveSetupPacket"
         => event_queue[i].of \in Addresses

IInv ==
  TypeOK /\ SinglePacket /\ WritePosition /\ SentIsEmpty /\ WriteOfCall
    /\ EventsOf
-----------------------------------------------------------------------------
LEMMA EndpointsAreNumbers ==
  ASSUME NEW ep \in AllEndpoints
  PROVE  ep \in Nat
  <1>1. Endpoints \subseteq Nat
    BY InEndpointsAssumption
  <1>2. QED
    BY <1>1 DEF AllEndpoints

LEMMA ClearedType ==
  ASSUME ep_in \in EpIn
  PROVE  /\ Cleared \in EpIn
         /\ Cleared.fifo = <<>>
  <1>1. <<>> \in Seq(Byte)
    OBVIOUS
  <1>2. QED
    BY <1>1 DEF Cleared, EpIn

LEMMA PrimedForType ==
  ASSUME ep_in \in EpIn, NEW ep \in AllEndpoints
  PROVE  /\ PrimedFor(ep) \in EpIn
         /\ PrimedFor(ep).fifo = ep_in.fifo
  BY DEF PrimedFor, EpIn

LEMMA EnqueueType ==
  ASSUME event_queue \in Seq(Event), EventsOf,
         NEW type \in {"BusReset", "ReceiveSetupPacket", "SendComplete", "Verb"},
         NEW of \in Nat, Enqueue(type, of),
         type = "ReceiveSetupPacket" => of \in Addresses,
         type = "Verb" => call'.id > 0,
         call.id > 0 => call'.id > 0
  PROVE  event_queue' \in Seq(Event) /\ EventsOf'
  <1>1. [type |-> type, of |-> of] \in Event
    BY DEF Event
  <1>2. event_queue' \in Seq(Event)
    BY <1>1 DEF Enqueue
  <1>3. \A i \in DOMAIN event_queue' :
          \/ i \in DOMAIN event_queue /\ event_queue'[i] = event_queue[i]
          \/ event_queue'[i] = [type |-> type, of |-> of]
    BY <1>1 DEF Enqueue
  <1>4. EventsOf'
    BY <1>3 DEF EventsOf
  <1>5. QED
    BY <1>2, <1>4

LEMMA NextEventType ==
  ASSUME event_queue \in Seq(Event), EventsOf,
         NEW type, NextEvent(type),
         call.id > 0 => call'.id > 0
  PROVE  /\ event_queue' \in Seq(Event) /\ EventsOf'
         /\ type = "Verb" => call.id > 0
         /\ type = "ReceiveSetupPacket" => Head(event_queue).of \in Addresses
  <1>1. event_queue' \in Seq(Event)
    BY DEF NextEvent
  <1>2. \A i \in DOMAIN event_queue' :
          i + 1 \in DOMAIN event_queue /\ event_queue'[i] = event_queue[i + 1]
    BY DEF NextEvent
  <1>3. EventsOf'
    BY <1>2 DEF EventsOf
  <1>4. 1 \in DOMAIN event_queue /\ Head(event_queue) = event_queue[1]
    BY DEF NextEvent
  <1>5. QED
    BY <1>1, <1>3, <1>4 DEF EventsOf, NextEvent

LEMMA SetTxAckType ==
  ASSUME tx_ack_active \in [AllEndpoints -> BOOLEAN],
         NEW ep \in AllEndpoints, NEW active \in BOOLEAN, SetTxAck(ep, active)
  PROVE  /\ tx_ack_active' \in [AllEndpoints -> BOOLEAN]
         /\ tx_ack_active'[ep] = active
         /\ \A e \in AllEndpoints \ {ep} : tx_ack_active'[e] = tx_ack_active[e]
  BY DEF SetTxAck

LEMMA InitIInv == Init => IInv
  <1>1. SUFFICES ASSUME Init PROVE IInv
    OBVIOUS
  <1>2. TypeOK
    <2>1. ep_in \in EpIn
      BY <1>1 DEF Init, EpIn, AllEndpoints
    <2>2. tx_ack_active \in [AllEndpoints -> BOOLEAN]
      BY <1>1 DEF Init
    <2>3. event_queue \in Seq(Event) /\ pending \subseteq Irq
      BY <1>1 DEF Init
    <2>4. write \in Write
      BY <1>1 DEF Init, Write, AllEndpoints
    <2>5. call \in Call
      <3>1. NumWrites \in Nat /\ MaxResets \in Nat
        BY InEndpointsAssumption
      <3>2. 0 \in 0 .. NumWrites /\ 0 \in 0 .. MaxResets
        BY <3>1
      <3>3. PICK ep \in Endpoints :
              call = [state |-> "none", ep |-> ep, id |-> 0, length |-> 0,
                      blocking |-> FALSE, resets |-> 0]
        BY <1>1 DEF Init
      <3>4. QED
        BY <3>2, <3>3 DEF Call
    <2>6. host \in Host
      BY <1>1 DEF Init, Host
    <2>7. received \in [Endpoints -> Seq(Byte)]
      BY <1>1 DEF Init
    <2>8. QED
      BY <1>1, <2>1, <2>2, <2>3, <2>4, <2>5, <2>6, <2>7, InEndpointsAssumption
         DEF Init, TypeOK
  <1>3. QED
    BY <1>1, <1>2
       DEF Init, IInv, SinglePacket, WritePosition, SentIsEmpty, WriteOfCall,
           EventsOf
-----------------------------------------------------------------------------
(* What the steps that leave a component alone preserve.                   *)

LEMMA SameFifo ==
  ASSUME IInv, UNCHANGED <<ep_in, write, call>>
  PROVE  SinglePacket' /\ WritePosition' /\ WriteOfCall'
  <1>1. SinglePacket'
    BY DEF IInv, SinglePacket
  <1>2. WritePosition'
    BY DEF IInv, WritePosition, Filling
  <1>3. WriteOfCall'
    BY DEF IInv, WriteOfCall
  <1>4. QED
    BY <1>1, <1>2, <1>3

LEMMA EmptiedFifo ==
  ASSUME IInv, UNCHANGED <<write, call>>, ep_in'.fifo = <<>>
  PROVE  SinglePacket' /\ WritePosition' /\ SentIsEmpty' /\ WriteOfCall'
  <1>1. write.fill \in Nat
    BY DEF IInv, TypeOK, Write
  <1>2. SinglePacket'
    BY DEF SinglePacket
  <1>3. WritePosition'
    BY <1>1 DEF IInv, WritePosition, Filling
  <1>4. SentIsEmpty'
    BY DEF SentIsEmpty
  <1>5. WriteOfCall'
    BY DEF IInv, WriteOfCall
  <1>6. QED
    BY <1>2, <1>3, <1>4, <1>5

LEMMA SameSent ==
  ASSUME IInv, UNCHANGED <<ep_in, write, tx_ack_active>>,
         "EpIn" \in pending' => "EpIn" \in pending
  PROVE  SentIsEmpty'
  BY DEF IInv, SentIsEmpty
-----------------------------------------------------------------------------
(* The interrupt handler.                                                  *)

LEMMA MachineExternalIInv ==
  ASSUME IInv, MachineExternal
  PROVE  IInv'
  <1>1. /\ TypeOK /\ EventsOf /\ event_queue \in Seq(Event)
        /\ call' = call
    BY DEF IInv, TypeOK, MachineExternal
  <1>2. CASE OnEpIn
    <2>1. ep_in.epno \in AllEndpoints /\ ep_in.epno \in Nat
      <3>1. ep_in.epno \in AllEndpoints
        BY <1>1 DEF TypeOK, EpIn
      <3>2. QED
        BY <3>1, EndpointsAreNumbers
    <2>2. event_queue' \in Seq(Event) /\ EventsOf'
      BY <1>1, <1>2, <2>1, EnqueueType DEF OnEpIn
    <2>3. tx_ack_active' \in [AllEndpoints -> BOOLEAN]
      BY <1>1, <1>2, <2>1, SetTxAckType DEF TypeOK, OnEpIn
    <2>4. ep_in'.fifo = <<>>
      BY <1>2 DEF OnEpIn, IInv, SentIsEmpty
    <2>5. TypeOK'
      BY <1>1, <1>2, <2>2, <2>3 DEF MachineExternal, OnEpIn, TypeOK, hostVars
    <2>6. QED
      BY <2>2, <2>4, <2>5, EmptiedFifo DEF MachineExternal, IInv
  <1>3. CASE OnEpControl
    <2>1. setup \in Addresses /\ setup \in Nat
      BY <1>1, <1>3, InEndpointsAssumption DEF TypeOK, OnEpControl
    <2>2. event_queue' \in Seq(Event) /\ EventsOf'
      BY <1>1, <1>3, <2>1, EnqueueType DEF OnEpControl
    <2>3. TypeOK'
      BY <1>1, <1>3, <2>2 DEF MachineExternal, OnEpControl, TypeOK, hostVars
    <2>4. SentIsEmpty'
      BY <1>3, SameSent DEF MachineExternal, OnEpControl
    <2>5. QED
      BY <1>3, <2>2, <2>3, <2>4, SameFifo DEF MachineExternal, OnEpControl, IInv
  <1>4. CASE OnReset
    <2>1. event_queue' \in Seq(Event) /\ EventsOf'
      BY <1>1, <1>4, EnqueueType DEF OnReset
    <2>2. ep_in' \in EpIn /\ ep_in'.fifo = <<>>
      BY <1>1, <1>4, ClearedType DEF TypeOK, OnReset
    <2>3. TypeOK'
      BY <1>1, <1>4, <2>1, <2>2 DEF MachineExternal, OnReset, TypeOK, hostVars
    <2>4. QED
      BY <2>1, <2>2, <2>3, EmptiedFifo DEF MachineExternal, IInv
  <1>5. QED
    BY <1>2, <1>3, <1>4 DEF MachineExternal
-----------------------------------------------------------------------------
(* The main loop takes an event.                                           *)

LEMMA BeginWriteIInv ==
  ASSUME IInv, NEW ep \in AllEndpoints, NEW length \in Nat,
         BeginWrite(ep, length), UNCHANGED <<ep_in, pending>>,
         IF ep = 0 THEN length = 0
         ELSE call'.state = "executing" /\ call'.id > 0 /\ length <= call'.length
  PROVE  /\ write' \in Write
         /\ tx_ack_active' \in [AllEndpoints -> BOOLEAN]
         /\ SinglePacket' /\ WritePosition' /\ SentIsEmpty' /\ WriteOfCall'
  <1>1. write' = [at |-> "drain", ep |-> ep, left |-> length, fill |-> 0]
    BY DEF BeginWrite
  <1>2. write' \in Write
    BY <1>1 DEF Write
  <1>3. tx_ack_active' \in [AllEndpoints -> BOOLEAN]
    BY SetTxAckType DEF IInv, TypeOK, BeginWrite
  <1>4. SinglePacket'
    BY DEF IInv, SinglePacket
  <1>5. WritePosition'
    BY <1>1 DEF WritePosition
  <1>6. SentIsEmpty'
    BY <1>1 DEF IInv, SentIsEmpty
  <1>7. WriteOfCall'
    BY <1>1 DEF WriteOfCall
  <1>8. QED
    BY <1>2, <1>3, <1>4, <1>5, <1>6, <1>7

LEMMA DispatchEventIInv ==
  ASSUME IInv, DispatchEvent
  PROVE  IInv'
  <1>1. TypeOK /\ EventsOf /\ event_queue \in Seq(Event)
    BY DEF IInv, TypeOK
  <1>2. CASE BusReset
    <2>1. event_queue' \in Seq(Event) /\ EventsOf'
      BY <1>1, <1>2, NextEventType DEF BusReset
    <2>2. TypeOK'
      BY <1>1, <1>2, <2>1 DEF TypeOK, BusReset, usbVars, hostVars
    <2>3. SentIsEmpty'
      BY <1>2, SameSent DEF BusReset, usbVars
    <2>4. QED
      BY <1>2, <2>1, <2>2, <2>3, SameFifo DEF BusReset, usbVars, IInv
  <1>3. CASE SendComplete
    <2>1. event_queue' \in Seq(Event) /\ EventsOf'
      BY <1>1, <1>3, NextEventType DEF SendComplete
    <2>2. TypeOK'
      BY <1>1, <1>3, <2>1 DEF TypeOK, SendComplete, hostVars
    <2>3. SentIsEmpty'
      BY <1>3, SameSent DEF SendComplete
    <2>4. QED
      BY <1>3, <2>1, <2>2, <2>3, SameFifo DEF SendComplete, IInv
  <1>4. CASE SetAddress
    <2>1. event_queue' \in Seq(Event) /\ EventsOf'
      BY <1>1, <1>4, NextEventType DEF SetAddress
    <2>2. Head(event_queue).of \in Addresses
      BY <1>1, <1>4, NextEventType DEF SetAddress
    <2>3. /\ write' \in Write
          /\ tx_ack_active' \in [AllEndpoints -> BOOLEAN]
          /\ SinglePacket' /\ WritePosition' /\ SentIsEmpty' /\ WriteOfCall'
      BY <1>4, BeginWriteIInv DEF SetAddress, AllEndpoints
    <2>4. TypeOK'
      BY <1>1, <1>4, <2>1, <2>2, <2>3 DEF TypeOK, SetAddress, hostVars
    <2>5. QED
      BY <2>1, <2>3, <2>4 DEF IInv
  <1>5. CASE WriteEndpoint
    <2>1. /\ call.id > 0
          /\ call \in Call /\ resets \in 0 .. MaxResets
      <3>1. call \in Call /\ resets \in 0 .. MaxResets
        BY <1>1 DEF TypeOK
      <3>2. QED
        BY <1>1, <1>5, <3>1, NextEventType DEF WriteEndpoint
    <2>2. call' = [call EXCEPT !.state = "executing", !.resets = resets]
      BY <1>5 DEF WriteEndpoint
    <2>3. call' \in Call /\ call'.id > 0 /\ call'.state = "executing"
          /\ call'.length = call.length
      BY <2>1, <2>2 DEF Call
    <2>4. event_queue' \in Seq(Event) /\ EventsOf'
      BY <1>1, <1>5, <2>3, NextEventType DEF WriteEndpoint
    <2>5. call.ep \in AllEndpoints /\ call.ep # 0 /\ call.length \in Nat
      BY <2>1, InEndpointsAssumption DEF Call, AllEndpoints
    <2>6. /\ write' \in Write
          /\ tx_ack_active' \in [AllEndpoints -> BOOLEAN]
          /\ SinglePacket' /\ WritePosition' /\ SentIsEmpty' /\ WriteOfCall'
      BY <1>5, <2>3, <2>5, BeginWriteIInv DEF WriteEndpoint
    <2>7. TypeOK'
      BY <1>1, <1>5, <2>3, <2>4, <2>6 DEF TypeOK, WriteEndpoint, hostVars
    <2>8. QED
      BY <2>4, <2>6, <2>7 DEF IInv
  <1>6. QED
    BY <1>2, <1>3, <1>4, <1>5 DEF DispatchEvent
-----------------------------------------------------------------------------
(* The loops of a write. WriteState is what their steps change.            *)

WriteState ==
  /\ ep_in \in EpIn /\ write \in Write /\ call \in Call
  /\ tx_ack_active \in [AllEndpoints -> BOOLEAN]
  /\ SinglePacket /\ WritePosition /\ SentIsEmpty /\ WriteOfCall

LEMMA WriteFacts ==
  ASSUME IInv
  PROVE  /\ WriteState
         /\ write.ep \in AllEndpoints /\ write.left \in Nat /\ write.fill \in Nat
         /\ call.length \in Nat /\ call.id \in 0 .. NumWrites
         /\ ep_in.fifo \in Seq(Byte)
         /\ write.ep # 0 => /\ write.ep \in Endpoints
                            /\ PacketSize[write.ep] \in Nat \ {0}
  <1>1. WriteState
    BY DEF IInv, TypeOK, WriteState
  <1>2. /\ write.ep \in AllEndpoints /\ write.left \in Nat /\ write.fill \in Nat
        /\ call.length \in Nat /\ call.id \in 0 .. NumWrites
        /\ ep_in.fifo \in Seq(Byte)
    BY <1>1 DEF WriteState, Write, Call, EpIn
  <1>3. write.ep # 0 => write.ep \in Endpoints
    BY <1>2 DEF AllEndpoints
  <1>4. PacketSize \in [Endpoints -> Nat \ {0}]
    BY InEndpointsAssumption
  <1>5. QED
    BY <1>1, <1>2, <1>3, <1>4

LEMMA ReturnsState ==
  ASSUME IInv, NEW result \in {"Ok", "Err"}, Returns(result),
         ep_in' \in EpIn, ep_in'.fifo \in {<<>>, ep_in.fifo},
         tx_ack_active' \in [AllEndpoints -> BOOLEAN], pending = {}, pending' = {}
  PROVE  WriteState'
  <1>1. /\ write \in Write /\ call \in Call /\ SinglePacket
    BY DEF IInv, TypeOK
  <1>2. write' = [write EXCEPT !.at = "none", !.left = 0, !.fill = 0]
    BY DEF Returns
  <1>3. write' \in Write /\ write'.at = "none"
    BY <1>1, <1>2 DEF Write
  <1>4. call' \in Call
    BY <1>1 DEF Returns, Call
  <1>5. SinglePacket'
    BY <1>1 DEF SinglePacket
  <1>6. WritePosition' /\ SentIsEmpty' /\ WriteOfCall'
    BY <1>3 DEF WritePosition, SentIsEmpty, WriteOfCall
  <1>7. QED
    BY <1>3, <1>4, <1>5, <1>6 DEF WriteState

LEMMA DrainState ==
  ASSUME IInv, pending' = {}, Drain
  PROVE  WriteState'
  <1>1. /\ write \in Write /\ ep_in.fifo = <<>> /\ write.fill = 0
        /\ write' = [write EXCEPT !.at = "bytes"]
    BY DEF IInv, TypeOK, Drain, Writing, Have, WritePosition
  <1>2. /\ write' \in Write /\ write'.at = "bytes" /\ write'.fill = 0
        /\ write'.ep = write.ep /\ write'.left = write.left
    BY <1>1 DEF Write
  <1>3. write.ep # 0 => PacketSize[write.ep] \in Nat \ {0}
    BY WriteFacts
  <1>4. WritePosition'
    BY <1>1, <1>2, <1>3 DEF WritePosition, Filling, Drain
  <1>5. SinglePacket' /\ SentIsEmpty'
    BY <1>1, <1>2 DEF SinglePacket, SentIsEmpty, Drain
  <1>6. WriteOfCall'
    BY <1>1, <1>2 DEF IInv, WriteOfCall, Drain, Writing
  <1>7. QED
    BY <1>2, <1>4, <1>5, <1>6, WriteFacts DEF WriteState, Drain

LEMMA DrainTimeoutState ==
  ASSUME IInv, pending' = {}, DrainTimeout
  PROVE  WriteState'
  <1>1. ep_in' \in EpIn /\ ep_in'.fifo = <<>>
    BY ClearedType DEF IInv, TypeOK, DrainTimeout
  <1>2. tx_ack_active' \in [AllEndpoints -> BOOLEAN]
    BY WriteFacts, SetTxAckType DEF WriteState, DrainTimeout
  <1>3. QED
    BY <1>1, <1>2, ReturnsState DEF DrainTimeout, Writing

LEMMA AddByteState ==
  ASSUME IInv, write.at = "bytes", write.left > 0, AddByte
  PROVE  /\ ep_in' \in EpIn
         /\ write.ep \in Endpoints
         /\ Len(ep_in'.fifo) = Len(ep_in.fifo) + 1
         /\ \A i \in DOMAIN ep_in'.fifo :
              ep_in'.fifo[i].id = call.id /\ ep_in'.fifo[i].ep = write.ep
  <1>1. write.ep # 0 /\ call.id > 0 /\ write.left <= call.length
    BY WriteFacts DEF WriteState, WriteOfCall
  <1>2. NextByte \in Byte
    <2>1. NumWrites \in Nat
      BY InEndpointsAssumption
    <2>2. call.id \in 1 .. NumWrites /\ call.length - write.left + 1 \in Nat
      BY <1>1, <2>1, WriteFacts
    <2>3. QED
      BY <1>1, <2>2, WriteFacts DEF NextByte, Byte
  <1>3. /\ ep_in' = [ep_in EXCEPT !.fifo = Append(ep_in.fifo, NextByte)]
        /\ NextByte.id = call.id /\ NextByte.ep = write.ep
    BY DEF AddByte, NextByte
  <1>4. ep_in'.fifo = Append(ep_in.fifo, NextByte) /\ ep_in' \in EpIn
    <2>1. Append(ep_in.fifo, NextByte) \in Seq(Byte)
      BY <1>2, WriteFacts
    <2>2. ep_in \in EpIn
      BY WriteFacts DEF WriteState
    <2>3. QED
      BY <1>3, <2>1, <2>2 DEF EpIn
  <1>5. \A i \in DOMAIN ep_in.fifo :
          ep_in.fifo[i].id = call.id /\ ep_in.fifo[i].ep = write.ep
    BY WriteFacts DEF WriteState, WritePosition, Filling
  <1>6. QED
    BY <1>1, <1>2, <1>3, <1>4, <1>5, WriteFacts

LEMMA WriteByteState ==
  ASSUME IInv, pending' = {}, WriteByte
  PROVE  WriteState'
  <1> DEFINE size == PacketSize[write.ep]
  <1>1. /\ write.at = "bytes" /\ write.left > 0 /\ AddByte
        /\ call' = call
    BY DEF WriteByte, Writing
  <1>2. /\ ep_in' \in EpIn /\ write.ep \in Endpoints /\ write.ep # 0
        /\ Len(ep_in'.fifo) = Len(ep_in.fifo) + 1
        /\ \A i \in DOMAIN ep_in'.fifo :
             ep_in'.fifo[i].id = call.id /\ ep_in'.fifo[i].ep = write.ep
    BY <1>1, AddByteState, EndpointsAreNumbers, WriteFacts
       DEF WriteState, WriteOfCall
  <1>3. /\ Len(ep_in.fifo) \in Nat /\ Len(ep_in.fifo) <= write.fill
        /\ write.fill <= size - 1 /\ size \in Nat \ {0}
    BY <1>1, <1>2, WriteFacts DEF WriteState, WritePosition, Filling
  <1>4. SinglePacket'
    <2>1. write.fill \in Nat
      BY WriteFacts
    <2>2. Len(ep_in'.fifo) <= size
      BY <1>2, <1>3, <2>1
    <2>3. \A i \in DOMAIN ep_in'.fifo : PacketSize[ep_in'.fifo[i].ep] = size
      BY <1>2
    <2>4. QED
      BY <1>2, <2>2, <2>3 DEF SinglePacket
  <1>5. /\ write' \in Write /\ write'.at \in {"bytes", "prime"}
        /\ write'.ep = write.ep /\ write'.left = write.left - 1
        /\ write'.fill = write.fill + 1
        /\ write'.at = "bytes" => write'.fill <= size - 1
    <2>1. write.left - 1 \in Nat /\ write.fill + 1 \in Nat /\ write \in Write
      BY <1>1, WriteFacts DEF WriteState
    <2>2. CASE IsFull(write.fill + 1)
      <3>1. write' = [write EXCEPT !.left = @ - 1, !.fill = @ + 1,
                                   !.at = "prime"]
        BY <2>2 DEF WriteByte
      <3>2. QED
        BY <2>1, <3>1 DEF Write
    <2>3. CASE ~ IsFull(write.fill + 1)
      <3>1. write' = [write EXCEPT !.left = @ - 1, !.fill = @ + 1]
        BY <2>3 DEF WriteByte
      <3>2. write.fill + 1 # size
        BY <1>2, <2>3 DEF IsFull, Acknowledges
      <3>3. write.fill + 1 <= size - 1
        BY <1>3, <3>2, WriteFacts
      <3>4. QED
        BY <1>1, <2>1, <3>1, <3>3 DEF Write
    <2>4. QED
      BY <2>2, <2>3
  <1>6. WritePosition'
    BY <1>1, <1>2, <1>3, <1>5, WriteFacts DEF WritePosition, Filling
  <1>7. tx_ack_active' \in [AllEndpoints -> BOOLEAN] /\ SentIsEmpty'
    <2>1. CASE IsFull(write.fill + 1)
      <3>1. SetTxAck(write.ep, TRUE)
        BY <2>1 DEF WriteByte
      <3>2. QED
        BY <1>5, <3>1, WriteFacts, SetTxAckType DEF WriteState, SentIsEmpty
    <2>2. CASE ~ IsFull(write.fill + 1)
      <3>1. /\ tx_ack_active' = tx_ack_active
            /\ write' = [write EXCEPT !.left = @ - 1, !.fill = @ + 1]
        BY <2>2 DEF WriteByte
      <3>2. write'.at = "bytes"
        BY <1>1, <3>1, WriteFacts DEF WriteState, Write
      <3>3. QED
        BY <3>1, <3>2, WriteFacts DEF WriteState, SentIsEmpty
    <2>3. QED
      BY <2>1, <2>2
  <1>8. WriteOfCall'
    BY <1>1, <1>2, <1>5, WriteFacts DEF WriteState, WriteOfCall
  <1>9. QED
    BY <1>1, <1>2, <1>4, <1>5, <1>6, <1>7, <1>8, WriteFacts DEF WriteState

LEMMA EndPayloadState ==
  ASSUME IInv, pending' = {}, EndPayload
  PROVE  WriteState'
  <1>1. /\ write.at = "bytes" /\ ep_in' = ep_in /\ call' = call
        /\ write \in Write /\ tx_ack_active \in [AllEndpoints -> BOOLEAN]
    BY WriteFacts DEF EndPayload, Writing, WriteState
  <1>2. SinglePacket'
    BY <1>1, WriteFacts DEF WriteState, SinglePacket
  <1>3. \A at \in {"block", "prime"} :
          write' = [write EXCEPT !.at = at]
            => /\ write' \in Write /\ write'.at = at
               /\ write'.ep = write.ep /\ write'.left = write.left
               /\ write'.fill = write.fill
    BY <1>1 DEF Write
  <1>4. CASE IsFull(call.length)
    <2>1. write' = [write EXCEPT !.at = "block"] /\ tx_ack_active' = tx_ack_active
      BY <1>4 DEF EndPayload
    <2>2. WritePosition' /\ SentIsEmpty'
      BY <1>1, <1>3, <2>1, WriteFacts DEF WriteState, WritePosition, SentIsEmpty
    <2>3. WriteOfCall'
      BY <1>1, <1>3, <2>1, WriteFacts DEF WriteState, WriteOfCall
    <2>4. QED
      BY <1>1, <1>2, <1>3, <2>1, <2>2, <2>3, WriteFacts DEF WriteState
  <1>5. CASE ~ IsFull(call.length)
    <2>1. write' = [write EXCEPT !.at = "prime"] /\ SetTxAck(write.ep, TRUE)
      BY <1>5 DEF EndPayload
    <2>2. WritePosition'
      BY <1>1, <1>3, <2>1, WriteFacts DEF WriteState, WritePosition, Filling
    <2>3. tx_ack_active' \in [AllEndpoints -> BOOLEAN] /\ tx_ack_active'[write.ep]
      BY <1>1, <2>1, WriteFacts, SetTxAckType
    <2>4. SentIsEmpty'
      BY <1>1, <1>3, <2>1, <2>3, WriteFacts DEF WriteState, SentIsEmpty
    <2>5. WriteOfCall'
      BY <1>1, <1>3, <2>1, WriteFacts DEF WriteState, WriteOfCall
    <2>6. QED
      BY <1>1, <1>2, <1>3, <2>1, <2>2, <2>3, <2>4, <2>5, WriteFacts DEF WriteState
  <1>6. QED
    BY <1>4, <1>5

LEMMA PrimeState ==
  ASSUME IInv, pending' = {}, Prime
  PROVE  WriteState'
  <1> DEFINE at == IF IsFull(write.fill) THEN "sent" ELSE "block"
  <1>1. /\ write.at = "prime" /\ call' = call /\ tx_ack_active' = tx_ack_active
        /\ ep_in' = PrimedFor(write.ep)
        /\ write' = [write EXCEPT !.at = at, !.fill = 0]
        /\ write \in Write
    BY WriteFacts DEF Prime, Writing, WriteState
  <1>2. ep_in' \in EpIn /\ ep_in'.fifo = ep_in.fifo
    BY <1>1, WriteFacts, PrimedForType DEF WriteState
  <1>3. SinglePacket'
    BY <1>2, WriteFacts DEF WriteState, SinglePacket
  <1>4. at \in {"sent", "block"} /\ (at = "sent" => write.ep # 0)
    BY DEF IsFull, Acknowledges
  <1>5. /\ write' \in Write /\ write'.at = at /\ write'.fill = 0
        /\ write'.ep = write.ep /\ write'.left = write.left
    BY <1>1, <1>4 DEF Write
  <1>6. WritePosition'
    BY <1>4, <1>5 DEF WritePosition
  <1>7. SentIsEmpty'
    BY <1>1, <1>2, <1>4, <1>5, WriteFacts DEF WriteState, SentIsEmpty
  <1>8. WriteOfCall'
    BY <1>1, <1>5, WriteFacts DEF WriteState, WriteOfCall
  <1>9. QED
    BY <1>1, <1>2, <1>3, <1>5, <1>6, <1>7, <1>8, WriteFacts DEF WriteState

LEMMA SentState ==
  ASSUME IInv, pending' = {}, Sent
  PROVE  WriteState'
  <1>1. /\ write.at = "sent" /\ ep_in' = ep_in /\ call' = call
        /\ tx_ack_active' = tx_ack_active /\ write \in Write
        /\ ~ tx_ack_active[write.ep]
        /\ write' = [write EXCEPT !.at = "bytes"]
    BY WriteFacts DEF Sent, Writing, WriteState
  <1>2. ep_in.fifo = <<>> /\ write.fill = 0 /\ write.ep # 0
    BY <1>1, WriteFacts DEF WriteState, SentIsEmpty, WritePosition
  <1>3. /\ write' \in Write /\ write'.at = "bytes" /\ write'.fill = 0
        /\ write'.ep = write.ep /\ write'.left = write.left
    BY <1>1, <1>2 DEF Write
  <1>4. WritePosition'
    BY <1>1, <1>2, <1>3, WriteFacts DEF WritePosition, Filling
  <1>5. SinglePacket' /\ SentIsEmpty'
    BY <1>1, <1>2 DEF SinglePacket, SentIsEmpty
  <1>6. WriteOfCall'
    BY <1>1, <1>3, WriteFacts DEF WriteState, WriteOfCall
  <1>7. QED
    BY <1>1, <1>3, <1>4, <1>5, <1>6, WriteFacts DEF WriteState

LEMMA ReturningState ==
  ASSUME IInv, pending' = {}, WriteDone \/ WriteTimeout
  PROVE  WriteState'
  <1>1. /\ pending = {} /\ ep_in' = ep_in
        /\ \E result \in {"Ok", "Err"} : Returns(result)
    BY DEF WriteDone, WriteTimeout, Writing
  <1>2. tx_ack_active' \in [AllEndpoints -> BOOLEAN]
    <2>1. CASE WriteDone
      BY <2>1, WriteFacts DEF WriteDone, WriteState
    <2>2. CASE WriteTimeout
      BY <2>2, WriteFacts, SetTxAckType DEF WriteTimeout, WriteState
    <2>3. QED
      BY <2>1, <2>2
  <1>3. QED
    BY <1>1, <1>2, WriteFacts, ReturnsState DEF WriteState

LEMMA WriteStepIInv ==
  ASSUME IInv, WriteStep
  PROVE  IInv'
  <1>1. pending' = {} /\ UNCHANGED <<address, setup, pending, event_queue,
                                      pending_set_address, hostVars>>
    BY DEF WriteStep, Drain, DrainTimeout, WriteByte, EndPayload, Prime, Sent,
           WriteDone, WriteTimeout, Writing
  <1>2. WriteState'
    BY <1>1, DrainState, DrainTimeoutState, WriteByteState, EndPayloadState,
       PrimeState, SentState, ReturningState DEF WriteStep
  <1>3. call'.id = call.id
    <2>1. \A result \in {"Ok", "Err"} : Returns(result) => call'.id = call.id
      BY WriteFacts DEF Returns, WriteState, Call
    <2>2. call' = call \/ \E result \in {"Ok", "Err"} : Returns(result)
      BY DEF WriteStep, Drain, DrainTimeout, WriteByte, EndPayload, Prime, Sent,
             WriteDone, WriteTimeout
    <2>3. QED
      BY <2>1, <2>2
  <1>4. EventsOf'
    BY <1>1, <1>3 DEF IInv, EventsOf
  <1>5. TypeOK'
    BY <1>1, <1>2 DEF IInv, TypeOK, WriteState, hostVars
  <1>6. QED
    BY <1>2, <1>4, <1>5 DEF IInv, WriteState
-----------------------------------------------------------------------------
(* The client and the host.                                                *)

LEMMA ClientCallsIInv ==
  ASSUME IInv, ClientCalls
  PROVE  IInv'
  <1>1. TypeOK /\ EventsOf /\ event_queue \in Seq(Event) /\ call \in Call
    BY DEF IInv, TypeOK
  <1>2. PICK payload \in Payloads, blocking \in BOOLEAN :
          call' = [state |-> "called", ep |-> payload[1], id |-> call.id + 1,
                   length |-> payload[2], blocking |-> blocking,
                   resets |-> resets]
    BY DEF ClientCalls
  <1>3. /\ payload[1] \in Endpoints /\ payload[2] \in Nat
        /\ NumWrites \in Nat /\ MaxResets \in Nat
    BY InEndpointsAssumption
  <1>4. /\ call.id + 1 \in 0 .. NumWrites /\ call.id + 1 > 0
        /\ resets \in 0 .. MaxResets
    BY <1>1, <1>3 DEF ClientCalls, Call, TypeOK
  <1>5. call' \in Call /\ call'.id > 0
    BY <1>2, <1>3, <1>4 DEF Call
  <1>6. event_queue' \in Seq(Event) /\ EventsOf'
    BY <1>1, <1>5, EnqueueType DEF ClientCalls
  <1>7. TypeOK'
    BY <1>1, <1>5, <1>6 DEF ClientCalls, TypeOK, usbVars, hostVars
  <1>8. SinglePacket' /\ SentIsEmpty'
    BY DEF IInv, SinglePacket, SentIsEmpty, ClientCalls, usbVars
  <1>9. write.at = "none" \/ write.ep = 0
    BY DEF ClientCalls, Settled, IInv, WriteOfCall
  <1>10. WriteOfCall'
    BY <1>9 DEF ClientCalls, IInv, WriteOfCall
  <1>11. WritePosition'
    <2>1. \A i \in DOMAIN ep_in.fifo : ep_in.fifo[i].ep # 0
      <3>1. \A i \in DOMAIN ep_in.fifo : ep_in.fifo[i].ep \in Endpoints
        <4>1. \A i \in DOMAIN ep_in.fifo : ep_in.fifo[i] \in Byte
          BY WriteFacts
        <4>2. QED
          BY <4>1 DEF Byte
      <3>2. 0 \notin Endpoints
        BY InEndpointsAssumption
      <3>3. QED
        BY <3>1, <3>2
    <2>2. write' = write /\ ep_in' = ep_in
      BY DEF ClientCalls, usbVars
    <2>3. WritePosition
      BY DEF IInv
    <2>4. QED
      BY <1>9, <2>1, <2>2, <2>3 DEF WritePosition, Filling
  <1>12. QED
    BY <1>6, <1>7, <1>8, <1>10, <1>11 DEF IInv

LEMMA QuietHostIInv ==
  ASSUME IInv, HostReset \/ HostSetsAddress \/ HostGivesUp \/ HostPolls
  PROVE  IInv'
  <1>1. TypeOK /\ EventsOf /\ host \in Host
    BY DEF IInv, TypeOK
  <1>2. /\ UNCHANGED <<ep_in, write, call, tx_ack_active, event_queue, received>>
        /\ pending' \subseteq Irq
        /\ "EpIn" \in pending' => "EpIn" \in pending
    BY <1>1 DEF HostReset, HostSetsAddress, HostGivesUp, HostPolls, usbVars,
               TypeOK, Irq
  <1>3. /\ address' \in {0} \union Addresses
        /\ setup' \in Addresses \union {None}
        /\ "EpControl" \in pending' => setup' # None
        /\ pending_set_address' \in Addresses \union {None}
        /\ resets' \in 0 .. MaxResets
    <2>1. CASE HostReset
      <3>1. MaxResets \in Nat
        BY InEndpointsAssumption
      <3>2. QED
        BY <1>1, <2>1, <3>1 DEF HostReset, TypeOK
    <2>2. CASE HostSetsAddress
      <3>1. None \notin Addresses
        BY InEndpointsAssumption
      <3>2. QED
        BY <1>1, <2>2, <3>1 DEF HostSetsAddress, TypeOK
    <2>3. CASE HostGivesUp \/ HostPolls
      BY <1>1, <2>3 DEF HostGivesUp, HostPolls, TypeOK, usbVars
    <2>4. QED
      BY <2>1, <2>2, <2>3
  <1>4. host' \in Host
    BY <1>1 DEF HostReset, HostSetsAddress, HostGivesUp, HostPolls, Host
  <1>5. TypeOK'
    BY <1>1, <1>2, <1>3, <1>4 DEF TypeOK
  <1>6. EventsOf'
    BY <1>1, <1>2 DEF EventsOf
  <1>7. QED
    BY <1>2, <1>5, <1>6, SameFifo, SameSent DEF IInv

LEMMA HostTakesIInv ==
  ASSUME IInv, HostTakes
  PROVE  IInv'
  <1>1. TypeOK /\ EventsOf /\ host \in Host /\ ep_in \in EpIn
        /\ received \in [Endpoints -> Seq(Byte)]
    BY DEF IInv, TypeOK
  <1>2. PICK ep : Takes(ep)
    BY DEF HostTakes, HostTakesStatus, HostTakesPacket
  <1>3. ep_in' \in EpIn /\ ep_in'.fifo = <<>>
    BY <1>1, <1>2, ClearedType DEF Takes
  <1>4. host' \in Host
    BY <1>1 DEF HostTakes, HostTakesStatus, HostTakesPacket, Host
  <1>5. received' \in [Endpoints -> Seq(Byte)]
    <2>1. CASE HostTakesStatus
      BY <1>1, <2>1 DEF HostTakesStatus
    <2>2. CASE HostTakesPacket
      <3>1. PICK e \in Endpoints :
              received' = [received EXCEPT ![e] = received[e] \o ep_in.fifo]
        BY <2>2 DEF HostTakesPacket
      <3>2. ep_in.fifo \in Seq(Byte) /\ received[e] \in Seq(Byte)
        BY <1>1 DEF EpIn
      <3>3. received[e] \o ep_in.fifo \in Seq(Byte)
        BY <3>2
      <3>4. QED
        BY <1>1, <3>1, <3>3
    <2>3. QED
      BY <2>1, <2>2 DEF HostTakes
  <1>6. TypeOK'
    BY <1>1, <1>2, <1>3, <1>4, <1>5 DEF Takes, TypeOK, Irq
  <1>7. EventsOf'
    BY <1>1, <1>2 DEF Takes, EventsOf
  <1>8. QED
    BY <1>2, <1>3, <1>6, <1>7, EmptiedFifo DEF Takes, IInv
-----------------------------------------------------------------------------
LEMMA NextKeepsIInv == IInv /\ [Next]_vars => IInv'
  <1>1. SUFFICES ASSUME IInv, [Next]_vars PROVE IInv'
    OBVIOUS
  <1>2. CASE MachineExternal
    BY <1>1, <1>2, MachineExternalIInv
  <1>3. CASE MainLoop
    BY <1>1, <1>3, DispatchEventIInv, WriteStepIInv DEF MainLoop
  <1>4. CASE ClientCalls
    BY <1>1, <1>4, ClientCallsIInv
  <1>5. CASE TargetHost
    BY <1>1, <1>5, QuietHostIInv, HostTakesIInv DEF TargetHost
  <1>6. CASE UNCHANGED vars
    <2>1. TypeOK' /\ EventsOf'
      BY <1>1, <1>6 DEF vars, usbVars, hostVars, IInv, TypeOK, EventsOf
    <2>2. SinglePacket' /\ WritePosition' /\ WriteOfCall'
      BY <1>1, <1>6, SameFifo DEF vars, usbVars
    <2>3. SentIsEmpty'
      BY <1>1, <1>6, SameSent DEF vars, usbVars
    <2>4. QED
      BY <2>1, <2>2, <2>3 DEF IInv
  <1>7. QED
    BY <1>1, <1>2, <1>3, <1>4, <1>5, <1>6 DEF Next

(* Every reachable state is well typed: no byte is written to an endpoint  *)
(* that does not exist or by a call that was not made, none is written past*)
(* the end of a payload, and the address assigned is one that was asked for*)
(* (write_endpoint, dispatch_event).                                       *)
THEOREM TypeCorrect == Spec => []TypeOK
  <1>1. IInv => TypeOK
    BY Zenon DEF IInv
  <1>2. QED
    BY <1>1, InitIInv, NextKeepsIInv, PTL DEF Spec

(* However many endpoints share the FIFO, whatever their sizes and the     *)
(* payloads, wherever writes time out and the bus is reset, and even if the*)
(* client does not respect the assignment of an address, the FIFO holds    *)
(* bytes of one payload and no more than a packet (write_endpoint).        *)
THEOREM FifoHoldsSinglePacket == Spec => []SinglePacket
  <1>1. IInv => SinglePacket
    BY Zenon DEF IInv
  <1>2. QED
    BY <1>1, InitIInv, NextKeepsIInv, PTL DEF Spec
-----------------------------------------------------------------------------
(* Delivered, for a client that makes packets itself.                      *)

Rest(size, n) == n % size

Executing == call.state = "executing"

(* No bus reset since the execution began.                                 *)
Undisturbed == Executing /\ call.resets = resets

IsVerb(i) == event_queue[i].type = "Verb"

(* A call is executed once, by the one write of its endpoint.              *)
CallsOnce ==
  /\ \A i, j \in DOMAIN event_queue : IsVerb(i) /\ IsVerb(j) => i = j
  /\ \A i \in DOMAIN event_queue : IsVerb(i) => call.state = "called"
  /\ Executing => write.at # "none" /\ write.ep = call.ep
  /\ call.state # "none" => <<call.ep, call.length>> \in Payloads

(* A host polls while it has addressed the device, which a reset undoes.   *)
Addressing ==
  /\ host.polls # {} => host.address # 0
  /\ host.stage = "status" => host.address = 0
  /\ "BusReset" \in pending => host.address = 0 /\ host.stage = "none"
  /\ call.resets <= resets
  /\ Undisturbed => "BusReset" \notin pending

(* A host may take packets of a write if it has addressed the device or may*)
(* still take the acknowledgement that was primed before the write began.  *)
(* None is primed during it: a host that cannot take a packet now will not *)
(* before the write has ended, and no packet of the write completes.       *)
InReach ==
  Undisturbed /\ (host.address # 0 \/ (ep_in.primed /\ ep_in.epno = 0))

OutOfReach ==
  /\ Executing /\ call.resets # resets =>
       /\ host.address = 0
       /\ "BusReset" \in pending \/ ~ (ep_in.primed /\ ep_in.epno = 0)
  /\ Undisturbed /\ host.address = 0 =>
       /\ tx_ack_active[write.ep]
       /\ "EpIn" \in pending => ep_in.epno = 0

(* What an addressed host may take is a packet that has bytes, all of the  *)
(* endpoint that it is primed for, and no byte is added to it.             *)
PrimedWhole ==
  (host.address # 0 /\ ep_in.primed /\ ep_in.epno # 0) =>
    /\ ep_in.fifo # <<>>
    /\ \A i \in DOMAIN ep_in.fifo : ep_in.fifo[i].ep = ep_in.epno
    /\ write.at \notin {"bytes", "prime"}

(* Where a write within reach is in its payload.                           *)
Size == PacketSize[write.ep]
Written == call.length - write.left

Position ==
  InReach =>
    /\ write.at = "drain" => Written = 0
    /\ write.at = "bytes" =>
         Len(ep_in.fifo) = write.fill /\ write.fill = Rest(Size, Written)
    /\ write.at = "prime" =>
         /\ ep_in.fifo # <<>>
         /\ IF write.fill = Size THEN Rest(Size, Written) = 0
            ELSE write.left = 0
    /\ write.at = "sent" => Rest(Size, Written) = 0
    /\ write.at = "block" =>
         /\ write.left = 0
         /\ ~ tx_ack_active[write.ep] => ep_in.fifo = <<>>

(* The last n bytes of s are the first n that the call id wrote to ep.     *)
EndsWith(s, ep, id, n) ==
  /\ Len(s) - n >= 0
  /\ \A i \in 1 .. n : s[Len(s) - n + i] = [ep |-> ep, id |-> id, i |-> i]

(* What was written is in the hands of the host or in the FIFO.            *)
Streaming ==
  (InReach /\ write.at # "drain") =>
    /\ EndsWith(received[call.ep] \o ep_in.fifo, call.ep, call.id, Written)
    /\ \A i \in DOMAIN ep_in.fifo : ep_in.fifo[i].ep = call.ep

TakenWhole ==
  (call.state = "Ok" /\ call.blocking /\ call.resets = resets) =>
    /\ EndsWith(received[call.ep], call.ep, call.id, call.length)
    /\ ep_in.fifo = <<>>

(* The bytes read from an endpoint, those in the FIFO, and the next one.   *)
Ascending(s) == \A i, j \in DOMAIN s : i < j => Before(s[i], s[j])

AllBefore(s, b) == \A i \in DOMAIN s : Before(s[i], b)

Earlier(b) ==
  IF Executing THEN Before(b, NextByte)
  ELSE IF call.state = "called" THEN b.id < call.id ELSE b.id <= call.id

FifoSorted ==
  /\ Ascending(ep_in.fifo)
  /\ \A j \in DOMAIN ep_in.fifo :
       /\ Earlier(ep_in.fifo[j])
       /\ AllBefore(received[ep_in.fifo[j].ep], ep_in.fifo[j])

ReadSorted ==
  \A ep \in Endpoints :
    /\ Ascending(received[ep])
    /\ \A i \in DOMAIN received[ep] :
         received[ep][i].ep = ep /\ Earlier(received[ep][i])

Delivering ==
  /\ CallsOnce /\ Addressing /\ OutOfReach /\ PrimedWhole /\ Position
  /\ Streaming /\ TakenWhole /\ FifoSorted /\ ReadSorted
-----------------------------------------------------------------------------
(* Remainders, and sequences of bytes.                                     *)

LEMMA RemainderUnique ==
  ASSUME NEW m \in Nat \ {0}, NEW q \in Int, NEW p \in Int,
         NEW r \in 0 .. m - 1, NEW s \in 0 .. m - 1, m * q + r = m * p + s
  PROVE  r = s
  <1>1. m * (q - p) = s - r
    OBVIOUS
  <1>2. CASE q - p >= 1
    <2>1. m * (q - p) >= m * 1
      BY <1>2
    <2>2. QED
      BY <1>1, <2>1
  <1>3. CASE q - p <= - 1
    <2>1. m * (q - p) <= m * (- 1)
      BY <1>3
    <2>2. m * (- 1) = - m
      OBVIOUS
    <2>3. QED
      BY <1>1, <2>1, <2>2
  <1>4. CASE q = p
    BY <1>1, <1>4
  <1>5. QED
    BY <1>2, <1>3, <1>4

LEMMA Division ==
  ASSUME NEW m \in Nat \ {0}, NEW n \in Nat
  PROVE  \E q \in Int : n = m * q + Rest(m, n) /\ Rest(m, n) \in 0 .. m - 1
  <1>1. n \div m \in Int /\ n % m \in 0 .. m - 1 /\ n = m * (n \div m) + (n % m)
    OBVIOUS
  <1>2. QED
    BY <1>1 DEF Rest

LEMMA RestType ==
  ASSUME NEW size \in Nat \ {0}, NEW n \in Nat
  PROVE  Rest(size, n) \in 0 .. size - 1
  BY Division

LEMMA RestOne ==
  ASSUME NEW size \in Nat \ {0}, NEW n \in Nat
  PROVE  Rest(size, n + 1) =
           IF Rest(size, n) + 1 = size THEN 0 ELSE Rest(size, n) + 1
  <1>1. PICK q \in Int : n = size * q + Rest(size, n)
    BY Division
  <1>2. n + 1 \in Nat
    OBVIOUS
  <1>3. PICK p \in Int : n + 1 = size * p + Rest(size, n + 1)
    BY <1>2, Division
  <1>4. Rest(size, n) \in 0 .. size - 1 /\ Rest(size, n + 1) \in 0 .. size - 1
    BY <1>2, Division
  <1>5. CASE Rest(size, n) + 1 = size
    <2>1. size * (q + 1) = size * q + size /\ size * q \in Int /\ q + 1 \in Int
      OBVIOUS
    <2>2. \A a, b \in Int : (n = a + Rest(size, n) /\ b = a + size) => n + 1 = b + 0
      BY <1>4, <1>5
    <2>3. size * (q + 1) \in Int
      BY <2>1
    <2>4. n + 1 = size * (q + 1) + 0
      BY <1>1, <2>1, <2>2, <2>3
    <2>5. 0 \in 0 .. size - 1
      OBVIOUS
    <2>6. Rest(size, n + 1) = 0
      BY <1>3, <1>4, <2>1, <2>4, <2>5, RemainderUnique
    <2>7. QED
      BY <1>5, <2>6
  <1>6. CASE Rest(size, n) + 1 # size
    <2>1. Rest(size, n) + 1 \in 0 .. size - 1
      BY <1>4, <1>6
    <2>2. size * p + Rest(size, n + 1) = size * q + (Rest(size, n) + 1)
      BY <1>1, <1>3, <1>4
    <2>3. QED
      BY <1>4, <1>6, <2>1, <2>2, RemainderUnique
  <1>7. QED
    BY <1>5, <1>6

LEMMA RestNone ==
  ASSUME NEW size \in Nat \ {0}
  PROVE  Rest(size, 0) = 0 /\ Rest(size, size) = 0
  BY DEF Rest

LEMMA EndsWithNothing ==
  ASSUME NEW s \in Seq(Byte), NEW ep, NEW id
  PROVE  EndsWith(s, ep, id, 0)
  BY DEF EndsWith

LEMMA EndsWithOneMore ==
  ASSUME NEW s \in Seq(Byte), NEW ep, NEW id, NEW n \in Nat,
         EndsWith(s, ep, id, n), NEW byte \in Byte,
         byte = [ep |-> ep, id |-> id, i |-> n + 1]
  PROVE  EndsWith(Append(s, byte), ep, id, n + 1)
  <1> DEFINE t == Append(s, byte)
  <1>1. /\ Len(s) \in Nat /\ Len(t) = Len(s) + 1 /\ t[Len(s) + 1] = byte
        /\ \A k \in 1 .. Len(s) : t[k] = s[k]
    OBVIOUS
  <1>2. /\ Len(s) - n >= 0
        /\ \A i \in 1 .. n : s[Len(s) - n + i] = [ep |-> ep, id |-> id, i |-> i]
    BY DEF EndsWith
  <1> HIDE DEF t
  <1>3. Len(t) - (n + 1) = Len(s) - n
    BY <1>1
  <1>4. ASSUME NEW i \in 1 .. n + 1
        PROVE  t[Len(s) - n + i] = [ep |-> ep, id |-> id, i |-> i]
    <2>1. CASE i = n + 1
      <3>1. Len(s) - n + i = Len(s) + 1
        BY <1>1, <2>1
      <3>2. QED
        BY <1>1, <2>1, <3>1
    <2>2. CASE i # n + 1
      <3>1. i \in 1 .. n /\ Len(s) - n + i \in 1 .. Len(s)
        BY <1>1, <1>2, <2>2
      <3>2. QED
        BY <1>1, <1>2, <3>1
    <2>3. QED
      BY <2>1, <2>2
  <1>5. EndsWith(t, ep, id, n + 1)
    BY <1>2, <1>3, <1>4 DEF EndsWith
  <1>6. QED
    BY <1>5 DEF t

LEMMA Joined ==
  ASSUME NEW s \in Seq(Byte), NEW t \in Seq(Byte), NEW byte \in Byte
  PROVE  /\ s \o t \in Seq(Byte)
         /\ s \o Append(t, byte) = Append(s \o t, byte)
         /\ s \o <<>> = s
  OBVIOUS

LEMMA AscendingJoined ==
  ASSUME NEW s \in Seq(Byte), NEW t \in Seq(Byte), Ascending(s), Ascending(t),
         \A j \in DOMAIN t : AllBefore(s, t[j])
  PROVE  Ascending(s \o t)
  <1> DEFINE u == s \o t
  <1>1. /\ Len(s) \in Nat /\ Len(t) \in Nat /\ DOMAIN u = 1 .. Len(s) + Len(t)
        /\ DOMAIN s = 1 .. Len(s) /\ DOMAIN t = 1 .. Len(t)
        /\ \A k \in 1 .. Len(s) : u[k] = s[k]
        /\ \A k \in Len(s) + 1 .. Len(s) + Len(t) : u[k] = t[k - Len(s)]
    OBVIOUS
  <1> HIDE DEF u
  <1>2. ASSUME NEW i \in DOMAIN u, NEW j \in DOMAIN u, i < j
        PROVE  Before(u[i], u[j])
    <2>1. CASE j <= Len(s)
      <3>1. i \in DOMAIN s /\ j \in DOMAIN s
        BY <1>1, <1>2, <2>1
      <3>2. Before(s[i], s[j])
        BY <1>2, <3>1 DEF Ascending
      <3>3. QED
        BY <1>1, <3>1, <3>2
    <2>2. CASE i > Len(s)
      <3>1. /\ i - Len(s) \in DOMAIN t /\ j - Len(s) \in DOMAIN t
            /\ i - Len(s) < j - Len(s)
            /\ i \in Len(s) + 1 .. Len(s) + Len(t)
            /\ j \in Len(s) + 1 .. Len(s) + Len(t)
        BY <1>1, <1>2, <2>2
      <3>2. Before(t[i - Len(s)], t[j - Len(s)])
        BY <3>1 DEF Ascending
      <3>3. u[i] = t[i - Len(s)] /\ u[j] = t[j - Len(s)]
        BY <1>1, <3>1
      <3>4. QED
        BY <3>2, <3>3
    <2>3. CASE i <= Len(s) /\ j > Len(s)
      <3>1. /\ i \in DOMAIN s /\ j - Len(s) \in DOMAIN t
            /\ j \in Len(s) + 1 .. Len(s) + Len(t)
        BY <1>1, <1>2, <2>3
      <3>2. Before(s[i], t[j - Len(s)])
        BY <3>1 DEF AllBefore
      <3>3. u[i] = s[i] /\ u[j] = t[j - Len(s)]
        BY <1>1, <3>1
      <3>4. QED
        BY <3>2, <3>3
    <2>4. QED
      BY <1>1, <1>2, <2>1, <2>2, <2>3
  <1>3. Ascending(u)
    BY <1>2 DEF Ascending
  <1>4. QED
    BY <1>3 DEF u

LEMMA AscendingOneMore ==
  ASSUME NEW s \in Seq(Byte), NEW byte \in Byte, Ascending(s), AllBefore(s, byte)
  PROVE  Ascending(Append(s, byte))
  <1>1. <<byte>> \in Seq(Byte) /\ DOMAIN <<byte>> = {1} /\ <<byte>>[1] = byte
    OBVIOUS
  <1>2. Ascending(<<byte>>)
    BY <1>1 DEF Ascending
  <1>3. Ascending(s \o <<byte>>)
    BY <1>1, <1>2, AscendingJoined
  <1>4. s \o <<byte>> = Append(s, byte)
    OBVIOUS
  <1>5. QED
    BY <1>3, <1>4
-----------------------------------------------------------------------------
(* What the steps preserve.                                                *)

LEMMA DeliveryTypes ==
  ASSUME IInv
  PROVE  /\ ep_in.fifo \in Seq(Byte)
         /\ received \in [Endpoints -> Seq(Byte)]
         /\ write \in Write /\ write.left \in Nat /\ write.fill \in Nat
         /\ write.ep \in AllEndpoints
         /\ call \in Call /\ call.ep \in Endpoints /\ call.id \in Nat
         /\ call.length \in Nat /\ call.resets \in Nat
         /\ resets \in Nat
         /\ 0 \notin Endpoints
  <1>1. /\ NumWrites \in Nat /\ MaxResets \in Nat /\ 0 \notin Endpoints
    BY InEndpointsAssumption
  <1>2. /\ ep_in \in EpIn /\ received \in [Endpoints -> Seq(Byte)]
        /\ write \in Write /\ call \in Call /\ resets \in 0 .. MaxResets
    BY DEF IInv, TypeOK
  <1>3. resets \in Nat
    BY <1>1, <1>2
  <1>4. /\ call.ep \in Endpoints /\ call.id \in 0 .. NumWrites
        /\ call.length \in Nat /\ call.resets \in 0 .. MaxResets
    BY <1>2 DEF Call
  <1>5. call.id \in Nat /\ call.resets \in Nat
    BY <1>1, <1>4
  <1>6. ep_in.fifo \in Seq(Byte)
    BY <1>2 DEF EpIn
  <1>7. /\ write.left \in Nat /\ write.fill \in Nat /\ write.ep \in AllEndpoints
    BY <1>2 DEF Write
  <1>8. QED
    BY <1>1, <1>2, <1>3, <1>4, <1>5, <1>6, <1>7

LEMMA ByteFields ==
  ASSUME NEW b \in Byte
  PROVE  b.ep \in Endpoints /\ b.id \in Nat /\ b.i \in Nat
  <1>1. b.ep \in Endpoints /\ b.id \in 1 .. NumWrites /\ b.i \in Nat
    BY DEF Byte
  <1>2. NumWrites \in Nat
    BY InEndpointsAssumption
  <1>3. QED
    BY <1>1, <1>2

(* An event that is not a verb is queued.                                  *)
LEMMA OtherQueued ==
  ASSUME IInv, CallsOnce, UNCHANGED <<write, call>>,
         NEW type \in {"BusReset", "ReceiveSetupPacket", "SendComplete"},
         NEW of \in Nat, Enqueue(type, of)
  PROVE  CallsOnce'
  <1>1. event_queue \in Seq(Event) /\ [type |-> type, of |-> of] \in Event
    BY DEF IInv, TypeOK, Event
  <1>2. \A i \in DOMAIN event_queue' : IsVerb(i)' => i \in DOMAIN event_queue /\ IsVerb(i)
    BY <1>1 DEF Enqueue, IsVerb
  <1>3. QED
    BY <1>2 DEF CallsOnce, Executing

(* The main loop takes an event.                                           *)
LEMMA EventTaken ==
  ASSUME IInv, CallsOnce, NEW type, NextEvent(type)
  PROVE  /\ \A i, j \in DOMAIN event_queue' : IsVerb(i)' /\ IsVerb(j)' => i = j
         /\ \A i \in DOMAIN event_queue' : IsVerb(i)' => call.state = "called"
         /\ type = "Verb" =>
              /\ call.state = "called"
              /\ \A i \in DOMAIN event_queue' : ~ IsVerb(i)'
         /\ ~ Executing
  <1>1. event_queue \in Seq(Event) /\ event_queue # <<>>
        /\ event_queue' = Tail(event_queue) /\ Head(event_queue).type = type
        /\ write.at = "none"
    BY DEF IInv, TypeOK, NextEvent
  <1>2. /\ 1 \in DOMAIN event_queue /\ event_queue[1].type = type
        /\ \A i \in DOMAIN event_queue' :
             /\ i \in Nat /\ i # 0 /\ i + 1 \in DOMAIN event_queue
             /\ event_queue'[i] = event_queue[i + 1]
    BY <1>1
  <1>3. \A i \in DOMAIN event_queue' :
          IsVerb(i)' => i \in Nat /\ i # 0 /\ i + 1 \in DOMAIN event_queue /\ IsVerb(i + 1)
    BY <1>2 DEF IsVerb
  <1>4. \A i, j \in DOMAIN event_queue' : IsVerb(i)' /\ IsVerb(j)' => i = j
    <2>1. ASSUME NEW i \in DOMAIN event_queue', NEW j \in DOMAIN event_queue',
                 IsVerb(i)', IsVerb(j)'
          PROVE  i = j
      <3>1. i + 1 = j + 1 /\ i \in Nat /\ j \in Nat
        BY <1>3, <2>1 DEF CallsOnce
      <3>2. QED
        BY <3>1
    <2>2. QED
      BY <2>1
  <1>5. \A i \in DOMAIN event_queue' : IsVerb(i)' => call.state = "called"
    BY <1>3 DEF CallsOnce
  <1>6. ASSUME type = "Verb"
        PROVE  /\ call.state = "called"
               /\ \A i \in DOMAIN event_queue' : ~ IsVerb(i)'
    <2>1. IsVerb(1)
      BY <1>2, <1>6 DEF IsVerb
    <2>2. \A i \in DOMAIN event_queue' : IsVerb(i)' => i + 1 = 1 /\ i \in Nat /\ i # 0
      BY <1>2, <1>3, <2>1 DEF CallsOnce
    <2>3. call.state = "called"
      BY <1>2, <2>1 DEF CallsOnce
    <2>4. ~ (\E i \in Nat : i + 1 = 1 /\ i # 0)
      OBVIOUS
    <2>5. QED
      BY <2>2, <2>3, <2>4
  <1>7. ~ Executing
    BY <1>1 DEF CallsOnce
  <1>8. QED
    BY <1>4, <1>5, <1>6, <1>7

(* Calls and bytes to come are later than the bytes there are.             *)
EarlierKept == \A b \in Byte : Earlier(b) => Earlier(b)'

LEMMA EarlierSame ==
  ASSUME call' = call, write'.left = write.left
  PROVE  EarlierKept
  BY DEF EarlierKept, Earlier, NextByte, Executing, Before

LEMMA EarlierIdle ==
  ASSUME call' = call, ~ Executing
  PROVE  EarlierKept
  BY DEF EarlierKept, Earlier, Executing, Before

LEMMA SortedKept ==
  ASSUME IInv, FifoSorted, ReadSorted, EarlierKept, received' = received,
         ep_in'.fifo \in {<<>>, ep_in.fifo}
  PROVE  FifoSorted' /\ ReadSorted'
  <1>1. /\ \A j \in DOMAIN ep_in.fifo : ep_in.fifo[j] \in Byte
        /\ \A ep \in Endpoints : \A i \in DOMAIN received[ep] : received[ep][i] \in Byte
    BY DeliveryTypes
  <1>2. ReadSorted'
    <2>1. \A ep \in Endpoints : \A i \in DOMAIN received[ep] : Earlier(received[ep][i])'
      BY <1>1 DEF EarlierKept, ReadSorted
    <2>2. \A ep \in Endpoints : Ascending(received[ep])'
      BY DEF ReadSorted, Ascending, Before
    <2>3. QED
      BY <2>1, <2>2 DEF ReadSorted
  <1>3. CASE ep_in'.fifo = <<>>
    BY <1>2, <1>3 DEF FifoSorted, Ascending
  <1>4. CASE ep_in'.fifo = ep_in.fifo
    <2>1. \A j \in DOMAIN ep_in.fifo : Earlier(ep_in.fifo[j])'
      BY <1>1, <1>4 DEF EarlierKept, FifoSorted
    <2>2. Ascending(ep_in.fifo)'
      BY <1>4 DEF FifoSorted, Ascending, Before
    <2>3. \A j \in DOMAIN ep_in.fifo : AllBefore(received[ep_in.fifo[j].ep], ep_in.fifo[j])'
      BY <1>4 DEF FifoSorted, AllBefore, Before
    <2>4. QED
      BY <1>2, <1>4, <2>1, <2>2, <2>3 DEF FifoSorted
  <1>5. QED
    BY <1>2, <1>3, <1>4

(* What a step beside the write, of the handler or the host, preserves.    *)
LEMMA BesideWrite ==
  ASSUME IInv, Delivering, UNCHANGED <<ep_in, write, call, received, resets>>,
         host'.address = host.address,
         tx_ack_active' = tx_ack_active \/ ep_in.fifo = <<>>,
         CallsOnce', Addressing', OutOfReach'
  PROVE  Delivering'
  <1>1. PrimedWhole'
    BY DEF Delivering, PrimedWhole
  <1>2. Position'
    BY DEF Delivering, Position, InReach, Undisturbed, Executing, Size, Written,
           Rest
  <1>3. Streaming'
    BY DEF Delivering, Streaming, InReach, Undisturbed, Executing, Written,
           EndsWith
  <1>4. TakenWhole'
    BY DEF Delivering, TakenWhole, EndsWith
  <1>5. FifoSorted' /\ ReadSorted'
    BY EarlierSame, SortedKept DEF Delivering
  <1>6. QED
    BY <1>1, <1>2, <1>3, <1>4, <1>5 DEF Delivering

LEMMA SameEvents ==
  ASSUME CallsOnce, UNCHANGED <<event_queue, write, call>>
  PROVE  CallsOnce'
  BY DEF CallsOnce, IsVerb, Executing

LEMMA SameAddressing ==
  ASSUME Addressing, UNCHANGED <<host, call, resets>>,
         "BusReset" \in pending' => "BusReset" \in pending
  PROVE  Addressing'
  BY DEF Addressing, Undisturbed, Executing

LEMMA ReachKept ==
  ASSUME OutOfReach, UNCHANGED <<call, resets>>, host'.address = host.address,
         Executing =>
           /\ write'.ep = write.ep
           /\ ep_in'.primed /\ ep_in'.epno = 0 => ep_in.primed /\ ep_in.epno = 0
           /\ tx_ack_active[write.ep] => tx_ack_active'[write.ep],
         "BusReset" \in pending => "BusReset" \in pending',
         "EpIn" \in pending' => "EpIn" \in pending /\ ep_in'.epno = ep_in.epno
  PROVE  OutOfReach'
  BY DEF OutOfReach, Undisturbed, Executing

(* The FIFO is emptied beside the write, which is not of the call or was   *)
(* disturbed.                                                              *)
LEMMA EmptiedBeside ==
  ASSUME IInv, Delivering, UNCHANGED <<write, call, received, resets>>,
         ep_in' = Cleared, ~ Undisturbed, CallsOnce', Addressing', OutOfReach'
  PROVE  Delivering'
  <1>1. ep_in'.fifo = <<>> /\ ep_in'.primed = FALSE
    BY DEF Cleared, IInv, TypeOK, EpIn
  <1>2. ~ Undisturbed'
    BY DEF Undisturbed, Executing
  <1>3. PrimedWhole' /\ Position' /\ Streaming'
    BY <1>1, <1>2 DEF PrimedWhole, InReach, Position, Streaming
  <1>4. TakenWhole'
    BY <1>1 DEF Delivering, TakenWhole, EndsWith
  <1>5. FifoSorted' /\ ReadSorted'
    BY <1>1, EarlierSame, SortedKept DEF Delivering
  <1>6. QED
    BY <1>3, <1>4, <1>5 DEF Delivering
LEMMA CallsPacket ==
  ASSUME IInv, Delivering, Executing
  PROVE  /\ write.ep = call.ep /\ write.ep \in Endpoints /\ write.ep # 0
         /\ Size \in Nat \ {0}
         /\ write.left <= call.length /\ Written \in Nat
         /\ ~ Acknowledges
  <1>1. write.ep = call.ep /\ write.at # "none"
    BY DEF Delivering, CallsOnce
  <1>2. write.ep \in Endpoints /\ write.ep # 0
    BY <1>1, DeliveryTypes
  <1>3. Size \in Nat \ {0}
    BY <1>2, InEndpointsAssumption DEF Size
  <1>4. write.left <= call.length
    BY <1>1, <1>2 DEF IInv, WriteOfCall
  <1>5. Written \in Nat
    BY <1>4, DeliveryTypes DEF Written
  <1>6. QED
    BY <1>1, <1>2, <1>3, <1>4, <1>5 DEF Acknowledges
-----------------------------------------------------------------------------
(* The interrupt handler, and the events that begin no write.              *)

LEMMA MachineExternalDelivers ==
  ASSUME IInv, Delivering, MachineExternal
  PROVE  Delivering'
  <1>1. /\ UNCHANGED <<write, call, host, received, resets>>
        /\ CallsOnce /\ Addressing
        /\ 0 \in Nat
    BY DEF MachineExternal, hostVars, Delivering
  <1>2. CASE OnEpIn
    <2>1. ep_in.epno \in AllEndpoints
      BY DEF IInv, TypeOK, EpIn
    <2>2. ep_in.epno \in Nat
      BY <2>1, EndpointsAreNumbers
    <2>3. CallsOnce'
      BY <1>1, <1>2, <2>2, OtherQueued DEF OnEpIn
    <2>4. Addressing'
      BY <1>1, <1>2, SameAddressing DEF OnEpIn
    <2>5. ep_in.fifo = <<>> /\ ep_in' = ep_in
      BY <1>2 DEF OnEpIn, IInv, SentIsEmpty
    <2>6. OutOfReach'
      <3>1. ASSUME Undisturbed, host.address = 0
            PROVE  tx_ack_active'[write.ep]
        <4>1. tx_ack_active[write.ep] /\ ep_in.epno = 0
          BY <1>2, <3>1 DEF OnEpIn, Delivering, OutOfReach
        <4>2. write.ep # 0 /\ write.ep \in AllEndpoints
          BY <3>1, CallsPacket, DeliveryTypes DEF Undisturbed
        <4>3. tx_ack_active' = [tx_ack_active EXCEPT ![0] = FALSE]
          BY <1>2, <4>1 DEF OnEpIn, SetTxAck
        <4>4. QED
          BY <4>1, <4>2, <4>3 DEF IInv, TypeOK
      <3>2. QED
        BY <1>1, <1>2, <3>1
           DEF OnEpIn, Delivering, OutOfReach, Undisturbed, Executing
    <2>7. QED
      BY <1>1, <2>3, <2>4, <2>5, <2>6, BesideWrite
  <1>3. CASE OnEpControl
    <2>1. setup \in Nat
      BY <1>3, InEndpointsAssumption DEF IInv, TypeOK, OnEpControl
    <2>2. CallsOnce'
      BY <1>1, <1>3, <2>1, OtherQueued DEF OnEpControl
    <2>3. Addressing'
      BY <1>1, <1>3, SameAddressing DEF OnEpControl
    <2>4. OutOfReach'
      BY <1>1, <1>3, ReachKept DEF OnEpControl, Delivering
    <2>5. QED
      BY <1>1, <1>3, <2>2, <2>3, <2>4, BesideWrite DEF OnEpControl
  <1>4. CASE OnReset
    <2>1. CallsOnce'
      BY <1>1, <1>4, OtherQueued DEF OnReset
    <2>2. Addressing'
      BY <1>1, <1>4, SameAddressing DEF OnReset
    <2>3. ~ Undisturbed
      BY <1>1, <1>4 DEF OnReset, Addressing
    <2>4. OutOfReach'
      <3>1. ~ ep_in'.primed
        BY <1>4 DEF OnReset, Cleared, IInv, TypeOK, EpIn
      <3>2. QED
        BY <1>1, <2>3, <3>1 DEF Delivering, OutOfReach, Undisturbed, Executing
    <2>5. QED
      BY <1>1, <1>4, <2>1, <2>2, <2>3, <2>4, EmptiedBeside DEF OnReset
  <1>5. QED
    BY <1>2, <1>3, <1>4 DEF MachineExternal

LEMMA EventsDeliver ==
  ASSUME IInv, Delivering, BusReset \/ SendComplete
  PROVE  Delivering'
  <1>1. /\ UNCHANGED <<ep_in, pending, tx_ack_active, write, call, host, received, resets>>
        /\ \E type : NextEvent(type)
        /\ CallsOnce /\ Addressing
    BY DEF BusReset, SendComplete, usbVars, hostVars, Delivering
  <1>2. CallsOnce'
    BY <1>1, EventTaken DEF CallsOnce, Executing
  <1>3. Addressing' /\ OutOfReach'
    BY <1>1, SameAddressing, ReachKept DEF Delivering
  <1>4. QED
    BY <1>1, <1>2, <1>3, BesideWrite
-----------------------------------------------------------------------------
(* A write begins.                                                         *)

LEMMA SetAddressDelivers ==
  ASSUME IInv, Delivering, SetAddress
  PROVE  Delivering'
  <1>1. /\ UNCHANGED <<ep_in, pending, call, host, received, resets>>
        /\ write' = [at |-> "drain", ep |-> 0, left |-> 0, fill |-> 0]
        /\ NextEvent("ReceiveSetupPacket")
        /\ CallsOnce /\ Addressing
    BY DEF SetAddress, BeginWrite, hostVars, Delivering
  <1>2. ~ Executing
    BY <1>1, EventTaken
  <1>3. ~ Executing' /\ ~ Undisturbed'
    BY <1>1, <1>2 DEF Executing, Undisturbed
  <1>4. CallsOnce'
    BY <1>1, <1>3, EventTaken DEF CallsOnce
  <1>5. Addressing' /\ OutOfReach'
    BY <1>1, <1>3, SameAddressing DEF OutOfReach, Undisturbed
  <1>6. PrimedWhole'
    BY <1>1 DEF Delivering, PrimedWhole
  <1>7. Position' /\ Streaming'
    BY <1>3 DEF InReach, Position, Streaming
  <1>8. TakenWhole'
    BY <1>1 DEF Delivering, TakenWhole, EndsWith
  <1>9. FifoSorted' /\ ReadSorted'
    BY <1>1, <1>2, EarlierIdle, SortedKept DEF Delivering
  <1>10. QED
    BY <1>4, <1>5, <1>6, <1>7, <1>8, <1>9 DEF Delivering

LEMMA WriteEndpointDelivers ==
  ASSUME IInv, Delivering, WriteEndpoint
  PROVE  Delivering'
  <1>1. /\ UNCHANGED <<ep_in, pending, host, received, resets>>
        /\ write' = [at |-> "drain", ep |-> call.ep, left |-> call.length,
                     fill |-> 0]
        /\ call' = [call EXCEPT !.state = "executing", !.resets = resets]
        /\ NextEvent("Verb") /\ pending = {}
        /\ CallsOnce /\ Addressing
    BY DEF WriteEndpoint, BeginWrite, hostVars, Delivering, NextEvent
  <1>2. /\ call.state = "called"
        /\ \A i \in DOMAIN event_queue' : ~ IsVerb(i)'
    BY <1>1, EventTaken
  <1>3. /\ call'.state = "executing" /\ call'.resets = resets
        /\ call'.id = call.id /\ call'.ep = call.ep
        /\ call'.length = call.length
    BY <1>1, DeliveryTypes DEF Call
  <1>4. CallsOnce'
    BY <1>1, <1>2, <1>3 DEF CallsOnce, Executing
  <1>5. Addressing' /\ OutOfReach'
    <2>1. tx_ack_active'[call.ep]
      <3>1. call.ep \in AllEndpoints
        BY DeliveryTypes DEF AllEndpoints
      <3>2. QED
        BY <3>1, SetTxAckType DEF WriteEndpoint, BeginWrite, IInv, TypeOK
    <2>2. Addressing'
      BY <1>1, <1>2, <1>3, DeliveryTypes DEF Addressing, Undisturbed, Executing
    <2>3. OutOfReach'
      BY <1>1, <1>3, <2>1 DEF OutOfReach, Undisturbed, Executing
    <2>4. QED
      BY <2>2, <2>3
  <1>6. PrimedWhole'
    BY <1>1 DEF Delivering, PrimedWhole
  <1>7. Position' /\ Streaming'
    BY <1>1, <1>3, DeliveryTypes DEF Position, Streaming, Written
  <1>8. TakenWhole'
    BY <1>3 DEF TakenWhole
  <1>9. EarlierKept
    BY <1>2, <1>3 DEF EarlierKept, Earlier, Executing, Before, NextByte
  <1>10. FifoSorted' /\ ReadSorted'
    BY <1>1, <1>9, SortedKept DEF Delivering
  <1>11. QED
    BY <1>4, <1>5, <1>6, <1>7, <1>8, <1>10 DEF Delivering
-----------------------------------------------------------------------------
(* The loops of a write.                                                   *)

Aside == UNCHANGED <<event_queue, pending, host, received, resets>>

(* A step inside of a write.                                               *)
Moves ==
  /\ Aside /\ call' = call /\ write.at # "none"
  /\ write'.at # "none" /\ write'.ep = write.ep

LEMMA MovesKeep ==
  ASSUME IInv, Delivering, Moves, ep_in'.fifo = ep_in.fifo \/ Executing
  PROVE  CallsOnce' /\ Addressing' /\ TakenWhole'
  <1>1. CallsOnce'
    BY DEF Delivering, CallsOnce, Executing, IsVerb, Moves, Aside
  <1>2. Addressing'
    BY SameAddressing DEF Delivering, Moves, Aside
  <1>3. TakenWhole'
    BY DEF Delivering, TakenWhole, EndsWith, Executing, Moves, Aside
  <1>4. QED
    BY <1>1, <1>2, <1>3

LEMMA ReturnsDelivers ==
  ASSUME IInv, Delivering, Aside, NEW result \in {"Ok", "Err"}, Returns(result),
         write.at # "none", ep_in' \in {ep_in, Cleared},
         result = "Ok" =>
           /\ ep_in' = ep_in /\ write.at = "block"
           /\ Blocks => ~ tx_ack_active[write.ep]
  PROVE  Delivering'
  <1>1. /\ write'.at = "none" /\ host' = host /\ resets' = resets
        /\ received' = received /\ CallsOnce /\ Addressing
    BY DeliveryTypes DEF Returns, Write, Aside, Delivering
  <1>2. ep_in'.fifo \in {<<>>, ep_in.fifo} /\ (ep_in' = ep_in \/ ~ ep_in'.primed)
    BY DEF Cleared, IInv, TypeOK, EpIn
  <1>3. PrimedWhole'
    BY <1>1, <1>2 DEF Delivering, PrimedWhole
  <1>4. CASE Acknowledges
    <2>1. call' = call /\ ~ Executing
      BY <1>4, CallsPacket DEF Returns
    <2>2. ~ Executing' /\ ~ Undisturbed'
      BY <2>1 DEF Executing, Undisturbed
    <2>3. CallsOnce' /\ Addressing' /\ OutOfReach'
      BY <1>1, <2>1, <2>2, SameAddressing
         DEF CallsOnce, IsVerb, Aside, OutOfReach
    <2>4. TakenWhole'
      BY <1>1, <1>2, <2>1 DEF Delivering, TakenWhole, EndsWith
    <2>5. FifoSorted' /\ ReadSorted'
      BY <1>1, <1>2, <2>1, EarlierIdle, SortedKept DEF Delivering
    <2>6. QED
      BY <1>3, <2>2, <2>3, <2>4, <2>5 DEF Delivering, InReach, Position, Streaming
  <1>5. CASE ~ Acknowledges
    <2>1. Executing
      BY <1>5 DEF IInv, WriteOfCall, Acknowledges, Executing
    <2>2. /\ call'.state = result /\ call'.id = call.id /\ call'.ep = call.ep
          /\ call'.length = call.length /\ call'.blocking = call.blocking
          /\ call'.resets = call.resets
      BY <1>5, DeliveryTypes DEF Returns, Call
    <2>3. ~ Executing' /\ ~ Undisturbed'
      BY <2>2 DEF Executing, Undisturbed
    <2>4. CallsOnce'
      BY <1>1, <2>1, <2>2, <2>3 DEF CallsOnce, IsVerb, Executing, Aside
    <2>5. Addressing' /\ OutOfReach'
      BY <1>1, <2>2, <2>3 DEF Addressing, OutOfReach, Aside
    <2>6. ASSUME call'.state = "Ok", call.blocking, call.resets = resets
          PROVE  /\ EndsWith(received[call.ep], call.ep, call.id, call.length)
                 /\ ep_in'.fifo = <<>>
      <3>1. /\ Undisturbed /\ write.at = "block" /\ ep_in' = ep_in
            /\ ~ tx_ack_active[write.ep]
        BY <1>5, <2>1, <2>2, <2>6 DEF Undisturbed, Blocks
      <3>0. InReach
        BY <3>1 DEF Delivering, OutOfReach, InReach
      <3>2. write.left = 0 /\ ep_in.fifo = <<>>
        BY <3>0, <3>1 DEF Delivering, Position
      <3>3. Written = call.length
        BY <3>2, DeliveryTypes DEF Written
      <3>4. EndsWith(received[call.ep] \o <<>>, call.ep, call.id, call.length)
        BY <3>0, <3>1, <3>2, <3>3 DEF Delivering, Streaming
      <3>5. received[call.ep] \o <<>> = received[call.ep]
        BY DeliveryTypes
      <3>6. QED
        BY <3>1, <3>2, <3>4, <3>5
    <2>7. TakenWhole'
      BY <1>1, <2>2, <2>6 DEF TakenWhole, EndsWith
    <2>8. EarlierKept
      BY <2>1, <2>2, DeliveryTypes, ByteFields
         DEF EarlierKept, Earlier, Executing, Before, NextByte
    <2>9. FifoSorted' /\ ReadSorted'
      BY <1>1, <1>2, <2>8, SortedKept DEF Delivering
    <2>10. QED
      BY <1>3, <2>3, <2>4, <2>5, <2>7, <2>9
         DEF Delivering, InReach, Position, Streaming
  <1>6. QED
    BY <1>4, <1>5

LEMMA DrainDelivers ==
  ASSUME IInv, Delivering, Aside, Drain
  PROVE  Delivering'
  <1>1. /\ ep_in' = ep_in /\ ep_in.fifo = <<>> /\ call' = call
        /\ write.at = "drain" /\ write.fill = 0
        /\ write'.at = "bytes" /\ write'.fill = 0
        /\ write'.ep = write.ep /\ write'.left = write.left
    BY DeliveryTypes DEF Drain, Writing, Have, Write, IInv, WritePosition
  <1>2. CallsOnce' /\ Addressing' /\ TakenWhole' /\ OutOfReach'
    BY <1>1, MovesKeep, ReachKept DEF Moves, Drain, Aside, Delivering
  <1>3. PrimedWhole'
    BY <1>1 DEF Delivering, PrimedWhole, Aside
  <1>4. ASSUME InReach'
        PROVE  /\ InReach /\ Written' = 0 /\ Written = 0 /\ Rest(Size, Written)' = 0
    <2>1. InReach /\ Executing
      BY <1>1, <1>4 DEF InReach, Undisturbed, Executing, Aside
    <2>2. Written = 0
      BY <1>1, <2>1 DEF Delivering, Position
    <2>3. Written' = 0 /\ Size' = Size
      BY <1>1, <2>2 DEF Written, Size
    <2>4. Rest(Size, 0) = 0
      BY <2>1, CallsPacket, RestNone
    <2>5. QED
      BY <2>1, <2>2, <2>3, <2>4 DEF Rest
  <1>5. Position'
    BY <1>1, <1>4 DEF Position
  <1>6. Streaming'
    <2>1. received[call.ep] \o <<>> \in Seq(Byte)
      BY DeliveryTypes
    <2>2. EndsWith(received[call.ep] \o <<>>, call.ep, call.id, 0)
      BY <2>1, EndsWithNothing
    <2>3. QED
      BY <1>1, <1>4, <2>2 DEF Streaming, EndsWith, Aside
  <1>7. FifoSorted' /\ ReadSorted'
    BY <1>1, EarlierSame, SortedKept DEF Delivering, Aside
  <1>8. QED
    BY <1>2, <1>3, <1>5, <1>6, <1>7 DEF Delivering

LEMMA DrainTimeoutDelivers ==
  ASSUME IInv, Delivering, Aside, DrainTimeout
  PROVE  Delivering'
  BY ReturnsDelivers DEF DrainTimeout, Writing

LEMMA WriteByteDelivers ==
  ASSUME IInv, Delivering, Aside, WriteByte
  PROVE  Delivering'
  <1>1. /\ write.at = "bytes" /\ write.left > 0 /\ call' = call
        /\ ep_in' = [ep_in EXCEPT !.fifo = Append(@, NextByte)]
    BY DEF WriteByte, Writing, AddByte
  <1>2. write.ep # 0 /\ Executing /\ call.id > 0
    BY <1>1, DeliveryTypes DEF IInv, WriteOfCall, Executing
  <1>3. /\ write.ep = call.ep /\ write.ep \in Endpoints
        /\ Size \in Nat \ {0} /\ Written \in Nat /\ ~ Acknowledges
    BY <1>2, CallsPacket
  <1>4. PICK byte \in Byte :
          /\ byte = NextByte
          /\ byte = [ep |-> call.ep, id |-> call.id, i |-> Written + 1]
          /\ byte.ep = call.ep /\ byte.id = call.id /\ byte.i = Written + 1
    <2>1. call.id \in 1 .. NumWrites
      BY <1>2, DeliveryTypes, InEndpointsAssumption DEF Call
    <2>2. NextByte = [ep |-> call.ep, id |-> call.id, i |-> Written + 1]
      BY <1>3 DEF NextByte, Written
    <2>3. [ep |-> call.ep, id |-> call.id, i |-> Written + 1] \in Byte
      BY <1>3, <2>1 DEF Byte
    <2>4. QED
      BY <2>2, <2>3
  <1>5. PICK fifo \in Seq(Byte) :
          /\ fifo = ep_in.fifo /\ ep_in'.fifo = Append(fifo, byte)
          /\ ep_in'.primed = ep_in.primed /\ ep_in'.epno = ep_in.epno
    BY <1>1, <1>4, DeliveryTypes DEF IInv, TypeOK, EpIn
  <1>6. /\ write'.ep = write.ep /\ write'.left = write.left - 1
        /\ write'.fill = write.fill + 1
        /\ write'.at = IF write.fill + 1 = Size THEN "prime" ELSE "bytes"
    <2>1. CASE IsFull(write.fill + 1)
      <3>1. write' = [write EXCEPT !.left = @ - 1, !.fill = @ + 1, !.at = "prime"]
        BY <2>1 DEF WriteByte
      <3>2. write.fill + 1 = Size
        BY <2>1 DEF IsFull, Size
      <3>3. QED
        BY <3>1, <3>2, DeliveryTypes DEF Write
    <2>2. CASE ~ IsFull(write.fill + 1)
      <3>1. write' = [write EXCEPT !.left = @ - 1, !.fill = @ + 1]
        BY <2>2 DEF WriteByte
      <3>2. write.fill + 1 # Size
        BY <1>3, <2>2 DEF IsFull, Size
      <3>3. QED
        BY <1>1, <3>1, <3>2, DeliveryTypes DEF Write
    <2>3. QED
      BY <2>1, <2>2
  <1>7. Written' = Written + 1 /\ Size' = Size
    BY <1>1, <1>6, DeliveryTypes DEF Written, Size
  <1>8. InReach' <=> InReach
    BY <1>1, <1>5 DEF InReach, Undisturbed, Executing, Aside
  <1>9. CallsOnce' /\ Addressing' /\ TakenWhole' /\ OutOfReach'
    <2>1. tx_ack_active[write.ep] => tx_ack_active'[write.ep]
      BY DeliveryTypes, SetTxAckType DEF WriteByte, IInv, TypeOK
    <2>2. CallsOnce' /\ Addressing' /\ TakenWhole'
      BY <1>1, <1>2, <1>6, MovesKeep DEF Moves
    <2>3. OutOfReach'
      BY <1>1, <1>5, <1>6, <2>1, ReachKept DEF Aside, Delivering
    <2>4. QED
      BY <2>2, <2>3
  <1>10. PrimedWhole'
    BY <1>1, <1>5 DEF Delivering, PrimedWhole, Aside
  <1>11. ep_in'.fifo # <<>> /\ Len(ep_in'.fifo) = Len(fifo) + 1
    BY <1>4, <1>5
  <1>12. Position'
    <2>1. SUFFICES ASSUME InReach PROVE Position'
      BY <1>8 DEF Position
    <2>2. Len(fifo) = write.fill /\ write.fill = Rest(Size, Written)
      BY <1>1, <1>5, <2>1 DEF Delivering, Position
    <2>3. Rest(Size, Written + 1) =
            IF write.fill + 1 = Size THEN 0 ELSE write.fill + 1
      BY <1>3, <2>2, RestOne
    <2>4. Rest(Size, Written)' = Rest(Size, Written + 1)
      BY <1>7 DEF Rest
    <2>5. QED
      BY <1>6, <1>7, <1>11, <2>2, <2>3, <2>4 DEF Position
  <1>13. Streaming'
    <2>1. SUFFICES ASSUME InReach PROVE Streaming'
      BY <1>8 DEF Streaming
    <2>2. /\ EndsWith(received[call.ep] \o fifo, call.ep, call.id, Written)
          /\ \A i \in DOMAIN fifo : fifo[i].ep = call.ep
      BY <1>1, <1>5, <2>1 DEF Delivering, Streaming
    <2>3. /\ received[call.ep] \o fifo \in Seq(Byte)
          /\ received[call.ep] \o Append(fifo, byte) =
               Append(received[call.ep] \o fifo, byte)
      <3>1. received[call.ep] \in Seq(Byte)
        BY DeliveryTypes
      <3>2. QED
        BY <1>4, <1>5, <3>1, Joined
    <2>4. EndsWith(received[call.ep] \o Append(fifo, byte), call.ep, call.id,
                   Written + 1)
      BY <1>3, <1>4, <2>2, <2>3, EndsWithOneMore
    <2>5. \A i \in DOMAIN Append(fifo, byte) : Append(fifo, byte)[i].ep = call.ep
      BY <1>4, <1>5, <2>2
    <2>6. EndsWith(received[call.ep] \o ep_in.fifo, call.ep, call.id, Written)'
      BY <1>1, <1>5, <1>7, <2>4 DEF EndsWith, Aside
    <2>7. QED
      BY <1>1, <1>5, <2>5, <2>6 DEF Streaming
  <1>14. Executing' /\ NextByte'.id = byte.id /\ NextByte'.i = byte.i + 1
    BY <1>1, <1>2, <1>3, <1>4, <1>7 DEF Executing, NextByte, Written
  <1>15. /\ Earlier(byte)'
         /\ \A b \in Byte : Before(b, byte) => Earlier(b)'
    BY <1>3, <1>4, <1>14, ByteFields DEF Earlier, Before
  <1>16. ReadSorted' /\ AllBefore(received[call.ep], byte)
    <2>1. \A ep \in Endpoints : \A i \in DOMAIN received[ep] :
            received[ep][i] \in Byte /\ Before(received[ep][i], byte)
      BY <1>2, <1>4, DeliveryTypes DEF Delivering, ReadSorted, Earlier
    <2>2. \A ep \in Endpoints : \A i \in DOMAIN received[ep] : Earlier(received[ep][i])'
      BY <1>15, <2>1 DEF Aside
    <2>3. ReadSorted'
      BY <2>2 DEF Delivering, ReadSorted, Ascending, Before, Aside
    <2>4. QED
      BY <2>1, <2>3, DeliveryTypes DEF AllBefore
  <1>17. FifoSorted'
    <2>1. /\ Ascending(fifo)
          /\ \A j \in DOMAIN fifo :
               /\ fifo[j] \in Byte /\ Before(fifo[j], byte)
               /\ AllBefore(received[fifo[j].ep], fifo[j])
      BY <1>2, <1>4, <1>5 DEF Delivering, FifoSorted, Earlier
    <2>2. Ascending(Append(fifo, byte))
      BY <1>4, <1>5, <2>1, AscendingOneMore DEF AllBefore
    <2>3. ASSUME NEW j \in DOMAIN Append(fifo, byte)
          PROVE  \/ Append(fifo, byte)[j] = byte
                 \/ j \in DOMAIN fifo /\ Append(fifo, byte)[j] = fifo[j]
      BY <1>4, <1>5
    <2>4. ASSUME NEW j \in DOMAIN ep_in'.fifo
          PROVE  /\ Earlier(ep_in.fifo[j])'
                 /\ AllBefore(received[ep_in.fifo[j].ep], ep_in.fifo[j])'
      <3>1. CASE ep_in'.fifo[j] = byte
        BY <1>4, <1>15, <1>16, <3>1 DEF AllBefore, Before, Aside
      <3>2. CASE j \in DOMAIN fifo /\ ep_in'.fifo[j] = fifo[j]
        <4>1. Earlier(fifo[j])'
          BY <1>15, <2>1, <3>2
        <4>2. AllBefore(received[fifo[j].ep], fifo[j])
          BY <2>1, <3>2
        <4>3. QED
          BY <3>2, <4>1, <4>2 DEF AllBefore, Before, Aside
      <3>3. QED
        BY <1>5, <2>3, <3>1, <3>2
    <2>5. Ascending(ep_in.fifo)'
      BY <1>5, <2>2 DEF Ascending, Before
    <2>6. QED
      BY <2>4, <2>5 DEF FifoSorted
  <1>18. QED
    BY <1>9, <1>10, <1>12, <1>13, <1>16, <1>17 DEF Delivering

(* Only here does it matter that no payload ends with a packet of no bytes.*)
LEMMA EndPayloadDelivers ==
  ASSUME NoEmptyPackets, IInv, Delivering, Aside, EndPayload
  PROVE  Delivering'
  <1>1. /\ write.at = "bytes" /\ write.left = 0 /\ call' = call /\ ep_in' = ep_in
        /\ write'.at = IF IsFull(call.length) THEN "block" ELSE "prime"
        /\ write'.ep = write.ep /\ write'.left = 0 /\ write'.fill = write.fill
    BY DeliveryTypes DEF EndPayload, Writing, Write
  <1>2. CallsOnce' /\ Addressing' /\ TakenWhole' /\ OutOfReach'
    <2>1. tx_ack_active[write.ep] => tx_ack_active'[write.ep]
      BY DeliveryTypes, SetTxAckType DEF EndPayload, IInv, TypeOK
    <2>2. CallsOnce' /\ Addressing' /\ TakenWhole'
      BY <1>1, MovesKeep DEF Moves
    <2>3. OutOfReach'
      BY <1>1, <2>1, ReachKept DEF Aside, Delivering
    <2>4. QED
      BY <2>2, <2>3
  <1>3. PrimedWhole'
    BY <1>1 DEF Delivering, PrimedWhole, Aside
  <1>4. InReach' <=> InReach
    BY <1>1 DEF InReach, Undisturbed, Executing, Aside
  <1>5. Written' = Written /\ Size' = Size /\ Written = call.length
    BY <1>1, DeliveryTypes DEF Written, Size
  <1>6. Position'
    <2>1. SUFFICES ASSUME InReach PROVE Position'
      BY <1>4 DEF Position
    <2>2. /\ Len(ep_in.fifo) = Rest(Size, call.length)
          /\ write.fill = Rest(Size, call.length)
      BY <1>1, <1>5, <2>1 DEF Delivering, Position
    <2>3. /\ Size \in Nat \ {0} /\ ~ Acknowledges /\ write.ep = call.ep
          /\ write.fill # Size
      <3>1. Size \in Nat \ {0} /\ ~ Acknowledges /\ write.ep = call.ep
        BY <2>1, CallsPacket DEF InReach, Undisturbed
      <3>2. Rest(Size, call.length) \in 0 .. Size - 1
        BY <3>1, DeliveryTypes, RestType
      <3>3. QED
        BY <2>2, <3>1, <3>2
    <2>4. CASE IsFull(call.length)
      <3>1. ep_in.fifo = <<>>
        BY <2>2, <2>3, <2>4, RestNone, DeliveryTypes DEF IsFull, Size
      <3>2. QED
        BY <1>1, <2>4, <3>1 DEF Position
    <2>5. CASE ~ IsFull(call.length)
      <3>1. call.length # Size
        BY <2>3, <2>5 DEF IsFull, Size
      <3>2. <<call.ep, call.length>> \in Payloads
        BY <2>1 DEF InReach, Undisturbed, Executing, Delivering, CallsOnce
      <3>3. Rest(Size, call.length) # 0
        BY <2>3, <3>1, <3>2 DEF NoEmptyPackets, Rest, Size
      <3>4. ep_in.fifo # <<>>
        BY <2>2, <3>3
      <3>5. QED
        BY <1>1, <1>5, <2>3, <2>5, <3>4 DEF Position
    <2>6. QED
      BY <2>4, <2>5
  <1>7. Streaming'
    BY <1>1, <1>4, <1>5 DEF Delivering, Streaming, EndsWith, Aside
  <1>8. FifoSorted' /\ ReadSorted'
    BY <1>1, EarlierSame, SortedKept DEF Delivering, Aside
  <1>9. QED
    BY <1>2, <1>3, <1>6, <1>7, <1>8 DEF Delivering

LEMMA PrimeDelivers ==
  ASSUME IInv, Delivering, Aside, Prime
  PROVE  Delivering'
  <1>1. /\ write.at = "prime" /\ call' = call /\ tx_ack_active' = tx_ack_active
        /\ ep_in' = PrimedFor(write.ep)
        /\ write'.at = IF IsFull(write.fill) THEN "sent" ELSE "block"
        /\ write'.ep = write.ep /\ write'.left = write.left
    BY DeliveryTypes DEF Prime, Writing, Write
  <1>2. ep_in'.fifo = ep_in.fifo /\ ep_in'.epno = write.ep
    BY <1>1 DEF PrimedFor, IInv, TypeOK, EpIn
  <1>3. CallsOnce' /\ Addressing' /\ TakenWhole' /\ OutOfReach'
    <2>1. "EpIn" \notin pending'
      BY DEF Prime, Writing, Aside
    <2>2. Executing => write.ep # 0
      BY CallsPacket
    <2>3. CallsOnce' /\ Addressing' /\ TakenWhole'
      BY <1>1, <1>2, MovesKeep DEF Moves
    <2>4. OutOfReach'
      BY <1>1, <1>2, <2>1, <2>2, ReachKept DEF Aside, Delivering
    <2>5. QED
      BY <2>3, <2>4
  <1>4. InReach' => InReach
    <2>1. Executing => write.ep # 0
      BY CallsPacket
    <2>2. QED
      BY <1>1, <1>2, <2>1 DEF InReach, Undisturbed, Executing, Aside
  <1>5. PrimedWhole'
    <2>1. SUFFICES ASSUME host.address # 0, write.ep # 0
          PROVE  /\ ep_in.fifo # <<>>
                 /\ \A i \in DOMAIN ep_in.fifo : ep_in.fifo[i].ep = write.ep
      BY <1>1, <1>2 DEF PrimedWhole, Aside
    <2>2. InReach
      BY <1>1, <2>1
         DEF IInv, WriteOfCall, Delivering, OutOfReach, InReach, Undisturbed,
             Executing
    <2>3. ep_in.fifo # <<>>
      BY <1>1, <2>2 DEF Delivering, Position
    <2>4. \A i \in DOMAIN ep_in.fifo : ep_in.fifo[i].ep = write.ep
      BY <1>1 DEF IInv, WritePosition, Filling
    <2>5. QED
      BY <2>3, <2>4
  <1>6. Written' = Written /\ Size' = Size
    BY <1>1 DEF Written, Size
  <1>7. Position'
    <2>1. SUFFICES ASSUME InReach PROVE Position'
      BY <1>4 DEF Position
    <2>2. IF write.fill = Size THEN Rest(Size, Written) = 0 ELSE write.left = 0
      BY <1>1, <2>1 DEF Delivering, Position
    <2>3. IsFull(write.fill) <=> write.fill = Size
      BY <2>1, CallsPacket DEF InReach, Undisturbed, IsFull, Size
    <2>4. ~ tx_ack_active[write.ep] => ep_in.fifo = <<>>
      BY <1>1 DEF IInv, SentIsEmpty
    <2>5. Rest(Size, Written)' = Rest(Size, Written)
      BY <1>6 DEF Rest
    <2>6. QED
      BY <1>1, <1>2, <2>2, <2>3, <2>4, <2>5 DEF Position
  <1>8. Streaming'
    BY <1>1, <1>2, <1>4, <1>6 DEF Delivering, Streaming, EndsWith, Aside
  <1>9. FifoSorted' /\ ReadSorted'
    BY <1>1, <1>2, EarlierSame, SortedKept DEF Delivering, Aside
  <1>10. QED
    BY <1>3, <1>5, <1>7, <1>8, <1>9 DEF Delivering

LEMMA SentDelivers ==
  ASSUME IInv, Delivering, Aside, Sent
  PROVE  Delivering'
  <1>1. /\ write.at = "sent" /\ ep_in' = ep_in /\ call' = call
        /\ ~ tx_ack_active[write.ep]
        /\ write'.at = "bytes" /\ write'.ep = write.ep
        /\ write'.left = write.left /\ write'.fill = write.fill
    BY DeliveryTypes DEF Sent, Writing, Write
  <1>2. ep_in.fifo = <<>> /\ write.fill = 0
    BY <1>1 DEF IInv, SentIsEmpty, WritePosition
  <1>3. CallsOnce' /\ Addressing' /\ TakenWhole' /\ OutOfReach'
    BY <1>1, MovesKeep, ReachKept DEF Moves, Sent, Aside, Delivering
  <1>4. PrimedWhole'
    BY <1>1, <1>2 DEF Delivering, PrimedWhole, Aside
  <1>5. InReach' <=> InReach
    BY <1>1 DEF InReach, Undisturbed, Executing, Aside
  <1>6. Written' = Written /\ Size' = Size
    BY <1>1 DEF Written, Size
  <1>7. Rest(Size, Written)' = Rest(Size, Written)
    BY <1>6 DEF Rest
  <1>8. Position'
    BY <1>1, <1>2, <1>5, <1>7 DEF Delivering, Position
  <1>9. Streaming'
    BY <1>1, <1>5, <1>6 DEF Delivering, Streaming, EndsWith, Aside
  <1>10. FifoSorted' /\ ReadSorted'
    BY <1>1, EarlierSame, SortedKept DEF Delivering, Aside
  <1>11. QED
    BY <1>3, <1>4, <1>8, <1>9, <1>10 DEF Delivering

LEMMA ReturningDelivers ==
  ASSUME IInv, Delivering, Aside, WriteDone \/ WriteTimeout
  PROVE  Delivering'
  <1>1. CASE WriteDone
    BY <1>1, ReturnsDelivers DEF WriteDone, Writing
  <1>2. CASE WriteTimeout
    BY <1>2, ReturnsDelivers DEF WriteTimeout, Writing
  <1>3. QED
    BY <1>1, <1>2

LEMMA MainLoopDelivers ==
  ASSUME NoEmptyPackets, IInv, Delivering, MainLoop
  PROVE  Delivering'
  <1>1. CASE DispatchEvent
    BY <1>1, EventsDeliver, SetAddressDelivers, WriteEndpointDelivers
       DEF DispatchEvent
  <1>2. CASE WriteStep
    <2>1. Aside
      BY <1>2 DEF WriteStep, Aside, hostVars
    <2>2. QED
      BY <1>2, <2>1, DrainDelivers, DrainTimeoutDelivers, WriteByteDelivers,
         EndPayloadDelivers, PrimeDelivers, SentDelivers, ReturningDelivers
         DEF WriteStep
  <1>3. QED
    BY <1>1, <1>2 DEF MainLoop
-----------------------------------------------------------------------------
(* The client and the host.                                                *)

LEMMA CallQueued ==
  ASSUME IInv, CallsOnce, ClientCalls
  PROVE  CallsOnce'
  <1>1. /\ write' = write /\ call.state \notin {"called", "executing"}
        /\ Enqueue("Verb", 0)
    BY DEF ClientCalls, Settled
  <1>2. PICK payload \in Payloads, blocking \in BOOLEAN :
          call' = [state |-> "called", ep |-> payload[1], id |-> call.id + 1,
                   length |-> payload[2], blocking |-> blocking,
                   resets |-> resets]
    BY DEF ClientCalls
  <1>3. ~ Executing' /\ call'.state = "called"
    BY <1>2 DEF Executing
  <1>4. /\ event_queue \in Seq(Event)
        /\ event_queue' = Append(event_queue, [type |-> "Verb", of |-> 0])
    BY <1>1 DEF Enqueue, IInv, TypeOK
  <1>5. \A i \in DOMAIN event_queue : ~ IsVerb(i)
    BY <1>1 DEF CallsOnce
  <1>6. \A i \in DOMAIN event_queue' :
          \/ i = Len(event_queue) + 1
          \/ i \in DOMAIN event_queue /\ event_queue'[i] = event_queue[i]
    BY <1>4
  <1>7. \A i \in DOMAIN event_queue' : IsVerb(i)' => i = Len(event_queue) + 1
    BY <1>5, <1>6 DEF IsVerb
  <1>8. <<payload[1], payload[2]>> = payload
    BY InEndpointsAssumption
  <1>9. QED
    BY <1>2, <1>3, <1>7, <1>8 DEF CallsOnce

LEMMA ClientCallsDelivers ==
  ASSUME IInv, Delivering, ClientCalls
  PROVE  Delivering'
  <1>1. /\ UNCHANGED <<ep_in, pending, tx_ack_active, write, host, received, resets>>
        /\ call.state \notin {"called", "executing"}
    BY DEF ClientCalls, Settled, usbVars, hostVars
  <1>2. PICK payload \in Payloads, blocking \in BOOLEAN :
          call' = [state |-> "called", ep |-> payload[1], id |-> call.id + 1,
                   length |-> payload[2], blocking |-> blocking,
                   resets |-> resets]
    BY DEF ClientCalls
  <1>3. ~ Executing' /\ ~ Undisturbed' /\ call'.state = "called"
    BY <1>2 DEF Executing, Undisturbed
  <1>4. CallsOnce'
    BY CallQueued DEF Delivering
  <1>5. Addressing' /\ OutOfReach'
    BY <1>1, <1>2, <1>3, DeliveryTypes
       DEF Delivering, Addressing, OutOfReach
  <1>6. PrimedWhole'
    BY <1>1 DEF Delivering, PrimedWhole
  <1>7. Position' /\ Streaming' /\ TakenWhole'
    BY <1>3 DEF InReach, Position, Streaming, TakenWhole
  <1>8. EarlierKept
    BY <1>1, <1>2, <1>3, DeliveryTypes, ByteFields
       DEF EarlierKept, Earlier, Executing
  <1>9. FifoSorted' /\ ReadSorted'
    BY <1>1, <1>8, SortedKept DEF Delivering
  <1>10. QED
    BY <1>4, <1>5, <1>6, <1>7, <1>9 DEF Delivering

LEMMA HostResetDelivers ==
  ASSUME IInv, Delivering, HostReset
  PROVE  Delivering'
  <1>1. /\ UNCHANGED <<ep_in, event_queue, tx_ack_active, write, call, received>>
        /\ resets' = resets + 1 /\ call.resets <= resets
        /\ host'.address = 0 /\ host'.stage = "none" /\ host'.polls = {}
        /\ "BusReset" \in pending'
    BY DEF HostReset, Delivering, Addressing, IInv, TypeOK, Host
  <1>2. call'.resets # resets' /\ call'.resets <= resets'
    BY <1>1, DeliveryTypes
  <1>3. ~ Undisturbed'
    BY <1>2 DEF Undisturbed
  <1>4. CallsOnce'
    BY <1>1, SameEvents DEF Delivering
  <1>5. Addressing' /\ OutOfReach'
    BY <1>1, <1>2, <1>3 DEF Addressing, OutOfReach
  <1>6. PrimedWhole' /\ Position' /\ Streaming' /\ TakenWhole'
    BY <1>1, <1>2, <1>3
       DEF PrimedWhole, InReach, Position, Streaming, TakenWhole
  <1>7. FifoSorted' /\ ReadSorted'
    BY <1>1, EarlierSame, SortedKept DEF Delivering
  <1>8. QED
    BY <1>4, <1>5, <1>6, <1>7 DEF Delivering

LEMMA QuietHostDelivers ==
  ASSUME IInv, Delivering, HostSetsAddress \/ HostGivesUp \/ HostPolls
  PROVE  Delivering'
  <1>1. /\ UNCHANGED <<ep_in, event_queue, tx_ack_active, write, call, received,
                       resets>>
        /\ host \in Host
        /\ ("BusReset" \in pending') <=> ("BusReset" \in pending)
        /\ ("EpIn" \in pending') <=> ("EpIn" \in pending)
    BY DEF HostSetsAddress, HostGivesUp, HostPolls, usbVars, IInv, TypeOK
  <1>2. /\ host'.address = host.address
        /\ host'.polls # {} => host.polls # {} \/ host.address # 0
        /\ host'.stage = "status" =>
             \/ host.stage = "status"
             \/ host.address = 0 /\ "BusReset" \notin pending
        /\ host.stage = "none" => host'.stage \in {"none", "status"}
        /\ host'.stage \in {"none", "status"}
    BY <1>1 DEF HostSetsAddress, HostGivesUp, HostPolls, Host
  <1>3. CallsOnce'
    BY <1>1, SameEvents DEF Delivering
  <1>4. Addressing'
    BY <1>1, <1>2 DEF Delivering, Addressing, Undisturbed, Executing
  <1>5. OutOfReach'
    BY <1>1, <1>2, ReachKept DEF Delivering
  <1>6. QED
    BY <1>1, <1>2, <1>3, <1>4, <1>5, BesideWrite

(* A late client's bytes may be in the FIFO: they are lost, and so is the  *)
(* address. The host is out of reach for the rest of the write.            *)
LEMMA HostTakesStatusDelivers ==
  ASSUME IInv, Delivering, HostTakesStatus
  PROVE  Delivering'
  <1>1. /\ UNCHANGED <<tx_ack_active, event_queue, write, call, received, resets>>
        /\ ep_in' = Cleared /\ host.stage = "status"
        /\ ep_in.primed /\ ep_in.epno = 0
        /\ pending' = pending \union {"EpIn"}
        /\ host' = [host EXCEPT !.stage = "none", !.answered = host.asks,
                      !.address = IF ep_in.fifo = <<>> THEN host.asks ELSE 0]
    BY DEF HostTakesStatus, Takes, Polls
  <1>2. host.address = 0 /\ host.polls = {} /\ "BusReset" \notin pending
    BY <1>1 DEF Delivering, Addressing
  <1>3. /\ host'.stage = "none" /\ host'.polls = {}
        /\ ep_in.fifo # <<>> => host'.address = 0
    BY <1>1, <1>2 DEF IInv, TypeOK, Host
  <1>4. ep_in'.fifo = <<>> /\ ~ ep_in'.primed /\ ep_in'.epno = 0
    BY <1>1 DEF Cleared, IInv, TypeOK, EpIn
  <1>5. (Executing => call.resets = resets) /\ (Undisturbed => InReach)
    BY <1>1, <1>2 DEF Delivering, OutOfReach, InReach
  <1>6. CallsOnce'
    BY <1>1, SameEvents DEF Delivering
  <1>7. Addressing'
    BY <1>1, <1>2, <1>3 DEF Delivering, Addressing, Undisturbed, Executing
  <1>8. OutOfReach'
    BY <1>1, <1>2, <1>4, <1>5
       DEF Delivering, OutOfReach, Undisturbed, Executing
  <1>9. PrimedWhole'
    BY <1>4 DEF PrimedWhole
  <1>10. InReach' => InReach /\ ep_in.fifo = <<>>
    BY <1>1, <1>3, <1>4, <1>5 DEF InReach, Undisturbed, Executing
  <1>11. Position'
    BY <1>1, <1>4, <1>10 DEF Delivering, Position, Size, Written, Rest
  <1>12. Streaming'
    <2>1. Streaming
      BY DEF Delivering
    <2>2. /\ received' = received /\ call' = call /\ Written' = Written
          /\ write'.at = write.at
          /\ InReach' => InReach /\ ep_in'.fifo = ep_in.fifo
      BY <1>1, <1>4, <1>10 DEF Written
    <2>3. QED
      BY <2>1, <2>2 DEF Streaming, EndsWith
  <1>13. TakenWhole'
    BY <1>1, <1>4 DEF Delivering, TakenWhole, EndsWith
  <1>14. FifoSorted' /\ ReadSorted'
    BY <1>1, <1>4, EarlierSame, SortedKept DEF Delivering
  <1>15. QED
    BY <1>6, <1>7, <1>8, <1>9, <1>11, <1>12, <1>13, <1>14 DEF Delivering

LEMMA HostTakesPacketDelivers ==
  ASSUME IInv, Delivering, HostTakesPacket
  PROVE  Delivering'
  <1>1. PICK ep \in Endpoints :
          Takes(ep) /\ received' = [received EXCEPT ![ep] = @ \o ep_in.fifo]
    BY DEF HostTakesPacket
  <1>2. /\ UNCHANGED <<event_queue, tx_ack_active, write, call, host, resets>>
        /\ ep_in.primed /\ ep_in.epno = ep /\ ep \in host.polls
        /\ ep_in' = Cleared /\ pending' = pending \union {"EpIn"}
    BY <1>1, DeliveryTypes DEF HostTakesPacket, Takes, Polls
  <1>3. PICK fifo \in Seq(Byte) : fifo = ep_in.fifo
    BY DeliveryTypes
  <1>4. PICK before \in Seq(Byte) : before = received[ep]
    BY DeliveryTypes
  <1>5. ep_in'.fifo = <<>> /\ ~ ep_in'.primed
    BY <1>2 DEF Cleared, IInv, TypeOK, EpIn
  <1>6. /\ host.address # 0
        /\ fifo # <<>> /\ \A i \in DOMAIN fifo : fifo[i].ep = ep
        /\ write.at \notin {"bytes", "prime"}
    BY <1>2, <1>3, DeliveryTypes DEF Delivering, Addressing, PrimedWhole
  <1>7. /\ received'[ep] = before \o fifo /\ received' \in [Endpoints -> Seq(Byte)]
        /\ \A e \in Endpoints \ {ep} : received'[e] = received[e]
    BY <1>1, <1>3, <1>4, DeliveryTypes, Joined
  <1>8. InReach' => InReach
    BY <1>2, <1>6 DEF InReach, Undisturbed, Executing
  <1>9. CallsOnce'
    BY <1>2, SameEvents DEF Delivering
  <1>10. Addressing' /\ OutOfReach'
    BY <1>2, <1>5, <1>6, SameAddressing
       DEF Delivering, OutOfReach, Undisturbed, Executing
  <1>11. PrimedWhole'
    BY <1>5 DEF PrimedWhole
  <1>12. Position'
    BY <1>2, <1>5, <1>6, <1>8 DEF Delivering, Position, Written, Size, Rest
  <1>13. Streaming'
    <2>1. SUFFICES ASSUME InReach, write.at # "drain"
          PROVE  EndsWith(received[call.ep] \o ep_in.fifo, call.ep, call.id, Written)'
      BY <1>2, <1>5, <1>8 DEF Streaming
    <2>2. call.ep = ep
      <3>1. 1 \in DOMAIN fifo
        BY <1>6
      <3>2. \A i \in DOMAIN fifo : fifo[i].ep = call.ep
        BY <1>3, <2>1 DEF Delivering, Streaming
      <3>3. QED
        BY <1>6, <3>1, <3>2
    <2>3. EndsWith(before \o fifo, call.ep, call.id, Written)
      BY <1>3, <1>4, <2>1, <2>2 DEF Delivering, Streaming
    <2>4. (before \o fifo) \o <<>> = before \o fifo
      BY Joined
    <2>5. received'[call'.ep] \o ep_in'.fifo = before \o fifo
      BY <1>2, <1>5, <1>7, <2>2, <2>4
    <2>6. Written' = Written /\ call' = call
      BY <1>2 DEF Written
    <2>7. QED
      BY <2>3, <2>5, <2>6 DEF EndsWith
  <1>14. TakenWhole'
    BY <1>2, <1>3, <1>6 DEF Delivering, TakenWhole
  <1>15. EarlierKept
    BY <1>2, EarlierSame
  <1>16. ReadSorted'
    <2>1. /\ Ascending(before) /\ Ascending(fifo)
          /\ \A j \in DOMAIN fifo : AllBefore(before, fifo[j])
      BY <1>3, <1>4, <1>6 DEF Delivering, FifoSorted, ReadSorted
    <2>2. Ascending(before \o fifo)
      BY <2>1, AscendingJoined
    <2>3. \A i \in DOMAIN (before \o fifo) :
            \/ i \in DOMAIN before /\ (before \o fifo)[i] = before[i]
            \/ \E j \in DOMAIN fifo : (before \o fifo)[i] = fifo[j]
      <3>1. ASSUME NEW i \in DOMAIN (before \o fifo), i \notin DOMAIN before
            PROVE  \E j \in DOMAIN fifo : (before \o fifo)[i] = fifo[j]
        <4>1. /\ i - Len(before) \in DOMAIN fifo
              /\ (before \o fifo)[i] = fifo[i - Len(before)]
          BY <3>1
        <4>2. QED
          BY <4>1
      <3>2. QED
        BY <3>1
    <2>4. \A i \in DOMAIN before : before[i] \in Byte /\ before[i].ep = ep /\ Earlier(before[i])
      BY <1>4 DEF Delivering, ReadSorted
    <2>5. \A j \in DOMAIN fifo : fifo[j] \in Byte /\ fifo[j].ep = ep /\ Earlier(fifo[j])
      BY <1>3, <1>6 DEF Delivering, FifoSorted
    <2>6. \A i \in DOMAIN (before \o fifo) :
            (before \o fifo)[i].ep = ep /\ Earlier((before \o fifo)[i])'
      BY <1>15, <2>3, <2>4, <2>5 DEF EarlierKept
    <2>7. ASSUME NEW e \in Endpoints
          PROVE  /\ Ascending(received[e])'
                 /\ \A i \in DOMAIN received'[e] :
                      received'[e][i].ep = e /\ Earlier(received[e][i])'
      <3>1. CASE e = ep
        <4>1. received'[e] = before \o fifo
          BY <1>7, <3>1
        <4>2. Ascending(received[e])'
          BY <2>2, <4>1 DEF Ascending, Before
        <4>3. \A i \in DOMAIN received'[e] :
                received'[e][i].ep = e /\ Earlier(received[e][i])'
          BY <2>6, <3>1, <4>1
        <4>4. QED
          BY <4>2, <4>3
      <3>2. CASE e # ep
        <4>1. /\ received'[e] = received[e] /\ Ascending(received[e])
              /\ \A i \in DOMAIN received[e] :
                   /\ received[e][i] \in Byte
                   /\ received[e][i].ep = e /\ Earlier(received[e][i])
          BY <1>7, <3>2, DeliveryTypes DEF Delivering, ReadSorted
        <4>2. QED
          BY <1>15, <4>1 DEF EarlierKept, Ascending, Before
      <3>3. QED
        BY <3>1, <3>2
    <2>8. QED
      BY <2>7 DEF ReadSorted
  <1>17. FifoSorted'
    BY <1>5 DEF FifoSorted, Ascending
  <1>18. QED
    BY <1>9, <1>10, <1>11, <1>12, <1>13, <1>14, <1>16, <1>17 DEF Delivering

LEMMA NextDelivers == NoEmptyPackets /\ IInv /\ Delivering /\ [Next]_vars => Delivering'
  <1>1. SUFFICES ASSUME NoEmptyPackets, IInv, Delivering, [Next]_vars PROVE Delivering'
    OBVIOUS
  <1>2. CASE MachineExternal
    BY <1>1, <1>2, MachineExternalDelivers
  <1>3. CASE MainLoop
    BY <1>1, <1>3, MainLoopDelivers
  <1>4. CASE ClientCalls
    BY <1>1, <1>4, ClientCallsDelivers
  <1>5. CASE TargetHost
    BY <1>1, <1>5, HostResetDelivers, QuietHostDelivers,
       HostTakesStatusDelivers, HostTakesPacketDelivers
       DEF TargetHost, HostTakes
  <1>6. CASE UNCHANGED vars
    <2>1. /\ UNCHANGED <<ep_in, event_queue, pending, tx_ack_active, write, call,
                         host, received, resets>>
          /\ CallsOnce /\ Addressing /\ OutOfReach
      BY <1>1, <1>6 DEF vars, usbVars, hostVars, Delivering
    <2>2. CallsOnce' /\ Addressing' /\ OutOfReach'
      BY <2>1, SameEvents, SameAddressing, ReachKept
    <2>3. QED
      BY <1>1, <2>1, <2>2, BesideWrite
  <1>7. QED
    BY <1>1, <1>2, <1>3, <1>4, <1>5, <1>6 DEF Next

LEMMA InitDelivers == Init => Delivering
  <1>1. SUFFICES ASSUME Init PROVE Delivering
    OBVIOUS
  <1>2. call.state = "none" /\ call.resets = 0
    BY <1>1 DEF Init
  <1>3. CallsOnce /\ Addressing /\ OutOfReach /\ PrimedWhole
    BY <1>1, <1>2
       DEF Init, CallsOnce, Addressing, OutOfReach, PrimedWhole, Undisturbed,
           Executing
  <1>4. Position /\ Streaming /\ TakenWhole
    BY <1>2 DEF Position, Streaming, TakenWhole, InReach, Undisturbed, Executing
  <1>5. FifoSorted /\ ReadSorted
    BY <1>1 DEF Init, FifoSorted, ReadSorted, Ascending
  <1>6. QED
    BY <1>3, <1>4, <1>5 DEF Delivering

LEMMA DeliveringIsDelivered == IInv /\ Delivering => Delivered
  <1>1. SUFFICES ASSUME IInv, Delivering PROVE Delivered
    OBVIOUS
  <1>2. InOrder
    <2>1. ASSUME NEW ep \in Endpoints, NEW i \in 2 .. Len(received[ep])
          PROVE  Before(received[ep][i - 1], received[ep][i])
      <3>1. received[ep] \in Seq(Byte)
        BY <1>1, DeliveryTypes
      <3>2. i - 1 \in DOMAIN received[ep] /\ i \in DOMAIN received[ep] /\ i - 1 < i
        BY <3>1
      <3>3. QED
        BY <1>1, <3>2 DEF Delivering, ReadSorted, Ascending
    <2>2. QED
      BY <1>1, <2>1 DEF InOrder, Delivering, ReadSorted
  <1>3. OkMeansDelivered
    BY <1>1 DEF OkMeansDelivered, Delivering, TakenWhole, EndsWith
  <1>4. QED
    BY <1>2, <1>3 DEF Delivered

(* For any endpoints, packet sizes, resets and time-outs, and for a late   *)
(* client too: if no payload ends with a packet of no bytes, what is       *)
(* written is read in order and not twice, and a blocking write that       *)
(* returns Ok was taken whole (write_endpoint).                            *)
THEOREM WritesAreDelivered == NoEmptyPackets => (Spec => []Delivered)
  <1>1. SUFFICES ASSUME NoEmptyPackets PROVE Spec => []Delivered
    OBVIOUS
  <1>2. Init => IInv /\ Delivering
    BY InitIInv, InitDelivers
  <1>3. IInv /\ Delivering /\ [Next]_vars => (IInv /\ Delivering)'
    BY <1>1, NextKeepsIInv, NextDelivers
  <1>4. QED
    BY <1>2, <1>3, DeliveringIsDelivered, PTL DEF Spec
-----------------------------------------------------------------------------
(* AddressAfterAnswer, for a client that is not Late.                      *)

Resets(i) == event_queue[i].type = "BusReset"
Sets(i) == event_queue[i].type = "ReceiveSetupPacket"
Sends(i) == event_queue[i].type = "SendComplete"

(* The place behind the last event.                                        *)
Last == Len(event_queue) + 1

(* No event between two places replaces or forgets a pending address, as   *)
(* far as SendComplete does not apply it. Place 0 is that of the present.  *)
Lasts(i, k) ==
  \A j \in DOMAIN event_queue : i < j /\ j < k => ~ Resets(j) /\ ~ Sets(j)

(* The address a may be pending when the event at place k is dispatched.   *)
PendsAt(k, a) ==
  \/ pending_set_address = a /\ Lasts(0, k)
  \/ \E i \in DOMAIN event_queue :
       i < k /\ Sets(i) /\ event_queue[i].of = a /\ Lasts(i, k)

(* A host in a status stage has no call of the client to reckon with.      *)
Asking ==
  /\ host.polls # {} => host.address # 0
  /\ host.stage = "status" => host.address = 0 /\ Settled

(* The host waits for an answer or has had it, with no reset since.        *)
Assigns == host.stage = "status" \/ host.address # 0

HostAsks ==
  /\ host.stage = "status" => host.asks # 0
  /\ host.address # 0 => host.asks = host.address /\ host.answered = host.address
  /\ "BusReset" \in pending => ~ Assigns
  /\ "EpIn" \in pending => host.address # 0 \/ "BusReset" \in pending

(* A packet is or will be primed for endpoint 0.                           *)
Acknowledging ==
  \/ ep_in.primed /\ ep_in.epno = 0
  \/ write.ep = 0 /\ write.at \in {"drain", "bytes", "prime"}

(* The address that outlives all events is the one the host asks for.      *)
Applicable == host.address # 0 \/ (Acknowledging /\ address = 0)

SetupAsked ==
  "BusReset" \notin pending =>
    /\ "EpControl" \in pending => setup = host.asks /\ Assigns
    /\ \A i \in DOMAIN event_queue :
         Sets(i) /\ Lasts(i, Last) => event_queue[i].of = host.asks /\ Assigns
    /\ pending_set_address # None /\ Lasts(0, Last) /\ Applicable
         => pending_set_address = host.asks /\ Assigns

(* A SendComplete applies the address that was answered, or a bus reset    *)
(* follows it.                                                             *)
SendsAnswered ==
  \A k \in DOMAIN event_queue, a \in Addresses :
    Sends(k) /\ PendsAt(k, a) =>
      \/ host.address # 0 /\ a = host.answered
      \/ "BusReset" \in pending
      \/ \E j \in DOMAIN event_queue : k < j /\ Resets(j)

(* What is primed for endpoint 0 has no bytes, but for those of a packet   *)
(* that is about to be primed for another endpoint.                        *)
StatusEmpty ==
  (ep_in.primed /\ ep_in.epno = 0 /\ ep_in.fifo # <<>>) =>
    call.state = "executing" /\ write.at \in {"bytes", "prime"}

(* Where a write is in a payload of one full packet.                       *)
OnePacket ==
  (write.ep # 0 /\ call.length = PacketSize[write.ep]) =>
    /\ write.at = "drain" => write.left = call.length
    /\ write.at = "bytes" =>
         \/ write.left = 0 /\ write.fill = 0
         \/ write.fill + write.left = call.length
    /\ write.at \in {"prime", "sent"} => write.left = 0

Assigning ==
  /\ CallsOnce /\ Asking /\ HostAsks /\ SetupAsked /\ SendsAnswered
  /\ StatusEmpty /\ OnePacket
-----------------------------------------------------------------------------
(* The queue and the pending address.                                      *)

LEMMA QueueFacts ==
  ASSUME IInv
  PROVE  /\ event_queue \in Seq(Event) /\ Last \in Nat
         /\ DOMAIN event_queue = 1 .. Len(event_queue)
         /\ Last = Len(event_queue) + 1 /\ Len(event_queue) \in Nat
         /\ None \notin Nat /\ None \notin Addresses
         /\ Addresses \subseteq Nat \ {0}
  <1>1. event_queue \in Seq(Event)
    BY DEF IInv, TypeOK
  <1>2. Len(event_queue) \in Nat /\ DOMAIN event_queue = 1 .. Len(event_queue)
    BY <1>1
  <1>3. Last = Len(event_queue) + 1 /\ Last \in Nat
    BY <1>2 DEF Last
  <1>4. None \notin Nat /\ None \notin Addresses /\ Addresses \subseteq Nat \ {0}
    BY InEndpointsAssumption
  <1>5. QED
    BY <1>1, <1>2, <1>3, <1>4

LEMMA QueueKept ==
  ASSUME UNCHANGED <<event_queue, pending_set_address>>
  PROVE  /\ Last' = Last
         /\ \A i, k : Lasts(i, k)' <=> Lasts(i, k)
         /\ \A k, a : PendsAt(k, a)' <=> PendsAt(k, a)
         /\ \A i : (Sets(i)' <=> Sets(i)) /\ (Sends(i)' <=> Sends(i))
                     /\ (Resets(i)' <=> Resets(i))
  BY DEF Last, Lasts, PendsAt, Sets, Sends, Resets

(* What is queued last changes nothing at the places before it.            *)
LEMMA QueueGrows ==
  ASSUME IInv, UNCHANGED pending_set_address,
         NEW type, NEW of, Enqueue(type, of)
  PROVE  /\ Last' = Last + 1
         /\ DOMAIN event_queue' = DOMAIN event_queue \union {Last}
         /\ Last \notin DOMAIN event_queue
         /\ \A i \in DOMAIN event_queue : event_queue'[i] = event_queue[i]
         /\ event_queue'[Last] = [type |-> type, of |-> of]
         /\ \A i, k \in 0 .. Last : Lasts(i, k)' <=> Lasts(i, k)
         /\ \A k \in 1 .. Last : \A a : PendsAt(k, a)' <=> PendsAt(k, a)
  <1>1. /\ Last' = Last + 1
        /\ DOMAIN event_queue' = DOMAIN event_queue \union {Last}
        /\ Last \notin DOMAIN event_queue
        /\ \A i \in DOMAIN event_queue : event_queue'[i] = event_queue[i]
        /\ event_queue'[Last] = [type |-> type, of |-> of]
    <2>1. PICK queue \in Seq(Event) : queue = event_queue
      BY QueueFacts
    <2>2. event_queue' = Append(queue, [type |-> type, of |-> of])
      BY <2>1 DEF Enqueue
    <2>3. /\ Len(event_queue') = Len(queue) + 1
          /\ DOMAIN event_queue' = 1 .. Len(queue) + 1
          /\ \A i \in 1 .. Len(queue) : event_queue'[i] = queue[i]
          /\ event_queue'[Len(queue) + 1] = [type |-> type, of |-> of]
      BY <2>2
    <2>4. QED
      BY <2>1, <2>3, QueueFacts DEF Last
  <1>2. \A i, k \in 0 .. Last : Lasts(i, k)' <=> Lasts(i, k)
    BY <1>1, QueueFacts DEF Lasts, Resets, Sets
  <1>3. \A k \in 1 .. Last : \A a : PendsAt(k, a)' <=> PendsAt(k, a)
    <2>1. \A k \in 1 .. Last : Lasts(0, k)' <=> Lasts(0, k)
      BY <1>2, QueueFacts
    <2>2. ASSUME NEW k \in 1 .. Last, NEW a, NEW i, i < k
          PROVE  (i \in DOMAIN event_queue /\ Sets(i) /\ event_queue[i].of = a
                    /\ Lasts(i, k))
                 <=> (i \in DOMAIN event_queue' /\ Sets(i)'
                        /\ event_queue'[i].of = a /\ Lasts(i, k)')
      <3>1. i \in DOMAIN event_queue' => i \in DOMAIN event_queue
        BY <1>1, <2>2, QueueFacts
      <3>2. CASE i \in DOMAIN event_queue
        <4>1. i \in 0 .. Last /\ k \in 0 .. Last
          BY <3>2, QueueFacts
        <4>2. Lasts(i, k)' <=> Lasts(i, k)
          BY <1>2, <4>1
        <4>3. QED
          BY <1>1, <3>2, <4>2 DEF Sets
      <3>3. QED
        BY <1>1, <3>1, <3>2
    <2>3. QED
      BY <2>1, <2>2 DEF PendsAt
  <1>4. QED
    BY <1>1, <1>2, <1>3

(* Where the first event is taken, the others move up by one.              *)
LEMMA QueueShifts ==
  ASSUME IInv, NEW type, NextEvent(type)
  PROVE  /\ Last = Last' + 1 /\ Last' \in Nat
         /\ 1 \in DOMAIN event_queue /\ Head(event_queue) = event_queue[1]
         /\ event_queue[1].type = type
         /\ \A i \in DOMAIN event_queue' :
              /\ i \in Nat /\ i > 0 /\ i < Last'
              /\ i + 1 \in DOMAIN event_queue
              /\ event_queue'[i] = event_queue[i + 1]
         /\ \A j \in DOMAIN event_queue : j > 1 => j - 1 \in DOMAIN event_queue'
         /\ \A i, k \in Nat : Lasts(i, k)' <=> Lasts(i + 1, k + 1)
  <1>1. PICK queue \in Seq(Event) : queue = event_queue
    BY QueueFacts
  <1>2. queue # <<>> /\ Head(queue).type = type /\ event_queue' = Tail(queue)
    BY <1>1 DEF NextEvent
  <1>3. Len(queue) \in Nat /\ Len(queue) > 0 /\ Head(queue) = queue[1]
    BY <1>2
  <1>4. /\ Len(event_queue') = Len(queue) - 1
        /\ DOMAIN event_queue' = 1 .. Len(queue) - 1
        /\ \A i \in 1 .. Len(queue) - 1 : event_queue'[i] = queue[i + 1]
    BY <1>2
  <1>5. /\ Last = Last' + 1 /\ Last' \in Nat
        /\ 1 \in DOMAIN event_queue /\ Head(event_queue) = event_queue[1]
        /\ event_queue[1].type = type
    BY <1>1, <1>2, <1>3, <1>4 DEF Last
  <1>6. \A i \in DOMAIN event_queue' :
          /\ i \in Nat /\ i > 0 /\ i < Last'
          /\ i + 1 \in DOMAIN event_queue
          /\ event_queue'[i] = event_queue[i + 1]
    BY <1>1, <1>3, <1>4 DEF Last
  <1>7. \A j \in DOMAIN event_queue : j > 1 => j - 1 \in DOMAIN event_queue'
    BY <1>1, <1>3, <1>4
  <1>8. ASSUME NEW i \in Nat, NEW k \in Nat
        PROVE  Lasts(i, k)' <=> Lasts(i + 1, k + 1)
    <2>1. ASSUME Lasts(i, k)', NEW j \in DOMAIN event_queue, i + 1 < j, j < k + 1
          PROVE  ~ Resets(j) /\ ~ Sets(j)
      <3>1. j \in Nat /\ j > 1
        BY <2>1, QueueFacts
      <3>2. j - 1 \in DOMAIN event_queue' /\ i < j - 1 /\ j - 1 < k
        BY <1>7, <2>1, <3>1
      <3>3. event_queue'[j - 1] = event_queue[j]
        BY <1>6, <3>1, <3>2
      <3>4. QED
        BY <2>1, <3>2, <3>3 DEF Lasts, Resets, Sets
    <2>2. ASSUME Lasts(i + 1, k + 1), NEW j \in DOMAIN event_queue', i < j, j < k
          PROVE  ~ (Resets(j))' /\ ~ (Sets(j))'
      <3>1. j + 1 \in DOMAIN event_queue /\ i + 1 < j + 1 /\ j + 1 < k + 1
        BY <1>6, <2>2
      <3>2. QED
        BY <1>6, <2>2, <3>1 DEF Lasts, Resets, Sets
    <2>3. QED
      BY <2>1, <2>2 DEF Lasts
  <1>9. QED
    BY <1>5, <1>6, <1>7, <1>8
-----------------------------------------------------------------------------
(* The events.                                                             *)

(* What dispatch_event makes of the pending address.                       *)
PendingAfter(type) ==
  pending_set_address' =
    IF type = "ReceiveSetupPacket" THEN Head(event_queue).of
    ELSE IF type = "Verb" THEN pending_set_address ELSE None

LEMMA PendsAfter ==
  ASSUME IInv, NEW type, NextEvent(type), PendingAfter(type),
         NEW k \in Nat \ {0}, NEW a \in Addresses, PendsAt(k, a)'
  PROVE  PendsAt(k + 1, a)
  <1>1. a # None
    BY QueueFacts
  <1>2. CASE pending_set_address' = a /\ Lasts(0, k)'
    <2>1. Lasts(1, k + 1)
      BY <1>2, QueueShifts
    <2>2. CASE type = "ReceiveSetupPacket"
      <3>1. Sets(1) /\ event_queue[1].of = a /\ 1 \in DOMAIN event_queue
        BY <1>2, <2>2, QueueShifts DEF PendingAfter, Sets
      <3>2. 1 < k + 1
        OBVIOUS
      <3>3. QED
        BY <2>1, <3>1, <3>2 DEF PendsAt
    <2>3. CASE type = "Verb"
      <3>1. pending_set_address = a /\ ~ Resets(1) /\ ~ Sets(1)
        BY <1>2, <2>3, QueueShifts DEF PendingAfter, Resets, Sets
      <3>2. Lasts(0, k + 1)
        BY <2>1, <3>1, QueueFacts DEF Lasts
      <3>3. QED
        BY <3>1, <3>2 DEF PendsAt
    <2>4. QED
      BY <1>1, <1>2, <2>2, <2>3 DEF PendingAfter
  <1>3. ASSUME NEW i \in DOMAIN event_queue', i < k, Sets(i)',
               event_queue'[i].of = a, Lasts(i, k)'
        PROVE  PendsAt(k + 1, a)
    <2>1. /\ i \in Nat /\ i + 1 \in DOMAIN event_queue
          /\ event_queue'[i] = event_queue[i + 1]
      BY <1>3, QueueShifts
    <2>2. i + 1 < k + 1 /\ Sets(i + 1) /\ event_queue[i + 1].of = a
      BY <1>3, <2>1 DEF Sets
    <2>3. Lasts(i + 1, k + 1)
      BY <1>3, <2>1, QueueShifts
    <2>4. QED
      BY <2>1, <2>2, <2>3 DEF PendsAt
  <1>4. QED
    BY <1>2, <1>3 DEF PendsAt

LEMMA EventAssigns ==
  ASSUME IInv, Assigning, NEW type, NextEvent(type), PendingAfter(type),
         UNCHANGED <<setup, pending, host>>,
         type = "Verb" => (Applicable' => Applicable)
  PROVE  HostAsks' /\ SetupAsked' /\ SendsAnswered'
  <1>1. pending = {}
    BY DEF NextEvent
  <1>2. HostAsks'
    BY DEF Assigning, HostAsks, Assigns
  <1>3. SetupAsked'
    <2>1. ASSUME NEW i \in DOMAIN event_queue', Sets(i)', Lasts(i, Last)'
          PROVE  event_queue'[i].of = host.asks /\ Assigns
      <3>1. /\ i \in Nat /\ i + 1 \in DOMAIN event_queue
            /\ event_queue'[i] = event_queue[i + 1]
            /\ Last' \in Nat /\ Last = Last' + 1
        BY <2>1, QueueShifts
      <3>2. PICK last \in Nat : last = Last'
        BY <3>1
      <3>3. Lasts(i, last)' <=> Lasts(i + 1, last + 1)
        BY <3>1, QueueShifts
      <3>4. Lasts(i + 1, Last) /\ Sets(i + 1)
        BY <2>1, <3>1, <3>2, <3>3 DEF Sets, Lasts
      <3>5. QED
        BY <1>1, <3>1, <3>4 DEF Assigning, SetupAsked
    <2>2. ASSUME pending_set_address' # None, Lasts(0, Last)', Applicable'
          PROVE  pending_set_address' = host.asks /\ Assigns
      <3>1. /\ 1 \in DOMAIN event_queue /\ Head(event_queue) = event_queue[1]
            /\ event_queue[1].type = type
            /\ Last' \in Nat /\ Last = Last' + 1
        BY QueueShifts
      <3>2. PICK last \in Nat : last = Last'
        BY <3>1
      <3>3. Lasts(0, last)' <=> Lasts(1, last + 1)
        BY QueueShifts
      <3>4. Lasts(1, Last)
        BY <2>2, <3>1, <3>2, <3>3 DEF Lasts
      <3>5. CASE type = "ReceiveSetupPacket"
        BY <1>1, <3>1, <3>4, <3>5
           DEF Assigning, SetupAsked, PendingAfter, Sets
      <3>6. CASE type = "Verb"
        <4>1. Lasts(0, Last)
          BY <3>1, <3>4, <3>6, QueueFacts DEF Lasts, Resets, Sets
        <4>2. pending_set_address' = pending_set_address
          BY <3>6 DEF PendingAfter
        <4>3. QED
          BY <1>1, <2>2, <3>6, <4>1, <4>2 DEF Assigning, SetupAsked
      <3>7. QED
        BY <2>2, <3>5, <3>6 DEF PendingAfter
    <2>3. host' = host /\ pending' = {} /\ Assigns' = Assigns
      BY <1>1 DEF Assigns
    <2>4. QED
      BY <2>1, <2>2, <2>3 DEF SetupAsked
  <1>4. SendsAnswered'
    <2>1. ASSUME NEW k \in DOMAIN event_queue', NEW a \in Addresses,
                 Sends(k)', PendsAt(k, a)'
          PROVE  \/ host.address # 0 /\ a = host.answered
                 \/ \E j \in DOMAIN event_queue' : k < j /\ Resets(j)'
      <3>1. /\ k \in Nat \ {0} /\ k + 1 \in DOMAIN event_queue
            /\ event_queue'[k] = event_queue[k + 1]
        BY <2>1, QueueShifts
      <3>2. Sends(k + 1) /\ PendsAt(k + 1, a)
        BY <2>1, <3>1, PendsAfter DEF Sends
      <3>3. CASE host.address # 0 /\ a = host.answered
        BY <3>3
      <3>4. ASSUME NEW j \in DOMAIN event_queue, k + 1 < j, Resets(j)
            PROVE  \E i \in DOMAIN event_queue' : k < i /\ Resets(i)'
        <4>1. j \in Nat /\ j > 1
          BY <3>1, <3>4, QueueFacts
        <4>2. j - 1 \in DOMAIN event_queue' /\ k < j - 1
          BY <3>1, <3>4, <4>1, QueueShifts
        <4>3. event_queue'[j - 1] = event_queue[j]
          BY <4>1, <4>2, QueueShifts
        <4>4. QED
          BY <3>4, <4>2, <4>3 DEF Resets
      <3>5. QED
        BY <1>1, <3>1, <3>2, <3>4 DEF Assigning, SendsAnswered
    <2>2. QED
      BY <2>1 DEF SendsAnswered
  <1>5. QED
    BY <1>2, <1>3, <1>4
-----------------------------------------------------------------------------
(* The interrupt handler and the client, which queue an event.             *)

LEMMA GrowsSetup ==
  ASSUME IInv, SetupAsked, UNCHANGED <<pending_set_address, host>>,
         NEW type, NEW of, Enqueue(type, of),
         "BusReset" \in pending => "BusReset" \in pending',
         "EpControl" \in pending' => "EpControl" \in pending /\ setup' = setup,
         Applicable' => Applicable,
         (type = "ReceiveSetupPacket" /\ "BusReset" \notin pending)
           => of = host.asks /\ Assigns
  PROVE  SetupAsked'
  <1>0. /\ DOMAIN event_queue = 1 .. Last - 1 /\ Last \in Nat \ {0}
        /\ DOMAIN event_queue' = DOMAIN event_queue \union {Last}
        /\ \A i \in DOMAIN event_queue : event_queue'[i] = event_queue[i]
        /\ Last' = Last + 1
    <2>1. DOMAIN event_queue = 1 .. Last - 1 /\ Last \in Nat \ {0}
      BY QueueFacts
    <2>2. QED
      BY <2>1, QueueGrows
  <1>1. SUFFICES ASSUME "BusReset" \notin pending'
        PROVE  SetupAsked'
    BY DEF SetupAsked
  <1>2. "BusReset" \notin pending /\ host' = host /\ (Assigns' <=> Assigns)
    BY <1>1 DEF Assigns
  <1>3. ASSUME NEW i \in 0 .. Last, Lasts(i, Last)'
        PROVE  Lasts(i, Last)
    <2>1. PICK last \in Nat : last = Last
      BY <1>0
    <2>2. Last' = last + 1 /\ DOMAIN event_queue' \subseteq Nat
      BY <1>0, <2>1
    <2>3. Lasts(i, last)'
      <3>1. \A j \in DOMAIN event_queue' : j < last => j < Last'
        BY <2>2
      <3>2. QED
        BY <1>3, <3>1 DEF Lasts
    <2>4. last \in 0 .. Last
      BY <2>1
    <2>5. QED
      BY <2>1, <2>3, <2>4, QueueGrows DEF Lasts
  <1>4. ASSUME NEW i \in DOMAIN event_queue', Sets(i)', Lasts(i, Last)'
        PROVE  event_queue'[i].of = host.asks /\ Assigns
    <2>1. CASE i \in DOMAIN event_queue
      <3>1. i \in 0 .. Last /\ event_queue'[i] = event_queue[i]
        BY <1>0, <2>1
      <3>2. Lasts(i, Last) /\ Sets(i)
        BY <1>3, <1>4, <3>1 DEF Sets
      <3>3. QED
        BY <1>2, <2>1, <3>1, <3>2 DEF SetupAsked
    <2>2. CASE i = Last
      <3>1. type = "ReceiveSetupPacket" /\ event_queue'[i].of = of
        BY <1>4, <2>2, QueueGrows DEF Sets
      <3>2. QED
        BY <1>2, <3>1
    <2>3. QED
      BY <1>4, <2>1, <2>2, QueueGrows
  <1>5. ASSUME pending_set_address' # None, Lasts(0, Last)', Applicable'
        PROVE  pending_set_address' = host.asks /\ Assigns
    <2>1. Lasts(0, Last)
      BY <1>3, <1>5, QueueFacts
    <2>2. QED
      BY <1>2, <1>5, <2>1 DEF SetupAsked
  <1>6. "EpControl" \in pending' => setup' = host.asks /\ Assigns
    BY <1>2 DEF SetupAsked
  <1>7. QED
    BY <1>2, <1>4, <1>5, <1>6 DEF SetupAsked

LEMMA GrowsSends ==
  ASSUME IInv, SendsAnswered, UNCHANGED <<pending_set_address, host>>,
         NEW type, NEW of, Enqueue(type, of),
         "BusReset" \in pending => "BusReset" \in pending' \/ type = "BusReset",
         type = "SendComplete" =>
           \A a \in Addresses : PendsAt(Last, a) =>
             (host.address # 0 /\ a = host.answered) \/ "BusReset" \in pending'
  PROVE  SendsAnswered'
  <1>0. /\ DOMAIN event_queue = 1 .. Last - 1 /\ Last \in Nat \ {0}
        /\ DOMAIN event_queue' = DOMAIN event_queue \union {Last}
        /\ event_queue'[Last] = [type |-> type, of |-> of]
    <2>1. DOMAIN event_queue = 1 .. Last - 1 /\ Last \in Nat \ {0}
      BY QueueFacts
    <2>2. QED
      BY <2>1, QueueGrows
  <1>1. ASSUME NEW k \in DOMAIN event_queue', NEW a \in Addresses,
               Sends(k)', PendsAt(k, a)'
        PROVE  \/ host.address # 0 /\ a = host.answered
               \/ "BusReset" \in pending'
               \/ \E j \in DOMAIN event_queue' : k < j /\ Resets(j)'
    <2>1. k \in 1 .. Last
      BY <1>0, <1>1
    <2>2. PendsAt(k, a)
      BY <1>1, <2>1, QueueGrows
    <2>3. CASE k \in DOMAIN event_queue
      <3>1. Sends(k)
        BY <1>1, <2>3, QueueGrows DEF Sends
      <3>2. ASSUME NEW j \in DOMAIN event_queue, k < j, Resets(j)
            PROVE  j \in DOMAIN event_queue' /\ Resets(j)'
        BY <3>2, QueueGrows DEF Resets
      <3>3. ASSUME type = "BusReset"
            PROVE  \E j \in DOMAIN event_queue' : k < j /\ Resets(j)'
        <4>1. PICK last : last = Last
          OBVIOUS
        <4>2. /\ last \in DOMAIN event_queue' /\ k < last
              /\ event_queue'[last].type = "BusReset"
          BY <1>0, <2>3, <3>3, <4>1
        <4>3. QED
          BY <4>2 DEF Resets
      <3>4. QED
        BY <2>2, <2>3, <3>1, <3>2, <3>3 DEF SendsAnswered
    <2>4. CASE k = Last
      <3>1. type = "SendComplete"
        BY <1>1, <2>4, QueueGrows DEF Sends
      <3>2. QED
        BY <2>2, <2>4, <3>1
    <2>5. QED
      BY <1>1, <2>3, <2>4, QueueGrows
  <1>2. QED
    BY <1>1 DEF SendsAnswered

(* Where nothing is queued or taken.                                       *)
LEMMA QueuedKept ==
  ASSUME SetupAsked, SendsAnswered,
         UNCHANGED <<setup, event_queue, pending_set_address>>,
         pending \subseteq pending',
         "EpControl" \in pending' => "EpControl" \in pending,
         Applicable' => Applicable, Assigns => Assigns',
         host'.asks = host.asks,
         (host.address # 0 /\ "BusReset" \notin pending) =>
           host'.address # 0 /\ host'.answered = host.answered
  PROVE  SetupAsked' /\ SendsAnswered'
  <1>1. SetupAsked'
    BY QueueKept DEF SetupAsked
  <1>2. SendsAnswered'
    BY QueueKept DEF SendsAnswered
  <1>3. QED
    BY <1>1, <1>2

LEMMA OnEpInAssigns ==
  ASSUME IInv, Assigning, MachineExternal, OnEpIn
  PROVE  Assigning'
  <1>1. /\ UNCHANGED <<ep_in, address, setup, pending_set_address, write, call,
                       host>>
        /\ "EpIn" \in pending /\ pending' = pending \ {"EpIn"}
        /\ Enqueue("SendComplete", ep_in.epno)
    BY DEF MachineExternal, OnEpIn, hostVars
  <1>2. ep_in.epno \in Nat
    <2>1. ep_in.epno \in AllEndpoints
      BY DEF IInv, TypeOK, EpIn
    <2>2. QED
      BY <2>1, EndpointsAreNumbers
  <1>3. CallsOnce'
    BY <1>1, <1>2, OtherQueued DEF Assigning
  <1>4. Asking' /\ HostAsks'
    BY <1>1 DEF Assigning, Asking, HostAsks, Assigns, Settled
  <1>5. Applicable' => Applicable
    BY <1>1 DEF Applicable, Acknowledging
  <1>6. SetupAsked'
    BY <1>1, <1>5, GrowsSetup DEF Assigning
  <1>7. ASSUME NEW a \in Addresses, PendsAt(Last, a), "BusReset" \notin pending
        PROVE  host.address # 0 /\ a = host.answered
    <2>1. host.address # 0 /\ host.asks = host.answered
      BY <1>1, <1>7 DEF Assigning, HostAsks
    <2>2. Applicable
      BY <2>1 DEF Applicable
    <2>3. a # None
      BY QueueFacts
    <2>4. a = host.asks
      BY <1>7, <2>2, <2>3 DEF Assigning, SetupAsked, PendsAt
    <2>5. QED
      BY <2>1, <2>4
  <1>8. SendsAnswered'
    BY <1>1, <1>7, GrowsSends DEF Assigning
  <1>9. StatusEmpty' /\ OnePacket'
    BY <1>1 DEF Assigning, StatusEmpty, OnePacket
  <1>10. QED
    BY <1>3, <1>4, <1>6, <1>8, <1>9 DEF Assigning

LEMMA OnEpControlAssigns ==
  ASSUME IInv, Assigning, MachineExternal, OnEpControl
  PROVE  Assigning'
  <1>1. /\ UNCHANGED <<ep_in, address, pending_set_address, write, call, host>>
        /\ "EpControl" \in pending /\ pending' = pending \ {"EpControl"}
        /\ Enqueue("ReceiveSetupPacket", setup)
    BY DEF MachineExternal, OnEpControl, hostVars
  <1>2. setup \in Nat
    BY <1>1, InEndpointsAssumption DEF IInv, TypeOK
  <1>3. CallsOnce'
    BY <1>1, <1>2, OtherQueued DEF Assigning
  <1>4. Asking' /\ HostAsks'
    BY <1>1 DEF Assigning, Asking, HostAsks, Assigns, Settled
  <1>5. Applicable' => Applicable
    BY <1>1 DEF Applicable, Acknowledging
  <1>6. SetupAsked'
    <2>1. "BusReset" \notin pending => setup = host.asks /\ Assigns
      BY <1>1 DEF Assigning, SetupAsked
    <2>2. QED
      BY <1>1, <1>5, <2>1, GrowsSetup DEF Assigning
  <1>7. SendsAnswered'
    BY <1>1, GrowsSends DEF Assigning
  <1>8. StatusEmpty' /\ OnePacket'
    BY <1>1 DEF Assigning, StatusEmpty, OnePacket
  <1>9. QED
    BY <1>3, <1>4, <1>6, <1>7, <1>8 DEF Assigning

LEMMA OnResetAssigns ==
  ASSUME IInv, Assigning, MachineExternal, OnReset
  PROVE  Assigning'
  <1>1. /\ UNCHANGED <<pending_set_address, write, call, host>>
        /\ pending = {"BusReset"} /\ pending' = {}
        /\ ep_in' = Cleared
        /\ Enqueue("BusReset", 0)
    BY DEF MachineExternal, OnReset, hostVars
  <1>2. CallsOnce'
    BY <1>1, OtherQueued DEF Assigning
  <1>3. Asking' /\ HostAsks'
    BY <1>1 DEF Assigning, Asking, HostAsks, Assigns, Settled
  <1>4. SetupAsked'
    <2>1. PICK last : last = Last
      OBVIOUS
    <2>2. /\ last \in DOMAIN event_queue' /\ last < Last' /\ last \in Nat
          /\ event_queue'[last].type = "BusReset"
          /\ \A i \in DOMAIN event_queue' : i < last \/ i = last
      <3>1. DOMAIN event_queue = 1 .. last - 1 /\ last \in Nat
        BY <2>1, QueueFacts
      <3>2. /\ Last' = last + 1
            /\ DOMAIN event_queue' = DOMAIN event_queue \union {last}
            /\ event_queue'[last] = [type |-> "BusReset", of |-> 0]
        BY <1>1, <2>1, QueueGrows
      <3>3. QED
        BY <3>1, <3>2
    <2>3. last > 0
      BY <2>1, QueueFacts
    <2>4. \A i : i < last => ~ Lasts(i, Last)'
      BY <2>2 DEF Lasts, Resets
    <2>5. ~ Sets(last)'
      BY <2>2 DEF Sets
    <2>6. QED
      BY <1>1, <2>2, <2>3, <2>4, <2>5 DEF SetupAsked
  <1>5. SendsAnswered'
    BY <1>1, GrowsSends DEF Assigning
  <1>6. StatusEmpty' /\ OnePacket'
    BY <1>1 DEF Assigning, StatusEmpty, OnePacket, Cleared, IInv, TypeOK, EpIn
  <1>7. QED
    BY <1>2, <1>3, <1>4, <1>5, <1>6 DEF Assigning

LEMMA ClientCallsAssigns ==
  ASSUME IInv, Assigning, ~ Late, ClientCalls
  PROVE  Assigning'
  <1>1. /\ UNCHANGED <<ep_in, address, setup, pending, pending_set_address, write,
                       host>>
        /\ Settled /\ host.stage = "none"
        /\ Enqueue("Verb", 0)
    BY DEF ClientCalls, usbVars, hostVars
  <1>2. CallsOnce'
    BY CallQueued DEF Assigning
  <1>3. Asking' /\ HostAsks'
    BY <1>1 DEF Assigning, Asking, HostAsks, Assigns
  <1>4. Applicable' => Applicable
    BY <1>1 DEF Applicable, Acknowledging
  <1>5. SetupAsked'
    BY <1>1, <1>4, GrowsSetup DEF Assigning
  <1>6. SendsAnswered'
    BY <1>1, GrowsSends DEF Assigning
  <1>7. StatusEmpty'
    BY <1>1 DEF Assigning, StatusEmpty, Settled
  <1>8. OnePacket'
    BY <1>1 DEF OnePacket, IInv, WriteOfCall, Settled
  <1>9. QED
    BY <1>2, <1>3, <1>5, <1>6, <1>7, <1>8 DEF Assigning
-----------------------------------------------------------------------------
(* The main loop takes an event.                                           *)

LEMMA BusResetAssigns ==
  ASSUME IInv, Assigning, BusReset \/ SendComplete
  PROVE  Assigning'
  <1>1. PICK type \in {"BusReset", "SendComplete"} :
          NextEvent(type) /\ pending_set_address' = None
    BY DEF BusReset, SendComplete
  <1>2. UNCHANGED <<ep_in, setup, pending, write, call, host>>
    BY DEF BusReset, SendComplete, usbVars, hostVars
  <1>3. CallsOnce'
    BY <1>1, <1>2, EventTaken DEF Assigning, CallsOnce, Executing
  <1>4. PendingAfter(type)
    BY <1>1 DEF PendingAfter
  <1>5. HostAsks' /\ SetupAsked' /\ SendsAnswered'
    BY <1>1, <1>2, <1>4, EventAssigns
  <1>6. Asking' /\ StatusEmpty' /\ OnePacket'
    BY <1>2 DEF Assigning, Asking, Settled, StatusEmpty, OnePacket
  <1>7. QED
    BY <1>3, <1>5, <1>6 DEF Assigning

LEMMA SetAddressAssigns ==
  ASSUME IInv, Assigning, SetAddress
  PROVE  Assigning'
  <1>1. /\ UNCHANGED <<ep_in, setup, pending, call, host>>
        /\ NextEvent("ReceiveSetupPacket")
        /\ write' = [at |-> "drain", ep |-> 0, left |-> 0, fill |-> 0]
        /\ write.at = "none"
    BY DEF SetAddress, BeginWrite, NextEvent, hostVars
  <1>2. ~ Executing /\ ~ Executing'
    BY <1>1 DEF Assigning, CallsOnce, Executing
  <1>3. CallsOnce'
    BY <1>1, <1>2, EventTaken DEF Assigning, CallsOnce
  <1>4. PendingAfter("ReceiveSetupPacket")
    BY DEF SetAddress, PendingAfter
  <1>5. HostAsks' /\ SetupAsked' /\ SendsAnswered'
    BY <1>1, <1>4, EventAssigns
  <1>6. Asking'
    BY <1>1 DEF Assigning, Asking, Settled
  <1>7. StatusEmpty' /\ OnePacket'
    BY <1>1 DEF Assigning, StatusEmpty, OnePacket
  <1>8. QED
    BY <1>3, <1>5, <1>6, <1>7 DEF Assigning

LEMMA WriteEndpointAssigns ==
  ASSUME IInv, Assigning, WriteEndpoint
  PROVE  Assigning'
  <1>1. /\ UNCHANGED <<ep_in, address, setup, pending, pending_set_address, host>>
        /\ NextEvent("Verb") /\ write.at = "none"
        /\ write' = [at |-> "drain", ep |-> call.ep, left |-> call.length,
                     fill |-> 0]
        /\ call' = [call EXCEPT !.state = "executing", !.resets = resets]
    BY DEF WriteEndpoint, BeginWrite, NextEvent, hostVars
  <1>2. /\ call.state = "called"
        /\ \A i \in DOMAIN event_queue' : ~ IsVerb(i)'
    BY <1>1, EventTaken DEF Assigning
  <1>3. /\ call'.state = "executing" /\ call'.ep = call.ep
        /\ call'.length = call.length
        /\ call.ep \in Endpoints /\ call.ep # 0
    BY <1>1, DeliveryTypes DEF Call
  <1>4. CallsOnce'
    BY <1>1, <1>2, <1>3 DEF Assigning, CallsOnce, Executing
  <1>5. PendingAfter("Verb")
    BY <1>1 DEF PendingAfter
  <1>6. Applicable' => Applicable
    BY <1>1, <1>3 DEF Applicable, Acknowledging
  <1>7. HostAsks' /\ SetupAsked' /\ SendsAnswered'
    BY <1>1, <1>5, <1>6, EventAssigns
  <1>8. Asking'
    BY <1>1, <1>2, <1>3 DEF Assigning, Asking, Settled
  <1>9. StatusEmpty' /\ OnePacket'
    BY <1>1, <1>3 DEF Assigning, StatusEmpty, OnePacket
  <1>10. QED
    BY <1>4, <1>7, <1>8, <1>9 DEF Assigning
-----------------------------------------------------------------------------
(* The loops of a write.                                                   *)

(* What a step of a write must keep.                                       *)
StepAssigns ==
  /\ CallsOnce' /\ StatusEmpty' /\ OnePacket'
  /\ Acknowledging' => Acknowledging
  /\ Settled => Settled'

LEMMA MovesOnce ==
  ASSUME CallsOnce, UNCHANGED <<event_queue, call>>, write.at # "none",
         write'.at # "none", write'.ep = write.ep
  PROVE  CallsOnce' /\ (Settled => Settled')
  BY DEF CallsOnce, Executing, IsVerb, Settled

LEMMA ReturnsAssigns ==
  ASSUME IInv, Assigning, UNCHANGED event_queue, write.at # "none",
         NEW result \in {"Ok", "Err"}, Returns(result),
         ep_in' = Cleared \/ (ep_in' = ep_in /\ write.at \notin {"bytes", "prime"})
  PROVE  StepAssigns
  <1>1. write'.at = "none" /\ write'.ep = write.ep
    BY DeliveryTypes DEF Returns, Write
  <1>2. \/ ep_in' = ep_in /\ write.at \notin {"bytes", "prime"}
        \/ ~ ep_in'.primed
    BY DEF Cleared, IInv, TypeOK, EpIn
  <1>3. CallsOnce' /\ (Settled => Settled')
    <2>1. CASE write.ep = 0
      BY <2>1, DeliveryTypes
         DEF Returns, Acknowledges, Assigning, CallsOnce, Executing, IsVerb, Settled
    <2>2. CASE write.ep # 0
      <3>1. /\ call.state = "executing" /\ call'.state = result
            /\ call'.ep = call.ep /\ call'.length = call.length
        BY <2>2, DeliveryTypes
           DEF Returns, Acknowledges, IInv, WriteOfCall, Call
      <3>2. QED
        BY <3>1 DEF Assigning, CallsOnce, Executing, IsVerb, Settled
    <2>3. QED
      BY <2>1, <2>2
  <1>4. StatusEmpty' /\ OnePacket' /\ (Acknowledging' => Acknowledging)
    BY <1>1, <1>2 DEF Assigning, StatusEmpty, OnePacket, Acknowledging
  <1>5. QED
    BY <1>3, <1>4 DEF StepAssigns

LEMMA DrainAssigns ==
  ASSUME IInv, Assigning, UNCHANGED event_queue, Drain
  PROVE  StepAssigns
  <1>1. /\ write.at = "drain" /\ write'.at = "bytes" /\ write'.ep = write.ep
        /\ write'.left = write.left /\ write'.fill = write.fill
        /\ UNCHANGED <<ep_in, call>>
    BY DeliveryTypes DEF Drain, Writing, Write
  <1>2. write.fill = 0 /\ write.left \in Nat
    BY <1>1, DeliveryTypes DEF IInv, WritePosition
  <1>3. OnePacket'
    BY <1>1, <1>2 DEF Assigning, OnePacket
  <1>4. StatusEmpty' /\ (Acknowledging' => Acknowledging)
    BY <1>1 DEF Assigning, StatusEmpty, Acknowledging
  <1>5. QED
    BY <1>1, <1>3, <1>4, MovesOnce DEF Assigning, StepAssigns

LEMMA WriteByteAssigns ==
  ASSUME IInv, Assigning, UNCHANGED event_queue, WriteByte
  PROVE  StepAssigns
  <1>1. /\ write.at = "bytes" /\ write.left > 0 /\ call' = call
        /\ write'.ep = write.ep /\ write'.left = write.left - 1
        /\ write'.fill = write.fill + 1
        /\ \/ write'.at = "prime" /\ IsFull(write.fill + 1)
           \/ write'.at = "bytes"
        /\ ep_in'.primed = ep_in.primed /\ ep_in'.epno = ep_in.epno
    <2>1. write \in Write /\ ep_in \in EpIn
      BY DEF IInv, TypeOK
    <2>2. QED
      BY <2>1 DEF WriteByte, Writing, AddByte, Write, EpIn
  <1>2. write.ep # 0 /\ call.state = "executing"
    BY <1>1 DEF IInv, WriteOfCall
  <1>3. OnePacket'
    <2>1. SUFFICES ASSUME call.length = PacketSize[write.ep] PROVE OnePacket'
      BY <1>1 DEF OnePacket
    <2>2. write.fill + write.left = call.length
      BY <1>1, <1>2, <2>1 DEF Assigning, OnePacket
    <2>3. write'.fill + write'.left = call.length
      <3>1. write.fill \in Nat /\ write.left \in Nat
        BY DeliveryTypes
      <3>2. (write.fill + 1) + (write.left - 1) = write.fill + write.left
        BY <3>1
      <3>3. QED
        BY <1>1, <2>2, <3>2
    <2>4. write'.at = "prime" => write'.left = 0
      BY <1>1, <2>1, <2>2, DeliveryTypes DEF IsFull
    <2>5. QED
      BY <1>1, <2>3, <2>4 DEF OnePacket
  <1>4. StatusEmpty' /\ (Acknowledging' => Acknowledging)
    BY <1>1, <1>2 DEF StatusEmpty, Acknowledging
  <1>5. QED
    BY <1>1, <1>3, <1>4, MovesOnce DEF Assigning, StepAssigns

LEMMA EndPayloadAssigns ==
  ASSUME IInv, Assigning, UNCHANGED event_queue, EndPayload
  PROVE  StepAssigns
  <1>1. /\ write.at = "bytes" /\ write.left = 0 /\ UNCHANGED <<ep_in, call>>
        /\ write'.ep = write.ep /\ write'.left = write.left
        /\ \/ write'.at = "block" /\ IsFull(call.length)
           \/ write'.at = "prime" /\ ~ IsFull(call.length)
    BY DeliveryTypes DEF EndPayload, Writing, Write
  <1>2. OnePacket'
    BY <1>1 DEF OnePacket, IsFull, Acknowledges
  <1>3. StatusEmpty'
    <2>1. CASE write'.at = "prime"
      BY <1>1, <2>1 DEF Assigning, StatusEmpty
    <2>2. CASE write'.at = "block"
      <3>1. write.ep # 0 /\ call.length = PacketSize[write.ep]
        BY <1>1, <2>2 DEF IsFull, Acknowledges
      <3>2. /\ Len(ep_in.fifo) <= write.fill
            /\ write.fill <= PacketSize[write.ep] - 1
        BY <1>1, <3>1 DEF IInv, WritePosition, Filling
      <3>3. write.fill = 0
        <4>1. \/ write.fill = 0
              \/ write.fill + write.left = PacketSize[write.ep]
          BY <1>1, <3>1 DEF Assigning, OnePacket
        <4>2. QED
          BY <1>1, <3>1, <3>2, <4>1, WriteFacts
      <3>4. PICK fifo \in Seq(Byte) : fifo = ep_in.fifo
        BY DeliveryTypes
      <3>5. fifo = <<>>
        BY <3>2, <3>3, <3>4
      <3>6. QED
        BY <1>1, <3>4, <3>5 DEF StatusEmpty
    <2>3. QED
      BY <1>1, <2>1, <2>2
  <1>4. Acknowledging' => Acknowledging
    BY <1>1 DEF Acknowledging
  <1>5. QED
    BY <1>1, <1>2, <1>3, <1>4, MovesOnce DEF Assigning, StepAssigns

LEMMA PrimeAssigns ==
  ASSUME IInv, Assigning, UNCHANGED event_queue, Prime
  PROVE  StepAssigns
  <1>1. /\ write.at = "prime" /\ write'.at \in {"sent", "block"}
        /\ write'.ep = write.ep /\ write'.left = write.left /\ call' = call
        /\ ep_in'.primed /\ ep_in'.epno = write.ep /\ ep_in'.fifo = ep_in.fifo
    <2>1. write \in Write /\ ep_in \in EpIn
      BY DEF IInv, TypeOK
    <2>2. QED
      BY <2>1 DEF Prime, Writing, PrimedFor, Write, EpIn
  <1>2. OnePacket'
    BY <1>1 DEF Assigning, OnePacket
  <1>3. ASSUME write.ep = 0 PROVE ep_in.fifo = <<>>
    <2>1. PICK fifo \in Seq(Byte) : fifo = ep_in.fifo
      BY DeliveryTypes
    <2>2. \A i \in DOMAIN fifo : fifo[i] \in Byte /\ fifo[i].ep = 0
      BY <1>1, <1>3, <2>1 DEF IInv, WritePosition, Filling
    <2>3. DOMAIN fifo = {}
      BY <2>2, ByteFields, DeliveryTypes
    <2>4. 1 \in DOMAIN fifo \/ fifo = <<>>
      OBVIOUS
    <2>5. QED
      BY <2>1, <2>3, <2>4
  <1>4. StatusEmpty' /\ (Acknowledging' => Acknowledging)
    BY <1>1, <1>3 DEF StatusEmpty, Acknowledging
  <1>5. QED
    BY <1>1, <1>2, <1>4, MovesOnce DEF Assigning, StepAssigns

LEMMA SentAssigns ==
  ASSUME IInv, Assigning, UNCHANGED event_queue, Sent
  PROVE  StepAssigns
  <1>1. /\ write.at = "sent" /\ write'.at = "bytes" /\ write'.ep = write.ep
        /\ write'.left = write.left /\ write'.fill = write.fill
        /\ UNCHANGED <<ep_in, call>>
    BY DeliveryTypes DEF Sent, Writing, Write
  <1>2. write.fill = 0 /\ write.ep # 0
    BY <1>1 DEF IInv, WritePosition
  <1>3. OnePacket'
    BY <1>1, <1>2 DEF Assigning, OnePacket
  <1>4. StatusEmpty' /\ (Acknowledging' => Acknowledging)
    BY <1>1, <1>2 DEF Assigning, StatusEmpty, Acknowledging
  <1>5. QED
    BY <1>1, <1>3, <1>4, MovesOnce DEF Assigning, StepAssigns

LEMMA WriteStepAssigns ==
  ASSUME IInv, Assigning, WriteStep
  PROVE  Assigning'
  <1>1. UNCHANGED <<address, setup, pending, event_queue, pending_set_address,
                    host>>
    BY DEF WriteStep, hostVars
  <1>2. StepAssigns
    <2>1. CASE DrainTimeout
      BY <1>1, <2>1, ReturnsAssigns DEF DrainTimeout, Writing
    <2>2. CASE WriteDone
      BY <1>1, <2>2, ReturnsAssigns DEF WriteDone, Writing
    <2>3. CASE WriteTimeout
      BY <1>1, <2>3, ReturnsAssigns DEF WriteTimeout, Writing
    <2>4. QED
      BY <1>1, <2>1, <2>2, <2>3, DrainAssigns, WriteByteAssigns,
         EndPayloadAssigns, PrimeAssigns, SentAssigns DEF WriteStep
  <1>3. Asking' /\ HostAsks'
    BY <1>1, <1>2 DEF StepAssigns, Assigning, Asking, HostAsks, Assigns
  <1>4. Applicable' => Applicable
    BY <1>1, <1>2 DEF StepAssigns, Applicable
  <1>5. SetupAsked' /\ SendsAnswered'
    BY <1>1, <1>4, QueuedKept DEF Assigning, Assigns
  <1>6. QED
    BY <1>2, <1>3, <1>5 DEF StepAssigns, Assigning
-----------------------------------------------------------------------------
(* The host.                                                               *)

LEMMA HostResetAssigns ==
  ASSUME IInv, Assigning, HostReset
  PROVE  Assigning'
  <1>1. /\ UNCHANGED <<ep_in, event_queue, write, call>>
        /\ "BusReset" \in pending'
        /\ host'.address = 0 /\ host'.stage = "none" /\ host'.polls = {}
    BY DEF HostReset, IInv, TypeOK, Host
  <1>2. CallsOnce'
    BY <1>1, SameEvents DEF Assigning
  <1>3. Asking' /\ HostAsks' /\ SetupAsked' /\ SendsAnswered'
    BY <1>1 DEF Asking, HostAsks, Assigns, SetupAsked, SendsAnswered
  <1>4. StatusEmpty' /\ OnePacket'
    BY <1>1 DEF Assigning, StatusEmpty, OnePacket
  <1>5. QED
    BY <1>2, <1>3, <1>4 DEF Assigning

LEMMA HostSetsAddressAssigns ==
  ASSUME IInv, Assigning, ~ Late, HostSetsAddress
  PROVE  Assigning'
  <1>1. /\ UNCHANGED <<ep_in, address, event_queue, pending_set_address, write,
                       call>>
        /\ Settled /\ host.address = 0 /\ host.stage = "none" /\ address = 0
        /\ "BusReset" \notin pending
        /\ pending' = pending \union {"EpControl"}
    BY DEF HostSetsAddress
  <1>2. PICK a \in Addresses :
          setup' = a /\ host' = [host EXCEPT !.stage = "status", !.asks = a]
    BY DEF HostSetsAddress
  <1>3. /\ host'.stage = "status" /\ host'.asks = a /\ host'.address = 0
        /\ host'.polls = host.polls /\ a # 0
    BY <1>1, <1>2, QueueFacts DEF IInv, TypeOK, Host
  <1>4. ~ Assigns /\ Assigns'
    BY <1>1, <1>3 DEF Assigns
  <1>5. CallsOnce'
    BY <1>1, SameEvents DEF Assigning
  <1>6. Asking'
    BY <1>1, <1>3 DEF Assigning, Asking, Settled
  <1>7. HostAsks'
    BY <1>1, <1>3 DEF Assigning, HostAsks
  <1>8. SetupAsked'
    <2>1. \A i \in DOMAIN event_queue : ~ (Sets(i) /\ Lasts(i, Last))
      BY <1>1, <1>4 DEF Assigning, SetupAsked
    <2>2. ~ (pending_set_address # None /\ Lasts(0, Last) /\ Applicable)
      BY <1>1, <1>4 DEF Assigning, SetupAsked
    <2>3. Applicable' => Applicable
      BY <1>1, <1>3 DEF Applicable, Acknowledging
    <2>4. QED
      BY <1>1, <1>2, <1>3, <1>4, <2>1, <2>2, <2>3, QueueKept DEF SetupAsked
  <1>9. SendsAnswered'
    BY <1>1, QueueKept DEF Assigning, SendsAnswered
  <1>10. StatusEmpty' /\ OnePacket'
    BY <1>1 DEF Assigning, StatusEmpty, OnePacket
  <1>11. QED
    BY <1>5, <1>6, <1>7, <1>8, <1>9, <1>10 DEF Assigning

LEMMA HostTakesStatusAssigns ==
  ASSUME IInv, Assigning, HostTakesStatus
  PROVE  Assigning'
  <1>1. /\ UNCHANGED <<address, setup, event_queue, pending_set_address, write,
                       call>>
        /\ ep_in.primed /\ ep_in.epno = 0 /\ ep_in' = Cleared
        /\ pending' = pending \union {"EpIn"}
        /\ address = host.address /\ host.stage = "status"
        /\ host' = [host EXCEPT !.stage = "none", !.answered = host.asks,
                      !.address = IF ep_in.fifo = <<>> THEN host.asks ELSE 0]
    BY DEF HostTakesStatus, Takes, Polls
  <1>2. host.address = 0 /\ Settled /\ "BusReset" \notin pending /\ host.asks # 0
    BY <1>1 DEF Assigning, Asking, HostAsks, Assigns
  <1>3. ep_in.fifo = <<>>
    BY <1>1, <1>2 DEF Assigning, StatusEmpty, Settled
  <1>4. /\ host'.stage = "none" /\ host'.answered = host.asks
        /\ host'.address = host.asks /\ host'.asks = host.asks
        /\ host'.polls = host.polls
    BY <1>1, <1>3 DEF IInv, TypeOK, Host
  <1>5. Assigns /\ Assigns' /\ Applicable
    BY <1>1, <1>2, <1>4 DEF Assigns, Applicable, Acknowledging
  <1>6. CallsOnce'
    BY <1>1, SameEvents DEF Assigning
  <1>7. Asking' /\ HostAsks'
    BY <1>1, <1>2, <1>4 DEF Assigning, Asking, HostAsks, Assigns
  <1>8. SetupAsked' /\ SendsAnswered'
    BY <1>1, <1>2, <1>4, <1>5, QueuedKept DEF Assigning
  <1>9. StatusEmpty' /\ OnePacket'
    BY <1>1 DEF Assigning, StatusEmpty, OnePacket, Cleared, IInv, TypeOK, EpIn
  <1>10. QED
    BY <1>6, <1>7, <1>8, <1>9 DEF Assigning

LEMMA HostTakesPacketAssigns ==
  ASSUME IInv, Assigning, HostTakesPacket
  PROVE  Assigning'
  <1>1. /\ UNCHANGED <<address, setup, event_queue, pending_set_address, write,
                       call, host>>
        /\ ep_in' = Cleared /\ pending' = pending \union {"EpIn"}
        /\ host.polls # {}
    BY DeliveryTypes DEF HostTakesPacket, Takes, Polls
  <1>2. host.address # 0
    BY <1>1 DEF Assigning, Asking
  <1>3. ~ ep_in'.primed
    BY <1>1 DEF Cleared, IInv, TypeOK, EpIn
  <1>4. CallsOnce'
    BY <1>1, SameEvents DEF Assigning
  <1>5. Asking' /\ HostAsks'
    BY <1>1, <1>2 DEF Assigning, Asking, Settled, HostAsks, Assigns
  <1>6. Applicable
    BY <1>2 DEF Applicable
  <1>7. SetupAsked' /\ SendsAnswered'
    BY <1>1, <1>6, QueuedKept DEF Assigning, Assigns
  <1>8. StatusEmpty' /\ OnePacket'
    BY <1>1, <1>3 DEF Assigning, StatusEmpty, OnePacket
  <1>9. QED
    BY <1>4, <1>5, <1>7, <1>8 DEF Assigning

LEMMA HostGivesUpAssigns ==
  ASSUME IInv, Assigning, HostGivesUp
  PROVE  Assigning'
  <1>1. /\ UNCHANGED <<ep_in, address, pending, event_queue, pending_set_address,
                       write, call>>
        /\ host.stage = "status" /\ NotTaken
        /\ pending = {} /\ event_queue = <<>> /\ write.at = "none"
        /\ host' = [host EXCEPT !.stage = "none"]
    BY DEF HostGivesUp, usbVars
  <1>2. host.address = 0
    BY <1>1 DEF Assigning, Asking
  <1>3. host'.stage = "none" /\ host'.address = 0 /\ host'.polls = host.polls
    BY <1>1, <1>2 DEF IInv, TypeOK, Host
  <1>4. CallsOnce'
    BY <1>1, SameEvents DEF Assigning
  <1>5. Asking' /\ HostAsks'
    BY <1>1, <1>2, <1>3 DEF Assigning, Asking, HostAsks, Assigns
  <1>6. ~ Applicable'
    BY <1>1, <1>2, <1>3 DEF Applicable, Acknowledging, NotTaken, Polls
  <1>7. SetupAsked' /\ SendsAnswered'
    BY <1>1, <1>6 DEF SetupAsked, SendsAnswered
  <1>8. StatusEmpty' /\ OnePacket'
    BY <1>1 DEF Assigning, StatusEmpty, OnePacket
  <1>9. QED
    BY <1>4, <1>5, <1>7, <1>8 DEF Assigning

LEMMA HostPollsAssigns ==
  ASSUME IInv, Assigning, HostPolls
  PROVE  Assigning'
  <1>1. /\ UNCHANGED <<ep_in, address, setup, pending, event_queue,
                       pending_set_address, write, call>>
        /\ host.address # 0
        /\ \E polls \in SUBSET Endpoints : host' = [host EXCEPT !.polls = polls]
    BY DEF HostPolls, usbVars
  <1>2. /\ host'.address = host.address /\ host'.stage = host.stage
        /\ host'.asks = host.asks /\ host'.answered = host.answered
    BY <1>1 DEF IInv, TypeOK, Host
  <1>3. CallsOnce'
    BY <1>1, SameEvents DEF Assigning
  <1>4. Asking' /\ HostAsks'
    BY <1>1, <1>2 DEF Assigning, Asking, Settled, HostAsks, Assigns
  <1>5. Applicable
    BY <1>1 DEF Applicable
  <1>6. SetupAsked' /\ SendsAnswered'
    BY <1>1, <1>2, <1>5, QueuedKept DEF Assigning, Assigns
  <1>7. StatusEmpty' /\ OnePacket'
    BY <1>1 DEF Assigning, StatusEmpty, OnePacket
  <1>8. QED
    BY <1>3, <1>4, <1>6, <1>7 DEF Assigning
-----------------------------------------------------------------------------
LEMMA InitAssigns == Init => Assigning
  <1>1. SUFFICES ASSUME Init PROVE Assigning
    OBVIOUS
  <1>2. call.state = "none"
    BY <1>1 DEF Init
  <1>3. CallsOnce /\ Asking /\ HostAsks
    BY <1>1, <1>2
       DEF Init, CallsOnce, Asking, HostAsks, Assigns, Executing, Settled
  <1>4. SetupAsked /\ SendsAnswered
    BY <1>1 DEF Init, SetupAsked, SendsAnswered
  <1>5. StatusEmpty /\ OnePacket
    BY <1>1 DEF Init, StatusEmpty, OnePacket
  <1>6. QED
    BY <1>3, <1>4, <1>5 DEF Assigning

LEMMA NextAssigns == ~ Late /\ IInv /\ Assigning /\ [Next]_vars => Assigning'
  <1>1. SUFFICES ASSUME ~ Late, IInv, Assigning, [Next]_vars PROVE Assigning'
    OBVIOUS
  <1>2. CASE MachineExternal
    BY <1>1, <1>2, OnEpInAssigns, OnEpControlAssigns, OnResetAssigns
       DEF MachineExternal
  <1>3. CASE MainLoop
    BY <1>1, <1>3, BusResetAssigns, SetAddressAssigns, WriteEndpointAssigns,
       WriteStepAssigns DEF MainLoop, DispatchEvent
  <1>4. CASE ClientCalls
    BY <1>1, <1>4, ClientCallsAssigns
  <1>5. CASE TargetHost
    BY <1>1, <1>5, HostResetAssigns, HostSetsAddressAssigns,
       HostTakesStatusAssigns, HostTakesPacketAssigns, HostGivesUpAssigns,
       HostPollsAssigns DEF TargetHost, HostTakes
  <1>6. CASE UNCHANGED vars
    <2>1. UNCHANGED <<ep_in, address, setup, pending, event_queue,
                      pending_set_address, write, call, host>>
      BY <1>6 DEF vars, usbVars, hostVars
    <2>2. CallsOnce'
      BY <1>1, <2>1, SameEvents DEF Assigning
    <2>3. Applicable' => Applicable
      BY <2>1 DEF Applicable, Acknowledging
    <2>4. SetupAsked' /\ SendsAnswered'
      BY <1>1, <2>1, <2>3, QueuedKept DEF Assigning, Assigns
    <2>5. Asking' /\ HostAsks' /\ StatusEmpty' /\ OnePacket'
      BY <1>1, <2>1
         DEF Assigning, Asking, Settled, HostAsks, Assigns, StatusEmpty, OnePacket
    <2>6. QED
      BY <2>2, <2>4, <2>5 DEF Assigning
  <1>7. QED
    BY <1>1, <1>2, <1>3, <1>4, <1>5, <1>6 DEF Next

(* A step that assigns an address other than 0 is a SendComplete.          *)
LEMMA AddressOfAnswer ==
  ASSUME IInv, Assigning, [Next]_vars, address' \notin {0, address}
  PROVE  address' = host.answered \/ ResetWaits
  <1>1. SendComplete
    BY DEF Next, vars, usbVars, MachineExternal, OnEpIn, OnEpControl, OnReset,
           MainLoop, DispatchEvent, BusReset, SetAddress, WriteEndpoint,
           WriteStep, ClientCalls, TargetHost, HostReset, HostSetsAddress,
           HostTakes, HostTakesStatus, HostTakesPacket, Takes, HostGivesUp,
           HostPolls
  <1>2. /\ NextEvent("SendComplete") /\ pending = {}
        /\ pending_set_address # None /\ address' = pending_set_address
    BY <1>1 DEF SendComplete, NextEvent
  <1>3. pending_set_address \in Addresses
    BY <1>2 DEF IInv, TypeOK
  <1>4. 1 \in DOMAIN event_queue /\ Sends(1)
    BY <1>2, QueueShifts DEF Sends
  <1>5. Lasts(0, 1)
    BY QueueFacts DEF Lasts
  <1>6. PendsAt(1, pending_set_address)
    BY <1>5 DEF PendsAt
  <1>7. QED
    BY <1>2, <1>3, <1>4, <1>6
       DEF Assigning, SendsAnswered, Resets, ResetWaits

(* For any addresses, resets, writes and time-outs, the address register   *)
(* takes an address only after the host's status stage for it was answered *)
(* or while a bus reset still waits in the queue, as long as the client    *)
(* does not write during the assignment of an address (dispatch_event).    *)
THEOREM AddressTakenAfterAnswer == ~ Late => (Spec => AddressAfterAnswer)
  <1>1. SUFFICES ASSUME ~ Late PROVE Spec => AddressAfterAnswer
    OBVIOUS
  <1>2. Init => IInv /\ Assigning
    BY InitIInv, InitAssigns
  <1>3. IInv /\ Assigning /\ [Next]_vars => (IInv /\ Assigning)'
    BY <1>1, NextKeepsIInv, NextAssigns
  <1>4. IInv /\ Assigning /\ [Next]_vars =>
          [address' \notin {0, address} => address' = host.answered \/ ResetWaits]_vars
    BY AddressOfAnswer
  <1>5. QED
    BY <1>2, <1>3, <1>4, PTL DEF Spec, AddressAfterAnswer
=============================================================================
