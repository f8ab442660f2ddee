-------------------------- MODULE Endpoint0_proofs --------------------------
(***************************************************************************)
(* Every driver call, every step of a write and every token keeps the      *)
(* record of an endpoint well-formed.                                      *)
(***************************************************************************)
EXTENDS Endpoint0, TLAPS

LEMMA NoWriteType == NoWrite \in Write
  BY DEF NoWrite, Write

(* The calls that take nothing but the controller: none of them writes a   *)
(* value its register cannot hold, nor leaves a write without its packets. *)
LEMMA DriverCallsType ==
  ASSUME NEW u \in Usb
  PROVE  /\ StallEndpointIn(u) \in Usb
         /\ StallEndpointOut(u) \in Usb
         /\ EpOutPrimeReceive(u) \in Usb
         /\ Read(u) \in Usb
         /\ DrainTimeout(u) \in Usb
         /\ WaitTimeout(u) \in Usb
  <1>1. <<>> \in Seq(InPacket) /\ <<>> \in Seq(OutPacket)
    OBVIOUS
  <1>2. StallEndpointIn(u) \in Usb
    BY <1>1 DEF StallEndpointIn, Usb
  <1>3. StallEndpointOut(u) \in Usb
    BY <1>1 DEF StallEndpointOut, Usb
  <1>4. EpOutPrimeReceive(u) \in Usb
    BY <1>1 DEF EpOutPrimeReceive, Usb
  <1>5. Read(u) \in Usb
    BY <1>1 DEF Read, Usb
  <1>6. DrainTimeout(u) \in Usb
    BY <1>1, NoWriteType DEF DrainTimeout, Usb
  <1>7. WaitTimeout(u) \in Usb
    BY <1>1, NoWriteType DEF WaitTimeout, Usb
  <1>8. QED
    BY <1>2, <1>3, <1>4, <1>5, <1>6, <1>7

LEMMA StartWriteType ==
  ASSUME NEW u \in Usb, NEW packets \in Seq(InPacket), packets # <<>>
  PROVE  WriteWithPacketSize(u, packets) \in Usb
  <1>1. [at |-> "drain", left |-> packets] \in Write
    BY DEF Write
  <1>2. QED
    BY <1>1 DEF WriteWithPacketSize, Usb

LEMMA WriteZlpType ==
  ASSUME NEW u \in Usb, NEW id \in Transfers
  PROVE  WriteZlp(u, id) \in Usb
  <1> DEFINE zlp == [id |-> id, of |-> <<>>, size |-> "zlp"]
  <1>1. zlp \in InPacket
    BY DEF InPacket
  <1>2. <<zlp>> \in Seq(InPacket) /\ <<zlp>> # <<>>
    BY <1>1
  <1>3. QED
    BY <1>2, StartWriteType DEF WriteZlp

(* An answer is never the empty sequence of packets.                       *)
LEMMA AnswersType ==
  ASSUME NEW id \in Transfers, NEW of \in Seq(OutPacket),
         NEW n \in Nat, NEW length \in Nat,
         NEW packets \in Answers(id, of, n, length)
  PROVE  packets \in Seq(InPacket) /\ packets # <<>>
  <1> DEFINE packet(size) == [id |-> id, of |-> of, size |-> size]
  <1> DEFINE full == [i \in 1 .. n |-> packet("full")]
  <1>1. /\ packet("full") \in InPacket
        /\ packet("short") \in InPacket
        /\ packet("zlp") \in InPacket
    BY DEF InPacket
  <1>2. full \in Seq(InPacket) /\ Len(full) = n
    BY <1>1
  <1> HIDE DEF full, packet
  <1>3. CASE n = length /\ n > 0
    <2>1. packets = full
      BY <1>3 DEF Answers, full, packet
    <2>2. QED
      BY <2>1, <1>2, <1>3
  <1>4. CASE ~ (n = length /\ n > 0)
    <2>1. \/ packets = Append(full, packet("short"))
          \/ packets = Append(full, packet("zlp"))
      BY <1>4 DEF Answers, full, packet
    <2>2. QED
      BY <2>1, <1>1, <1>2
  <1>5. QED
    BY <1>3, <1>4

(* A write goes from draining to filling, from filling to waiting or to    *)
(* its end, and from waiting to filling as long as packets are left.       *)
LEMMA WriteStepsType ==
  ASSUME NEW u \in Usb
  PROVE  /\ u.tx.at = "drain" => [u EXCEPT !.tx.at = "fill"] \in Usb
         /\ u.tx.at = "fill" => Fill(u) \in Usb
         /\ Sent(u) \in Usb
  <1>1. u.tx \in Write
    BY DEF Usb
  <1>2. ASSUME u.tx.at = "drain"
        PROVE  [u EXCEPT !.tx.at = "fill"] \in Usb
    <2>1. [u.tx EXCEPT !.at = "fill"] \in Write
      BY <1>1, <1>2 DEF Write
    <2>2. QED
      BY <2>1 DEF Usb
  <1>3. ASSUME u.tx.at = "fill"
        PROVE  Fill(u) \in Usb
    <2>1. u.tx.left \in Seq(InPacket) /\ u.tx.left # <<>>
      BY <1>1, <1>3 DEF Write
    <2>2. Head(u.tx.left) \in InPacket /\ Tail(u.tx.left) \in Seq(InPacket)
      BY <2>1
    <2>3. [at |-> "wait", left |-> Tail(u.tx.left)] \in Write
      BY <2>2 DEF Write
    <2>4. Append(u.in, Head(u.tx.left)) \in Seq(InPacket)
      BY <2>2 DEF Usb
    <2>5. QED
      BY <2>3, <2>4, NoWriteType DEF Fill, Usb
  <1>4. Sent(u) \in Usb
    <2>1. u.tx.left # <<>> => [at |-> "fill", left |-> u.tx.left] \in Write
      BY <1>1 DEF Write
    <2>2. QED
      BY <2>1, NoWriteType DEF Sent, Usb
  <1>5. QED
    BY <1>2, <1>3, <1>4

(* Driver calls leave the interrupts and the SETUP packet alone.           *)
LEMMA CallsKeepInterrupts ==
  ASSUME NEW u \in Usb
  PROVE  /\ \A v \in {StallEndpointIn(u), StallEndpointOut(u),
                      EpOutPrimeReceive(u), Read(u)} :
              v.pending = u.pending /\ v.setup = u.setup
         /\ \A address : /\ SetAddress(u, address).pending = u.pending
                         /\ SetAddress(u, address).setup = u.setup
         /\ \A packets :
              /\ WriteWithPacketSize(u, packets).pending = u.pending
              /\ WriteWithPacketSize(u, packets).setup = u.setup
  BY DEF StallEndpointIn, StallEndpointOut, EpOutPrimeReceive, Read,
         SetAddress, WriteWithPacketSize, Usb

(* Some pending interrupt has the highest number.                          *)
LEMMA HighestPendingIsPending ==
  ASSUME NEW pending \in SUBSET Irq, pending # {}
  PROVE  /\ HighestPending(pending) \in pending
         /\ \A other \in pending :
              IrqNumber(HighestPending(pending)) >= IrqNumber(other)
  <1> DEFINE Highest(irq) ==
        \A other \in pending : IrqNumber(irq) >= IrqNumber(other)
  <1>1. /\ IrqNumber("BusReset") = 0 /\ IrqNumber("EpControl") = 1
        /\ IrqNumber("EpIn") = 2 /\ IrqNumber("EpOut") = 3
    BY DEF IrqNumber
  <1>2. \A irq \in pending : irq \in {"BusReset", "EpControl", "EpIn", "EpOut"}
    BY DEF Irq
  <1>3. \E irq \in pending : Highest(irq)
    <2>1. CASE "EpOut" \in pending
      BY <1>1, <1>2, <2>1
    <2>2. CASE "EpOut" \notin pending /\ "EpIn" \in pending
      BY <1>1, <1>2, <2>2
    <2>3. CASE /\ "EpOut" \notin pending /\ "EpIn" \notin pending
               /\ "EpControl" \in pending
      BY <1>1, <1>2, <2>3
    <2>4. CASE /\ "EpOut" \notin pending /\ "EpIn" \notin pending
               /\ "EpControl" \notin pending
      BY <1>1, <1>2, <2>4
    <2>5. QED
      BY <2>1, <2>2, <2>3, <2>4
  <1>4. QED
    BY <1>3 DEF HighestPending

(* The interrupt handler's part.                                           *)
LEMMA InterruptType ==
  ASSUME NEW u \in Usb
  PROVE  /\ ReadSetup(u) \in Usb
         /\ SendComplete(u) \in Usb
         /\ ClearPending(u, "EpOut") \in Usb
         /\ BusReset(u) \in Usb
  <1>1. \A irq : ClearPending(u, irq) \in Usb
    BY DEF ClearPending, Usb
  <1>2. ReadSetup(u) \in Usb
    BY <1>1 DEF ReadSetup, Usb
  <1>3. SendComplete(u) \in Usb
    BY <1>1 DEF SendComplete, Usb
  <1>4. BusReset(u) \in Usb
    <2>1. {} \in SUBSET Irq /\ 0 \in 0 .. 2
      OBVIOUS
    <2>2. <<>> \in Seq(InPacket) /\ <<>> \in Seq(OutPacket)
      OBVIOUS
    <2>3. QED
      BY <2>1, <2>2 DEF BusReset, Usb
  <1>5. QED
    BY <1>1, <1>2, <1>3, <1>4

(* The host's tokens.                                                      *)
LEMMA TokensType ==
  ASSUME NEW u \in Usb
  PROVE  /\ \A packet \in SetupPacket : AcceptSetup(u, packet) \in Usb
         /\ TakeIn(u) \in Usb
         /\ \A data \in Seq(OutPacket) : AcceptOut(u, data) \in Usb
         /\ ResetSignal(u) \in Usb
  <1>1. \A irq \in {"BusReset", "EpControl", "EpIn", "EpOut"} :
          u.pending \union {irq} \in SUBSET Irq
    BY DEF Usb, Irq
  <1>2. \A packet \in SetupPacket : AcceptSetup(u, packet) \in Usb
    BY <1>1 DEF AcceptSetup, Usb
  <1>3. TakeIn(u) \in Usb
    <2>1. <<>> \in Seq(InPacket)
      OBVIOUS
    <2>2. QED
      BY <1>1, <2>1 DEF TakeIn, Usb
  <1>4. \A data \in Seq(OutPacket) : AcceptOut(u, data) \in Usb
    BY <1>1 DEF AcceptOut, Usb
  <1>5. ResetSignal(u) \in Usb
    <2>1. 0 \in 0 .. 2
      OBVIOUS
    <2>2. QED
      BY <1>1, <2>1 DEF ResetSignal, Usb
  <1>6. QED
    BY <1>2, <1>3, <1>4, <1>5

LEMMA ConnectedType == Connected \in Usb
  BY NoWriteType DEF Connected, Usb, Irq
=============================================================================
