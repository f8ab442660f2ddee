----------------------------- MODULE Endpoint0 -----------------------------
(***************************************************************************)
(* Endpoint 0 of a luna-soc USB device controller as the firmware sees it: *)
(* the registers of the EP_CONTROL, EP_IN and EP_OUT peripherals that      *)
(* matter to a control transfer, and the driver of lunasoc-hal/src/usb.rs  *)
(* that reads and writes them.                                             *)
(*                                                                         *)
(* The state is one record, u, so that a caller can chain several driver   *)
(* calls in one step; every operator returns the record after the call.    *)
(* Data is counted in packets: an OUT packet is one element of u.out, an   *)
(* IN packet is one element of u.in, and a zero-length packet occupies no  *)
(* space in either FIFO.                                                   *)
(***************************************************************************)
EXTENDS Naturals, Sequences

CONSTANTS
  NumTransfers, (* control transfers told apart by an identity            *)
  MaxLength,    (* largest wLength, in packets                            *)
  Requests,     (* the kinds of request a SETUP packet carries            *)
  NoSetup       (* "no SETUP packet"                                      *)

ASSUME EndpointAssumption ==
  /\ NumTransfers \in Nat \ {0}
  /\ MaxLength \in Nat

Transfers == 1 .. NumTransfers

(* A SETUP packet: which request, its wValue and wLength, and the transfer *)
(* it opens (an identity the model adds to tell answers apart). The value  *)
(* of an Execute stands for the arguments of the command: 0 is one the     *)
(* addressed class accepts.                                                *)
SetupPacket == [request : Requests, value : 0 .. 2,
                length : 0 .. MaxLength, id : Transfers]

ASSUME SetupAssumption == NoSetup \notin SetupPacket

(* An OUT data packet: the i-th packet of the data stage of a transfer.    *)
OutPacket == [id : Transfers, i : 1 .. MaxLength]

(* An IN packet: the transfer it answers and, in the answer of a libgreat  *)
(* command, the bytes of that command; a "full" packet has the maximum     *)
(* packet size, a "short" one less, a "zlp" none at all.                   *)
InPacket == [id : Transfers, of : Seq(OutPacket),
             size : {"full", "short", "zlp"}]

(* The interrupt lines of one controller, by rising number (interrupt.rs). *)
Irq == {"BusReset", "EpControl", "EpIn", "EpOut"}

IrqNumber(irq) ==
  CASE irq = "BusReset" -> 0 [] irq = "EpControl" -> 1
    [] irq = "EpIn" -> 2     [] irq = "EpOut" -> 3

(* interrupt::pending(): the highest bit set in the pending register.      *)
LowestPending(pending) ==
  CHOOSE irq \in pending :
    \A other \in pending : IrqNumber(irq) <= IrqNumber(other)

HighestPending(pending) ==
  CHOOSE irq \in pending :
    \A other \in pending : IrqNumber(irq) >= IrqNumber(other)

(* The call to write_with_packet_size the main loop is inside of, if any:  *)
(* "drain" waits for an empty FIFO, "fill" is about to write the head of   *)
(* left, "wait" spins on TX_ACK_ACTIVE.                                    *)
Write == {w \in [at : {"none", "drain", "fill", "wait"}, left : Seq(InPacket)] :
            w.at \in {"drain", "fill"} => w.left # <<>>}
NoWrite == [at |-> "none", left |-> <<>>]

Usb == [in : Seq(InPacket), in_ready : BOOLEAN, in_stall : BOOLEAN,
        out : Seq(OutPacket), out_enable : BOOLEAN, out_stall : BOOLEAN,
        setup : SetupPacket \union {NoSetup}, pending : SUBSET Irq,
        tx_ack : BOOLEAN, address : 0 .. 2, tx : Write]

(* The controller after connect() and enable_events().                     *)
Connected ==
  [in |-> <<>>, in_ready |-> FALSE, in_stall |-> FALSE,
   out |-> <<>>, out_enable |-> FALSE, out_stall |-> FALSE,
   setup |-> NoSetup, pending |-> {},
   tx_ack |-> FALSE, address |-> 0, tx |-> NoWrite]
-----------------------------------------------------------------------------
(* Driver calls.                                                           *)

SetAddress(u, address) == [u EXCEPT !.address = address]

StallEndpointIn(u) ==
  [u EXCEPT !.in = <<>>, !.in_ready = FALSE, !.in_stall = TRUE]

StallEndpointOut(u) == [u EXCEPT !.out = <<>>, !.out_stall = TRUE]

(* Discards what the host has sent and was not read, then accepts one      *)
(* packet.                                                                 *)
EpOutPrimeReceive(u) == [u EXCEPT !.out = <<>>, !.out_enable = TRUE]

(* read() drains the FIFO; what it returns is u.out.                       *)
Read(u) == [u EXCEPT !.out = <<>>]

(* Enter write_with_packet_size with the packets of one answer.            *)
WriteWithPacketSize(u, packets) ==
  [u EXCEPT !.tx_ack = TRUE, !.tx = [at |-> "drain", left |-> packets]]

WriteZlp(u, id) ==
  WriteWithPacketSize(u, << [id |-> id, of |-> <<>>, size |-> "zlp"] >>)

(* The packets of an answer of n full packets, and maybe some bytes more,  *)
(* to a request for length: the last one is short or empty unless the      *)
(* answer fills the request exactly (cases a to e of the end-of-transfer   *)
(* comment).                                                               *)
AnswersAlwaysTerminated(id, of, n, length) ==
  LET packet(size) == [id |-> id, of |-> of, size |-> size]
      full == [i \in 1 .. n |-> packet("full")]
  IN  {Append(full, packet("short")), Append(full, packet("zlp"))}

Answers(id, of, n, length) ==
  LET packet(size) == [id |-> id, of |-> of, size |-> size]
      full == [i \in 1 .. n |-> packet("full")]
  IN  IF n = length /\ n > 0
      THEN {full}
      ELSE {Append(full, packet("short")), Append(full, packet("zlp"))}

(* have: the transmit FIFO holds at least one byte.                        *)
Have(u) == \E i \in DOMAIN u.in : u.in[i].size # "zlp"
-----------------------------------------------------------------------------
(* The steps of write_with_packet_size, taken by the main loop.            *)

DrainDone(u) ==
  /\ u.tx.at = "drain"
  /\ ~ Have(u)

DrainTimeout(u) ==
  [u EXCEPT !.in = <<>>, !.in_ready = FALSE, !.tx_ack = FALSE,
            !.tx = NoWrite]

(* Put one packet in the FIFO and prime it. Only a full packet is waited   *)
(* for; the last, short one is left to the host.                           *)
Fill(u) ==
  LET packet == Head(u.tx.left)
  IN  [u EXCEPT !.in = Append(@, packet), !.in_ready = TRUE,
                !.tx_ack = TRUE,
                !.tx = IF packet.size = "full"
                       THEN [at |-> "wait", left |-> Tail(u.tx.left)]
                       ELSE NoWrite]

(* The interrupt handler has cleared TX_ACK_ACTIVE.                        *)
SentFillsAgain(u) == [u EXCEPT !.tx = [at |-> "fill", left |-> u.tx.left]]

Sent(u) ==
  [u EXCEPT !.tx = IF u.tx.left = <<>>
                   THEN NoWrite
                   ELSE [at |-> "fill", left |-> u.tx.left]]

WaitTimeoutIgnored(u) == u

WaitTimeout(u) == [u EXCEPT !.tx_ack = FALSE, !.tx = NoWrite]
-----------------------------------------------------------------------------
(* The controller's part of the interrupt handler.                         *)

ClearPending(u, irq) == [u EXCEPT !.pending = @ \ {irq}]

ReadSetup(u) == [ClearPending(u, "EpControl") EXCEPT !.setup = NoSetup]

SendComplete(u) == [ClearPending(u, "EpIn") EXCEPT !.tx_ack = FALSE]

(* bus_reset(): disable_events and enable_events acknowledge whatever was  *)
(* pending, the FIFOs are cleared, the OUT endpoint stays primed.          *)
BusReset(u) ==
  [u EXCEPT !.pending = {}, !.address = 0, !.setup = NoSetup,
            !.in = <<>>, !.in_ready = FALSE, !.out = <<>>,
            !.tx_ack = FALSE]
-----------------------------------------------------------------------------
(* The controller's answers to the tokens of a host (the registers'        *)
(* documentation in lunasoc.svd).                                          *)

(* A SETUP is always accepted, replaces an unread one and ends a stall.    *)
AcceptSetup(u, packet) ==
  [u EXCEPT !.setup = packet, !.in_stall = FALSE, !.out_stall = FALSE,
            !.pending = @ \union {"EpControl"}]

SendsData(u) == u.in_ready /\ ~ u.in_stall

(* The host took, and acknowledged, what was in the FIFO.                  *)
TakeIn(u) ==
  [u EXCEPT !.in = <<>>, !.in_ready = FALSE,
            !.pending = @ \union {"EpIn"}]

AcceptsOut(u) == u.out_enable /\ ~ u.out_stall

(* The host sent a packet: <<>> is a ZLP.                                  *)
AcceptOut(u, data) ==
  [u EXCEPT !.out = data, !.out_enable = FALSE,
            !.pending = @ \union {"EpOut"}]

ResetSignal(u) ==
  [u EXCEPT !.address = 0, !.pending = @ \union {"BusReset"}]
=============================================================================
