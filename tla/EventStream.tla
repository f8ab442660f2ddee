----------------------------- MODULE EventStream -----------------------------
(***************************************************************************)
(* What the moondancer class promises the client that emulates a device:   *)
(* every event the hardware raised reaches it once, in order, with the     *)
(* data the host sent. Only a disconnect loses events.                     *)
(*                                                                         *)
(* The class implements it with four queues (Moondancer!Stream): an event  *)
(* and its data travel separately, by EVENT_QUEUE, the OUT FIFO, irq_queue,*)
(* control_queue and packet_buffer, and the client joins them again.       *)
(***************************************************************************)
EXTENDS Naturals, Sequences

CONSTANT Item   (* an event with its data *)

VARIABLES
  stream,       (* raised and not delivered, oldest first *)
  connected     (* the port is connected                  *)

Init == stream = <<>> /\ connected = FALSE

Connect == ~ connected /\ connected' = TRUE /\ UNCHANGED stream

Raise ==
  /\ connected
  /\ \E item \in Item : stream' = Append(stream, item)
  /\ UNCHANGED connected

Deliver ==
  /\ connected
  /\ stream # <<>>
  /\ stream' = Tail(stream)
  /\ UNCHANGED connected

(* What the interrupt handler has raised but the main loop has not seen    *)
(* yet survives.                                                           *)
Disconnect ==
  /\ connected
  /\ \E n \in 0 .. Len(stream) : stream' = SubSeq(stream, n + 1, Len(stream))
  /\ connected' = FALSE

Next == Connect \/ Raise \/ Deliver \/ Disconnect

Spec == Init /\ [][Next]_<<stream, connected>>
=============================================================================
