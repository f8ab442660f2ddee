----------------------------- MODULE MCAnalyzer -----------------------------
(* Instances of Analyzer for TLC.                                          *)
EXTENDS Analyzer

(* Every byte is different from the others.                                *)
DistinctBytes(packet, i) == 16 * packet + i

(* Two states are the same for TLC when they differ only in what is dead:   *)
(* words that are neither unread nor part of the packet in progress (such a *)
(* word is written before it is read again, but for the padding of an odd   *)
(* packet, which no property looks at), and the registers of a packet when  *)
(* none is in progress.                                                     *)
Capturing == state = "CAPTURE_PACKET"

IsHeader(i) ==
  Capturing /\ i \in fifo.count .. fifo.count + HEADER_SIZE_WORDS - 1

Live ==
  [i \in 0 .. fifo.count + (IF Capturing THEN fifo.pending ELSE 0) - 1 |->
     IF IsHeader(i) THEN 0 ELSE WordAt(mem, (fifo.read + i) % Words)]

Packet == <<header_word_addr, packet_size, packet_time, fifo.pending>>

View ==
  <<state, write_byte_addr, current_time, fifo.read, fifo.count, fifo.stream,
    IF Capturing THEN Packet ELSE <<>>,
    IF Capturing \/ bus.active THEN bus ELSE bus.packet,
    capture_enable, captures, overfull, tight, Live>>
=============================================================================
