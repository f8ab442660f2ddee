----------------------------- MODULE PacketLog -----------------------------
(***************************************************************************)
(* What the USB analyzer promises whoever reads its stream: a log of the   *)
(* packets that were on the bus while it captured, each preceded by its    *)
(* size and by the time since the entry before it, whole and in order. A   *)
(* packet the log has no room for ends the capture, and restarting it      *)
(* discards the log. The log is a sequence of 16-bit words; how it is      *)
(* stored, and in which order its words are written, is left open.         *)
(***************************************************************************)
EXTENDS Integers, Sequences

CONSTANTS Byte, Capacity, TimeModulus, None

VARIABLES
  log,       (* the words recorded and not yet read, oldest first          *)
  out,       (* the word offered to the reader, or None                    *)
  phase,     (* "stopped", "ready", "packet" or "trapped"                  *)
  gap,       (* cycles since the last entry began                          *)
  stamp,     (* gap at the start of the packet in progress                 *)
  overfull,  (* the promise is void: more was recorded than there is room  *)
  bus        (* what is on the bus (external): see Analyzer                *)

vars == <<log, out, phase, gap, stamp, overfull, bus>>

Word(high, low) == 256 * high + low

WordsOf(bytes) == (Len(bytes) + 1) \div 2

(* The entry of a packet; a packet of odd size ends in a byte of padding.  *)
PacketEntry(time, bytes, pad) ==
  <<Len(bytes), time>>
    \o [i \in 1 .. WordsOf(bytes) |->
          Word(bytes[2 * i - 1],
               IF 2 * i <= Len(bytes) THEN bytes[2 * i] ELSE pad)]

(* The entry of a gap that is about to exceed the width of a timestamp.    *)
EventEntry(time) == <<Word(255, 0), time>>

(* The reader takes n words, and entry is added behind the others.         *)
Log(n, entry) ==
  /\ log' = SubSeq(log, n + 1, Len(log)) \o entry
  /\ out' \in IF n = 0 THEN {out, None} ELSE {log[n], None}

Keep(n) == Log(n, <<>>)

Tick == gap' = (gap + 1) % TimeModulus

Init ==
  /\ log = <<>> /\ out = None /\ phase = "stopped"
  /\ gap = 0 /\ stamp = 0 /\ overfull = FALSE

(* A capture begins with an empty log, between two packets.                *)
Start ==
  /\ phase = "stopped"
  /\ log' = <<>> /\ out' = None /\ overfull' = FALSE
  /\ \/ ~ bus.active /\ phase' = "ready" /\ gap' = 0
     \/ bus.active /\ phase' = "stopped" /\ Tick
  /\ UNCHANGED stamp

Stopped(n) == phase = "stopped" /\ Keep(n) /\ Tick /\ UNCHANGED <<phase, stamp>>

Stop(n) ==
  /\ phase \in {"ready", "trapped"}
  /\ phase' = "stopped"
  /\ Keep(n) /\ Tick
  /\ UNCHANGED stamp

Begin(n) ==
  /\ phase = "ready" /\ bus.active
  /\ phase' = "packet"
  /\ stamp' = gap
  /\ gap' = 0
  /\ Keep(n)

Silence(n) ==
  /\ phase = "ready" /\ ~ bus.active
  /\ Log(n, IF gap = TimeModulus - 1 THEN EventEntry(gap) ELSE <<>>)
  /\ Tick
  /\ UNCHANGED <<phase, stamp>>

Packet(n) ==
  /\ phase = "packet" /\ bus.active
  /\ \/ phase' = "packet"
     \/ /\ Len(log) + 2 + WordsOf(bus.bytes) >= Capacity - 1
        /\ phase' = "trapped"
  /\ Keep(n) /\ Tick
  /\ UNCHANGED stamp

End(n) ==
  /\ phase = "packet" /\ ~ bus.active
  /\ phase' = "ready"
  /\ \E pad \in Byte : Log(n, PacketEntry(stamp, bus.bytes, pad))
  /\ Tick
  /\ UNCHANGED stamp

Trapped(n) == phase = "trapped" /\ Keep(n) /\ Tick /\ UNCHANGED <<phase, stamp>>

(* At most two words are read in a cycle of the bus.                       *)
Promised ==
  \E n \in {k \in 0 .. 2 : k <= Len(log)} :
    \/ Stopped(n) \/ Stop(n) \/ Begin(n) \/ Silence(n)
    \/ Packet(n) \/ End(n) \/ Trapped(n)

Next ==
  \/ Start
  \/ (overfull' = overfull /\ ~ overfull) /\ Promised
  \/ overfull'

Spec == Init /\ [][Next]_vars
=============================================================================
