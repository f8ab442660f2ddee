---------------------------- MODULE StreamQueue ----------------------------
(***************************************************************************)
(* What every stage between the capture ring of the analyzer and its USB   *)
(* endpoint promises: a queue. What the input offers goes in whole or not  *)
(* at all, the reader is offered the oldest item or nothing, and a discard *)
(* leaves nothing behind. When items move is left open.                    *)
(***************************************************************************)
EXTENDS Sequences, Integers

CONSTANTS Capacity, None

VARIABLES
  queue,     (* the items inside, oldest first                             *)
  input,     (* the items that the input offers together, or <<>>          *)
  output,    (* the item offered to the reader, or None                    *)
  discarding,
  void       (* the promise is void until the next discard                 *)

vars == <<queue, input, output, discarding, void>>

Front(q) == IF q = <<>> THEN {None} ELSE {None, Head(q)}

Init == queue = <<>> /\ output = None /\ ~ void

Discard == discarding /\ queue' = <<>> /\ output' = None

Take == IF output # None THEN {queue, Tail(queue)} ELSE {queue}

Put(q) == {q, q \o input}

Move ==
  /\ ~ discarding
  /\ \E q \in Take : queue' \in Put(q)
  /\ Len(queue') <= Capacity
  /\ output' \in Front(queue')

Next == void' \/ Discard \/ (~ void /\ Move)

Spec == Init /\ [][Next]_vars
=============================================================================
