--------------------------- MODULE CommandChannel ---------------------------
(***************************************************************************)
(* What the CONTROL port promises a client of libgreat: a command is       *)
(* executed once, with the data the client sent, before anything else that *)
(* the client asks for; its outcome, an answer or an error, is read at     *)
(* most once, and is gone when the next command has been executed.         *)
(*                                                                         *)
(* ControlPort implements it with a receive buffer that all requests       *)
(* share, two variables for the outcome, and a FIFO for whatever is read.  *)
(***************************************************************************)
CONSTANTS
  Commands,     (* the commands a client may send                          *)
  Sequenced,    (* the client cancels only what was refused                *)
  None          (* no command, no outcome                                  *)

VARIABLES
  sent,         (* the command sent and not executed yet, or None          *)
  outcome,      (* of the last command, while it is unread, or None        *)
  answer        (* the command whose outcome is being read, or None        *)

vars == <<sent, outcome, answer>>

Outcomes == [command : Commands, accepted : BOOLEAN]

Init == sent = None /\ outcome = None /\ answer = None

Send ==
  /\ sent = None
  /\ sent' \in Commands
  /\ UNCHANGED <<outcome, answer>>

Execute ==
  /\ sent # None
  /\ sent' = None
  /\ outcome' \in {o \in Outcomes : o.command = sent}
  /\ UNCHANGED answer

Respond ==
  /\ sent = None /\ answer = None
  /\ outcome \in Outcomes /\ outcome.accepted
  /\ answer' = outcome.command
  /\ outcome' = None
  /\ UNCHANGED sent

(* Without an error to tell of, a general one is told.                     *)
Cancel ==
  /\ sent = None /\ answer = None
  /\ LET refused == outcome \in Outcomes /\ ~ outcome.accepted
     IN  /\ Sequenced => refused
         /\ answer' = IF refused THEN outcome.command ELSE None
  /\ outcome' = None
  /\ UNCHANGED sent

Read ==
  /\ answer # None
  /\ answer' = None
  /\ UNCHANGED <<sent, outcome>>

Next == Send \/ Execute \/ Respond \/ Cancel \/ Read

Spec == /\ Init /\ [][Next]_vars
        /\ sent # None ~> sent = None
        /\ answer # None ~> answer = None
=============================================================================
