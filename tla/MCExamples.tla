---------------------------- MODULE MCExamples -----------------------------
(* Instances of Examples for TLC: what the hosts of the programs ask for.  *)
EXTENDS Examples

Req(request, value, length) ==
  [request |-> request, value |-> value, length |-> length]

AllRequests ==
  {"GetDescriptor", "SetAddress", "SetConfiguration", "SetLineCoding",
   "ClassIn", "ClassOut", "ControlOut", "ControlIn", "BulkOut", "BulkIn"}

(* Enumeration, and the class requests of an operating system.             *)
SerialPort ==
  {Req("GetDescriptor", 0, 1), Req("GetDescriptor", 1, 1),
   Req("SetAddress", 1, 0), Req("SetLineCoding", 0, 1),
   Req("ClassIn", 0, 1), Req("ClassOut", 0, 0)}

(* What the program serves, without a descriptor it does not have.         *)
PortServed ==
  {Req("GetDescriptor", 0, 1), Req("SetAddress", 1, 0),
   Req("SetLineCoding", 0, 1)}

(* One bulk OUT packet, and payloads of up to two packets otherwise.       *)
HalTests ==
  {Req("ControlOut", 0, 2), Req("ControlIn", 0, 2), Req("ControlIn", 1, 2),
   Req("BulkOut", 1, 0), Req("BulkIn", 0, 0), Req("BulkIn", 1, 0)}

(* Tests whose data comes or goes in one packet.                           *)
ShortTests == {Req("ControlIn", 0, 1), Req("BulkOut", 1, 0)}

Enumeration ==
  {Req("GetDescriptor", 0, 1), Req("GetDescriptor", 1, 1),
   Req("SetAddress", 1, 0), Req("SetConfiguration", 1, 0)}
=============================================================================
