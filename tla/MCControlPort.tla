--------------------------- MODULE MCControlPort ---------------------------
(* Instances of ControlPort for TLC: the requests of several hosts.        *)
EXTENDS ControlPort

Req(request, value, length) ==
  [request |-> request, value |-> value, length |-> length]

AllRequests ==
  {"GetDescriptor", "GetStatus", "MicrosoftOs", "SetAddress",
   "SetConfiguration", "Feature", "Execute", "Response", "Cancel",
   "Claim", "UnknownIn", "UnknownOut", "LegacyOut"}

(* Enumeration, with requests Control answers, refuses and hands on.       *)
Enumeration ==
  {Req("GetDescriptor", 0, 2), Req("GetStatus", 0, 1),
   Req("SetAddress", 1, 0), Req("SetConfiguration", 1, 0),
   Req("Feature", 0, 0), Req("Feature", 1, 0),
   Req("MicrosoftOs", 0, 1), Req("MicrosoftOs", 1, 1),
   Req("Claim", 0, 0), Req("UnknownIn", 0, 1)}

(* Commands of one and of two packets that are accepted.                   *)
Commands ==
  {Req("Execute", 0, 1), Req("Execute", 0, 2), Req("Response", 0, 2),
   Req("Cancel", 0, 1)}

Polite == Enumeration \union Commands

(* The theorems about a PoliteHost are about this one.                     *)
ASSUME PoliteAssumption ==
  HostRequests = Polite /\ MaxEarlyTimeouts = 0 /\ MaxResets = 0 => PoliteHost

(* Commands the class accepts, commands it refuses, and a legacy write.    *)
Refusals ==
  {Req("Execute", 0, 1), Req("Execute", 1, 2), Req("Response", 0, 2),
   Req("Cancel", 0, 1), Req("GetStatus", 0, 1), Req("LegacyOut", 0, 0)}

(* Requests without data from the host.                                    *)
Retries ==
  {Req("GetStatus", 0, 1), Req("GetDescriptor", 0, 1),
   Req("SetAddress", 1, 0), Req("Claim", 0, 0)}

(* Commands, one of them longer than a buffer of one packet, and a client  *)
(* that asks for less than the answer.                                     *)
Overlong ==
  {Req("Execute", 0, 1), Req("Execute", 1, 2), Req("Response", 0, 1),
   Req("UnknownOut", 0, 1), Req("SetConfiguration", 2, 0),
   Req("GetDescriptor", 1, 1)}
=============================================================================
