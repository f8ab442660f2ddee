---------------------------- MODULE MCMoondancer ----------------------------
(* Instances of Moondancer for TLC: the requests of several target hosts.  *)
EXTENDS Moondancer

Kinds == {"SetAddress", "In", "Out"}

Req(request, value, length) ==
  [request |-> request, value |-> value, length |-> length]

AllRequests ==
  {Req("SetAddress", 1, 0), Req("In", 0, 1), Req("Out", 0, 1), Req("Out", 0, 0)}

ControlOnly == {Req("SetAddress", 1, 0), Req("In", 0, 1), Req("Out", 0, 0)}

Data == {Req("In", 0, 1), Req("Out", 0, 1)}
=============================================================================
