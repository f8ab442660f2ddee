--------------------------- MODULE MCInEndpoints ---------------------------
(* Instances of InEndpoints for TLC.                                       *)
EXTENDS InEndpoints

Sizes == [ep \in Endpoints |-> IF ep = 1 THEN 2 ELSE 1]

(* Of one byte, of one full packet, and of a full packet and a short one.  *)
SplitByClient == {<<1, 1>>, <<1, 2>>, <<1, 3>>, <<2, 1>>}

(* What the theorems of InEndpoints_proofs ask of the client:              *)
(* WritesAreDelivered the first, AddressTakenAfterAnswer the second.       *)
ASSUME ClientIsPolite == NoEmptyPackets /\ ~ Late
=============================================================================
