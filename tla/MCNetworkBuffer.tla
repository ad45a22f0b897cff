--------------------------- MODULE MCNetworkBuffer ---------------------------
(* Instances of NetworkBuffer small enough for TLC.                        *)
EXTENDS NetworkBuffer

MCBlankPacket == [f \in 1 .. NbFields |-> 0]
=============================================================================
