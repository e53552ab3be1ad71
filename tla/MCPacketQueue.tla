--------------------------- MODULE MCPacketQueue ---------------------------
(***************************************************************************)
(* Small instances of PacketQueue for TLC.  The clock runs freely, so the  *)
(* instants are few; their order is that of the code: the delay of a MAC   *)
(* reply (0.25 s) is at most the lead (1 s), and the lead is shorter than  *)
(* the windows of a Join Accept (5 s and 6 s).                             *)
(***************************************************************************)
EXTENDS PacketQueue

CONSTANTS d1, d2, joins, g1

MCModes == {"MAC", "CONTROL", "JOIN"}

MCDelay == [m \in MCModes |-> IF m = "JOIN" THEN 4 ELSE 1]

\* All Join Requests share the device address 0 (here the key `joins') and
\* FPort 0.
Joins == [dev : {joins}, port : {0}, mode : {"JOIN"}]

\* Two devices whose frame counters may restart: one frame counter can come
\* with two different ports.
MCUplinksPorts ==
  [dev : {d1}, port : {1, 2}, mode : {"MAC"}]
    \cup [dev : {d2}, port : {1, 2}, mode : {"CONTROL"}] \cup Joins

\* A device whose frame counters never repeat on another port.
MCUplinksJoins == [dev : {d1}, port : {1}, mode : {"MAC"}] \cup Joins
=============================================================================
