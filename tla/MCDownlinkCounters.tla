------------------------- MODULE MCDownlinkCounters -------------------------
(* Small instances of DownlinkCounters for TLC. *)
EXTENDS DownlinkCounters

CONSTANTS d1, d2, f1, zero

TwoAddrs == {d1, d2}
OneAddr == {d1}
OneFresh == {f1}
NoAddr == {}
MacAndJoin == {"MAC", "JOIN"}
Everything == {"MAC", "JOIN", "CONTROL"}
MacAndControl == {"MAC", "CONTROL"}
=============================================================================
