--------------------------- MODULE FrameCounters ----------------------------
(***************************************************************************)
(* What the network server promises an end device about downlink frame     *)
(* counters: every frame sent to a device carries a counter greater than   *)
(* all those sent to it before (a device discards anything else).  This is *)
(* the abstract specification that DownlinkCounters implements.            *)
(***************************************************************************)
EXTENDS Naturals

CONSTANT Addrs          \* device addresses

VARIABLES last,         \* last[d]: counter of the last frame sent to d
          parity        \* parity of the number of frames sent: a frame that
                        \* repeats a counter is a step too, and not allowed

fvars == <<last, parity>>

Init == last = [d \in Addrs |-> 0] /\ parity = 0

Send(d) ==
  /\ parity' = 1 - parity
  /\ last'[d] \in Nat
  /\ last'[d] > last[d]
  /\ last' = [last EXCEPT ![d] = last'[d]]

Next == \E d \in Addrs : Send(d)

Spec == Init /\ [][Next]_fvars
=============================================================================
