----------------------------- MODULE MCFormats -----------------------------
(***************************************************************************)
(* The formats of the server side by side in one run: each is written by   *)
(* one piece of code and read by another, and they share no state.         *)
(***************************************************************************)
EXTENDS MacGateway, FrameExchange, RadioMetadata, DevAddr, RegionalParameters, GatewayConfig

CONSTANT Formats    \* "mac", "frames", "metadata", "devaddr", "plans", "gateway"

VARIABLE format     \* the format that is written and read

Chan(f, e, c) == [frequency |-> f, minDR |-> 1, maxDR |-> 5, enabled |-> e, custom |-> c]
Ups == {<<>>, <<Chan(1, TRUE, FALSE), Chan(2, FALSE, TRUE)>>}
Downs == {<<>>, <<Chan(3, FALSE, FALSE)>>}
\* A plan whose attributes, rates and sizes all differ from the defaults.
Plan(id, name, default, up, down, bw) ==
    [attr |-> [k \in DOMAIN NewPlan.attr |->
                CASE k = "id" -> id
                  [] k = "name" -> name
                  [] k = "cn" -> "cn"
                  [] k = "defaultRegion" -> default
                  [] k = "maxUplinkEIRP" -> IF id = 1 THEN 1600 ELSE 1215
                  [] k \in BandBools -> TRUE
                  [] OTHER -> 5],
     rates |-> [i \in 1 .. RbRateSize |->
                  [uplink |-> i = 1, downlink |-> i = 2, modulation |-> IF i = 1 THEN "LORA" ELSE "FSK",
                   bandwidth |-> bw, spreadingFactor |-> 6 + i, bps |-> i]],
     sizes |-> [i \in 1 .. RbRateSize |-> [m |-> i, n |-> i + 1]],
     repeater |-> [i \in 1 .. RbRateSize |-> [m |-> i + 2, n |-> i + 3]],
     rx1 |-> [i \in 1 .. RbRateSize |-> <<i, 0>>],
     offsets |-> <<0, -2>>, up |-> up, down |-> down]
MCPlans ==
    {<<>>} \cup {<<Plan(1, "EU", d, u, w, 1)>> : d \in BOOLEAN, u \in Ups, w \in Downs}
    \cup {<<Plan(1, "EU", d, u, <<>>, 7), Plan(12, "RU", e, v, w, 8)>>
            : d, e \in BOOLEAN, u, v \in Ups, w \in Downs}

\* A format that is not written stands at one of its initial states.
Stands(f, state) == format = f \/ state
GcIdle == /\ gcFile = [h \in Settings |-> Plain(h)] /\ gcStage = "file"
          /\ gcConfig = <<>> /\ gcAgain = <<>> /\ gcCompiled = <<>>
Init ==
    /\ format \in Formats
    /\ MacInit
    /\ FrInit /\ Stands("frames", frMinor = 0)
    /\ MdInit
    /\ DaInit /\ Stands("devaddr", daMinor = 0 /\ devaddr = {})
    /\ RbInit /\ Stands("plans", rbFile = <<>>)
    /\ IF format = "gateway" THEN GcInit ELSE GcIdle

MacMoves == /\ format = "mac" /\ MacNext
            /\ UNCHANGED <<format, frVars, mdVars, daVars, rbVars, gcVars>>
FrMoves == /\ format = "frames" /\ FrNext
           /\ UNCHANGED <<format, macVars, mdVars, daVars, rbVars, gcVars>>
MdMoves == /\ format = "metadata" /\ MdNext
           /\ UNCHANGED <<format, macVars, frVars, daVars, rbVars, gcVars>>
DaMoves == /\ format = "devaddr" /\ DaNext
           /\ UNCHANGED <<format, macVars, frVars, mdVars, rbVars, gcVars>>
RbMoves == /\ format = "plans" /\ RbNext
           /\ UNCHANGED <<format, macVars, frVars, mdVars, daVars, gcVars>>
GcMoves == /\ format = "gateway" /\ GcNext
           /\ UNCHANGED <<format, macVars, frVars, mdVars, daVars, rbVars>>

Next == MacMoves \/ FrMoves \/ MdMoves \/ DaMoves \/ RbMoves \/ GcMoves
vars == <<format, macVars, frVars, mdVars, daVars, rbVars, gcVars>>
Spec == Init /\ [][Next]_vars
=============================================================================
