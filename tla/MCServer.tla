------------------------------ MODULE MCServer ------------------------------
(***************************************************************************)
(* The services of the server that do not share state, side by side in one *)
(* run: part tells which of them moves.                                    *)
(***************************************************************************)
EXTENDS Identities, Listener, DirectoryQueue, ServerProcess, UsbGateway

CONSTANT Parts          \* "identities", "listener", "directory", "process", "usb"

VARIABLE part

Entry(a, e, f) == [addr |-> a, eui |-> e, flags |-> f]
MCFiles ==
    {<<>>,
     <<Entry(Own(1), "d1", TRUE), Entry(Own(3), "d2", FALSE)>>,
     <<Entry(Unassigned, "d1", FALSE), Entry(Own(1), "d2", FALSE)>>,
     <<Entry(Own(1), "d1", TRUE), Entry(Unassigned, "d2", FALSE), Entry(Unassigned, "d3", FALSE)>>,
     <<Entry([net |-> 1, n |-> 9], "d1", TRUE), Entry(Own(2), "d3", FALSE), Entry(Unassigned, "d2", FALSE)>>,
     <<Entry(Own(3), "d1", TRUE), Entry(Own(0), "d3", FALSE), Entry(Unassigned, "d2", FALSE)>>}

Dg(tag, size, v, gw, from, js, st, rx, tx) ==
    [tag |-> tag, size |-> size, version |-> v, gw |-> gw, from |-> from,
     sock |-> IF from = "a1" THEN 3 ELSE 4, json |-> js, stat |-> st,
     rx |-> Head(rx), rxpk |-> Tail(rx), txpk |-> tx]
Absent == <<"absent">>
Arr(frames) == <<"array">> \o frames
Push(st, rx) == Dg("PUSH_DATA", "full", 2, "g1", "a1", TRUE, st, rx, "absent")
MCDatagrams ==
    {Push("absent", Arr(rx)) : rx \in {<<>>, <<"data">>, <<"mic", "data">>, <<"data", "mic">>,
        <<"data", "join">>, <<"join", "data">>, <<"join">>, <<"data18", "badjoin">>, <<"data", "other">>}}
    \cup {Push(st, rx) : st \in {"good", "bad"}, rx \in {Absent, <<"other">>, Arr(<<"data", "mic", "data">>)}}
    \cup {Dg("PUSH_DATA", z, 2, "g1", "a1", FALSE, "absent", Absent, "absent")
             : z \in {"none", "prefix4", "prefix12", "full"}}
    \cup {Dg("PUSH_DATA", "full", v, "g1", "a1", TRUE, "good", Absent, tx)
             : v \in {1, 2}, tx \in {"absent", "other", "data", "join"}}
    \cup {Dg("PULL_DATA", z, 2, g, a, FALSE, "absent", Absent, "absent")
             : z \in {"prefix4", "prefix12"}, g \in {"g1", "g9"}, a \in {"a1", "a2"}}
    \cup {Dg(t, "prefix12", 2, "g1", "a1", FALSE, "absent", Absent, "absent") : t \in {"TX_ACK", "OTHER"}}

Rx(s, r) == [status |-> s, readable |-> r]
MCFetches == {<<Rx("ok", TRUE)>>, <<Rx("bad", TRUE), Rx("ok", TRUE)>>,
              <<Rx("ok", TRUE), Rx("ok", FALSE)>>, <<Rx("ok", TRUE), Rx("ok", TRUE)>>}
MCLut == <<12, 27, 20>>

\* A part that does not move stands at one of its initial states.
Stands(p, state) == part = p \/ state
Init ==
    /\ part \in Parts
    /\ IdInit /\ Stands("identities", idBackend = CHOOSE b \in IdBackends : TRUE) /\ Stands("identities", idFile = <<>>)
    /\ LsInit
    /\ DqInit /\ Stands("directory", dqFormat = 1)
    /\ SpInit /\ Stands("process", spDaemon = (TRUE \in SpDaemon)) /\ Stands("process", spQueue = CHOOSE q \in SpQueues : TRUE)
    /\ UgInit /\ Stands("usb", ugBeacon = FALSE)

IdMoves == part = "identities" /\ IdNext /\ UNCHANGED <<part, lsVars, dqVars, spVars, ugVars>>
LsMoves == part = "listener" /\ LsNext /\ UNCHANGED <<part, idVars, dqVars, spVars, ugVars>>
DqMoves == part = "directory" /\ DqNext /\ UNCHANGED <<part, idVars, lsVars, spVars, ugVars>>
SpMoves == part = "process" /\ SpNext /\ UNCHANGED <<part, idVars, lsVars, dqVars, ugVars>>
UgMoves == part = "usb" /\ UgNext /\ UNCHANGED <<part, idVars, lsVars, dqVars, spVars>>

Next == IdMoves \/ LsMoves \/ DqMoves \/ SpMoves \/ UgMoves
vars == <<part, idVars, lsVars, dqVars, spVars, ugVars>>
Spec == Init /\ [][Next]_vars /\ LsFairness /\ SpFairness
=============================================================================
