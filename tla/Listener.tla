------------------------------ MODULE Listener ------------------------------
(***************************************************************************)
(* The UDP listener (udp-listener.cpp) with the parser of the datagrams of *)
(* a packet forwarder (utillora.cpp), the addresses of the gateways        *)
(* (gateway-list.cpp) and the statistics services.  The thread of the      *)
(* packet queue reads the addresses while the listener writes them.        *)
(*                                                                         *)
(* A datagram is [tag, size, version, gw, from, sock, json, stat, rx,      *)
(* rxpk, txpk]: what its fields hold as far as the parser tells apart.  rx *)
(* is "absent", "other" (not an array) or "array", rxpk the kinds of the   *)
(* elements; txpk is "absent", "other" or a kind.                          *)
(***************************************************************************)
EXTENDS StatService

CONSTANTS LsDatagrams,  \* datagrams that may arrive
          LsMax,        \* bound on the datagrams that arrive
          LsKnown       \* gateways in the gateway list

FrameKinds == {"data", "data18", "join", "badjoin", "mic", "other"}

ASSUME LsAssumption == LsMax \in Nat /\ \A d \in LsDatagrams : d.rxpk \in Seq(FrameKinds)

VARIABLES lsPc, lsWork,         \* where parseBuffer() is; what it works on
          lsGot,                \* the datagrams received
          lsPut, lsJoin,        \* <<datagram, frame>> given to put(), to join()
          lsAcked,              \* datagrams acknowledged
          lsGateways,           \* sockaddr and socket by gateway
          lsPulled,             \* addresses that sent PULL_DATA, by gateway
          lsSender, lsSent      \* the packet queue: gateway found; what was sent

lsOwn == <<lsPc, lsWork, lsGot, lsPut, lsJoin, lsAcked, lsGateways, lsPulled, lsSender, lsSent>>
lsVars == <<lsPc, lsWork, lsGot, lsPut, lsJoin, lsAcked, lsGateways, lsPulled, lsSender, lsSent, stVars>>

NoGateway == "none"
NoSent == [gw |-> NoGateway]
Unset == [addr |-> "unset", socket |-> 0]
NoWork == [rc |-> "LORA_OK", packets |-> <<>>, stat |-> FALSE, todo |-> 0]

-----------------------------------------------------------------------------
(***************************************************************************)
(* parsePrefixGw() and parse().  A frame that is neither data nor a join   *)
(* is left out, and the code of the last frame is the answer.              *)
(***************************************************************************)
parsePrefixGw(d) ==
    IF d.size \in {"none", "prefix4"} THEN "PACKET_TOO_SHORT"
    ELSE IF d.version # 2 THEN "INVALID_PROTOCOL_VERSION" ELSE "LORA_OK"

FrameCode(kind) == CASE kind \in {"data", "data18"} -> "LORA_OK"
                     [] kind \in {"join", "badjoin"} -> "IS_JOIN"
                     [] OTHER -> "INVALID_MIC"
\* The elements of a vector at some places, in their order.
Ascending(S) ==
    CHOOSE s \in [1 .. Cardinality(S) -> S] : \A i, j \in DOMAIN s : i < j => s[i] < s[j]
Only(seq, S) == [n \in 1 .. Cardinality(S) |-> seq[Ascending(S)[n]]]
Kept(frames) == Only([i \in DOMAIN frames |-> <<i, frames[i]>>],
                     {i \in DOMAIN frames : FrameCode(frames[i]) \in {"LORA_OK", "IS_JOIN"}})
FramesBefore(frames, i) == SubSeq(frames, 1, i - 1)

\* Mutant: the first frame with a wrong MIC ends the loop.
parseRxpkStops(frames) ==
    LET bad == SelectInSeq(frames, LAMBDA k : FrameCode(k) = "INVALID_MIC")
    IN IF frames = <<>> THEN [rc |-> "LORA_OK", packets |-> <<>>]
       ELSE IF bad = 0 THEN [rc |-> FrameCode(Last(frames)), packets |-> Kept(frames)]
       ELSE [rc |-> "INVALID_MIC", packets |-> Kept(FramesBefore(frames, bad))]
parseRxpk(frames) ==
    LET other == SelectInSeq(frames, LAMBDA k : k = "other")
    IN IF other # 0
       THEN [rc |-> "INVALID_JSON", packets |-> Kept(FramesBefore(frames, other))]
       ELSE [rc |-> IF frames = <<>> THEN "LORA_OK" ELSE FrameCode(Last(frames)),
             packets |-> Kept(frames)]

parseTxpk(kind) ==
    IF kind = "other" THEN [rc |-> "INVALID_JSON", packets |-> <<>>]
    ELSE [rc |-> FrameCode(kind), packets |-> Kept(<<kind>>)]

Fails(rc) == [rc |-> rc, packets |-> <<>>, stat |-> FALSE]
WithStat(d, r) == [rc |-> r.rc, packets |-> r.packets, stat |-> d.stat = "good"]
parseDatagram(d) ==
    IF parsePrefixGw(d) # "LORA_OK" THEN Fails(parsePrefixGw(d))
    ELSE IF d.size = "prefix12" THEN Fails("PING")
    ELSE IF ~d.json THEN Fails("INVALID_JSON")
    ELSE IF d.stat = "bad" THEN Fails("INVALID_STAT")
    ELSE IF d.rx = "other" THEN WithStat(d, Fails("INVALID_JSON"))
    ELSE IF d.rx = "array" THEN WithStat(d, parseRxpk(d.rxpk))
    ELSE IF d.txpk # "absent" THEN WithStat(d, parseTxpk(d.txpk))
    ELSE WithStat(d, Fails("LORA_OK"))

(***************************************************************************)
(* join() takes a packet whose payload has the size of a Join Request.     *)
(***************************************************************************)
joinAccepts(kind) == kind \in {"join", "data18"}

Ignored == {"IS_JOIN", "PACKET_TOO_SHORT", "INVALID_PROTOCOL_VERSION",
            "NO_GATEWAY_STAT", "INVALID_STAT", "INVALID_PACKET", "INVALID_JSON", "PULLOUT"}

-----------------------------------------------------------------------------
LsInit ==
    /\ StInit
    /\ lsPc = "select" /\ lsWork = NoWork /\ lsGot = <<>>
    /\ lsPut = <<>> /\ lsJoin = <<>> /\ lsAcked = {}
    /\ lsGateways = [g \in LsKnown |-> Unset]
    /\ lsPulled = [g \in LsKnown |-> {}]
    /\ lsSender = NoGateway /\ lsSent = NoSent

Arrives(d) ==
    /\ ~stExited /\ lsPc = "select" /\ Len(lsGot) < LsMax
    /\ lsGot' = Append(lsGot, d)

Number == Len(lsGot) + 1

\* SEMTECH_GW_PUSH_DATA: parse, acknowledge, and give a join to join().
PushData(d) ==
    /\ Arrives(d) /\ d.tag = "PUSH_DATA" /\ d.size # "none"
    /\ LET r == parseDatagram(d)
       IN /\ lsWork' = [rc |-> r.rc, packets |-> r.packets, stat |-> r.stat, todo |-> Len(r.packets)]
          /\ lsAcked' = IF r.rc \in {"LORA_OK", "IS_JOIN"} THEN lsAcked \cup {Number} ELSE lsAcked
          /\ lsJoin' = IF r.rc = "IS_JOIN" /\ r.packets # <<>> /\ joinAccepts(Head(r.packets)[2])
                       THEN Append(lsJoin, <<Number, Head(r.packets)[1]>>) ELSE lsJoin
    /\ lsPc' = "dump"
    /\ UNCHANGED <<lsPut, lsGateways, lsPulled, lsSender, lsSent, stVars>>

\* SEMTECH_GW_PULL_DATA: acknowledge; setSocketAddress() copies the address of
\* a gateway it knows and then, a step later, sets the socket.  Port and IPv4
\* address lie in the first eight bytes, which are moved at once.
\* Mutant: the socket is set first.
PullDataSocketFirst(d) ==
    /\ Arrives(d) /\ d.tag = "PULL_DATA" /\ parsePrefixGw(d) = "LORA_OK"
    /\ lsAcked' = lsAcked \cup {Number}
    /\ d.gw \in LsKnown
    /\ lsPulled' = [lsPulled EXCEPT ![d.gw] = @ \cup {d.from}]
    /\ lsGateways' = [lsGateways EXCEPT ![d.gw].socket = d.sock]
    /\ lsPc' = "socket"
    /\ UNCHANGED <<lsWork, lsPut, lsJoin, lsSender, lsSent, stVars>>
PullData(d) ==
    /\ Arrives(d) /\ d.tag = "PULL_DATA" /\ parsePrefixGw(d) = "LORA_OK"
    /\ lsAcked' = lsAcked \cup {Number}
    /\ \/ /\ d.gw \in LsKnown
          /\ lsPulled' = [lsPulled EXCEPT ![d.gw] = @ \cup {d.from}]
          /\ lsGateways' = [lsGateways EXCEPT ![d.gw].addr = d.from]
          /\ lsPc' = "socket"
       \/ d.gw \notin LsKnown /\ UNCHANGED <<lsPulled, lsGateways, lsPc>>
    /\ UNCHANGED <<lsWork, lsPut, lsJoin, lsSender, lsSent, stVars>>
SetSocket ==
    /\ ~stExited /\ lsPc = "socket"
    /\ LET d == Last(lsGot)
       IN lsGateways' = [lsGateways EXCEPT ![d.gw] = [addr |-> d.from, socket |-> d.sock]]
    /\ lsPc' = "select"
    /\ UNCHANGED <<lsWork, lsGot, lsPut, lsJoin, lsAcked, lsPulled, lsSender, lsSent, stVars>>

\* TX_ACK is logged, everything else refused.
OtherDatagram(d) ==
    /\ Arrives(d)
    /\ \/ d.size = "none"
       \/ d.tag \notin {"PUSH_DATA", "PULL_DATA"}
       \/ d.tag = "PULL_DATA" /\ parsePrefixGw(d) # "LORA_OK"
    /\ UNCHANGED <<lsPc, lsWork, lsPut, lsJoin, lsAcked, lsGateways, lsPulled, lsSender, lsSent, stVars>>

(***************************************************************************)
(* The rest of parseBuffer(): every packet is put into the device          *)
(* statistics; data packets are given to put(); the gateway statistics     *)
(* follow.                                                                 *)
(***************************************************************************)
DumpDevice ==
    /\ lsPc = "dump" /\ lsWork.todo > 0
    /\ \/ (PutFlushes("device") \/ PutFlushed("device")) /\ UNCHANGED lsWork
       \/ /\ Len(stList["device"]) <= StBuffer /\ PutAdds("device")
          /\ lsWork' = [lsWork EXCEPT !.todo = @ - 1]
    /\ UNCHANGED <<lsPc, lsGot, lsPut, lsJoin, lsAcked, lsGateways, lsPulled, lsSender, lsSent>>

DataPackets(packets) == Only(packets, {i \in DOMAIN packets : FrameCode(packets[i][2]) = "LORA_OK"})
HandlePackets ==
    /\ ~stExited /\ lsPc = "dump" /\ lsWork.todo = 0
    /\ \/ lsWork.rc \in Ignored /\ lsPc' = "select" /\ UNCHANGED lsPut
       \/ /\ lsWork.rc \notin Ignored
          /\ LET n == Len(lsGot)
                 data == DataPackets(lsWork.packets)
             IN lsPut' = lsPut \o [i \in DOMAIN data |-> <<n, data[i][1]>>]
          /\ lsPc' = IF lsWork.stat THEN "reflect" ELSE "select"
    /\ UNCHANGED <<lsWork, lsGot, lsJoin, lsAcked, lsGateways, lsPulled, lsSender, lsSent, stVars>>

ReflectStat ==
    /\ lsPc = "reflect"
    /\ \/ (PutFlushes("gateway") \/ PutFlushed("gateway")) /\ UNCHANGED lsPc
       \/ /\ Len(stList["gateway"]) <= StBuffer /\ PutAdds("gateway")
          /\ lsPc' = "select"
    /\ UNCHANGED <<lsWork, lsGot, lsPut, lsJoin, lsAcked, lsGateways, lsPulled, lsSender, lsSent>>

(***************************************************************************)
(* SIGINT runs done() in the handler, wherever it interrupts the listener: *)
(* in a put() between the copy of the list and the append, too.  Inside    *)
(* the lock done() waits for itself, and Close is never taken.  Any other  *)
(* signal but SIGUSR2 makes a select() that waits and listen() return, and *)
(* done() follows.                                                         *)
(***************************************************************************)
Interrupted ==
    /\ ~stExited /\ lsPc # "closing" /\ lsPc' = "closing"
    /\ UNCHANGED <<lsWork, lsGot, lsPut, lsJoin, lsAcked, lsGateways, lsPulled, lsSender, lsSent, stVars>>
Close ==
    /\ lsPc = "closing"
    /\ CloserTakes \/ CloserWrites \/ CloserExits
    /\ UNCHANGED lsOwn

(***************************************************************************)
(* The thread of the packet queue replies: it finds the gateway, sees that *)
(* it has a socket, and later reads both for sendto().                     *)
(***************************************************************************)
SenderFinds(g) ==
    /\ ~stExited /\ lsPc # "closing" /\ lsSender = NoGateway
    /\ lsGateways[g].socket # 0 /\ lsSender' = g
    /\ UNCHANGED <<lsPc, lsWork, lsGot, lsPut, lsJoin, lsAcked, lsGateways, lsPulled, lsSent, stVars>>
SenderSends ==
    /\ ~stExited /\ lsSender # NoGateway
    /\ lsSent' = [gw |-> lsSender, to |-> lsGateways[lsSender]]
    /\ lsSender' = NoGateway
    /\ UNCHANGED <<lsPc, lsWork, lsGot, lsPut, lsJoin, lsAcked, lsGateways, lsPulled, stVars>>

StatRunner(s) == (RunnerTakes(s) \/ RunnerWrites(s)) /\ UNCHANGED lsOwn

LsNext ==
    \/ \E d \in LsDatagrams : PushData(d) \/ PullData(d) \/ OtherDatagram(d)
    \/ SetSocket \/ DumpDevice \/ HandlePackets \/ ReflectStat
    \/ Interrupted \/ Close
    \/ \E g \in LsKnown : SenderFinds(g)
    \/ SenderSends
    \/ \E s \in StServices : StatRunner(s)

(***************************************************************************)
(* The threads of the statistics services are scheduled, and the listener  *)
(* goes on with the datagram it has begun.                                 *)
(***************************************************************************)
LsFairness ==
    /\ \A s \in StServices : WF_lsVars(RunnerTakes(s) /\ UNCHANGED lsOwn)
                             /\ WF_lsVars(RunnerWrites(s) /\ UNCHANGED lsOwn)
    /\ WF_lsVars(DumpDevice) /\ WF_lsVars(ReflectStat)
LsSpec == LsInit /\ [][LsNext]_lsVars /\ LsFairness

-----------------------------------------------------------------------------
WellFormed(d) ==
    /\ d.tag = "PUSH_DATA" /\ d.size = "full" /\ d.version = 2 /\ d.json
    /\ d.stat # "bad" /\ d.rx = "array"
    /\ \A i \in DOMAIN d.rxpk : d.rxpk[i] # "other"
Data(d) == {i \in DOMAIN d.rxpk : FrameCode(d.rxpk[i]) = "LORA_OK"}
HandedOn(n) == {i \in DOMAIN lsGot[n].rxpk : <<n, i>> \in ToSet(lsPut)}
ValidFramesHandedOn(D(_)) ==
    lsPc = "select" =>
        \A n \in DOMAIN lsGot :
            WellFormed(lsGot[n]) /\ D(lsGot[n]) => HandedOn(n) = Data(lsGot[n])

\* A valid data frame that comes with frames whose MIC is wrong is given to
\* the packet processor, and nothing is given to it twice ("ignore invalid
\* mic, inconsistent packet removed, json can contain other valid packets").
WrongMicCostsNoOther ==
    /\ ValidFramesHandedOn(LAMBDA d : \A i \in DOMAIN d.rxpk : FrameCode(d.rxpk[i]) # "IS_JOIN")
    /\ IsInjective(lsPut)

\* Violated: a valid data frame that comes with any other frames is given to
\* the packet processor.
EveryValidFrameHandedOn == ValidFramesHandedOn(LAMBDA d : TRUE)

\* A reply goes to an address from which the gateway has sent PULL_DATA, also
\* when the listener is writing the address while it is sent.
ReplyToPulledAddress ==
    lsSent # NoSent => lsSent.to.addr \in lsPulled[lsSent.gw]

\* Every statistics entry (of the first LsMax) is given to the file or to the
\* web server at last, which may fail, unless the process ends: no entry stays
\* in the list when no other follows.
StatsTried ==
    \A s \in StServices : \A x \in 1 .. LsMax :
        x \in UnderWay(s) ~> (x \in Tried(s) \/ lsPc = "closing")
=============================================================================
