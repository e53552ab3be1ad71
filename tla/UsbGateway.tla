----------------------------- MODULE UsbGateway -----------------------------
(***************************************************************************)
(* The gateway in the process (lora-gateway-listener.cpp, usb-listener.cpp,*)
(* lorawan-gateway.cpp): the threads that fetch packets from the           *)
(* concentrator, transmit packets of the just-in-time queues and scan the  *)
(* spectrum share the concentrator under one mutex; start() and stop()     *)
(* count on one flag of each thread.  Nothing sets the member gpsEnabled   *)
(* of the listener, so that the GPS threads are not started and the thread *)
(* for the beacons returns at once.  The concentrator and the just-in-time *)
(* queues are libraries.                                                   *)
(***************************************************************************)
EXTENDS Integers, FiniteSets, SequencesExt

CONSTANTS UgFetches,    \* fetches: sequences of [status, readable]
          UgForward,    \* statuses that are forwarded: "ok", "bad", "nocrc"
          UgLut,        \* powers in the gain table of a chain
          UgPowers,     \* powers asked for, the antenna gain subtracted
          UgMaxRx,      \* bound on the packets fetched
          UgMaxTx       \* bound on the packets to transmit

\* Powers are int8_t, in the table and in a packet.
UgPower == -128 .. 127

ASSUME UgAssumption ==
    /\ UgMaxRx \in Nat /\ UgMaxTx \in Nat
    /\ UgLut \in Seq(UgPower) /\ UgLut # <<>>
    /\ UgPowers \subseteq UgPower

UgChains == {0, 1}
UgThreads == {"upstream", "beacon", "jit", "scan"}

VARIABLES ugBeacon,             \* beacons are allowed: FLAG_GATEWAY_LISTENER_NO_BEACON is not set
          ugMain,               \* main thread: "start", "listen", "stop", "end"
          ugStopRequest, ugFlag,    \* stopRequest; the ...ThreadRunning
          ugThread,             \* where the threads are
          ugStopper, ugSuccess, \* thread in stop(); what stop() tells
          ugUp, ugScan, ugTx,   \* concentrator: started, scanning, TX_STATUS by chain
          ugBlind,              \* a status was not read or a scan not aborted
          ugSeenTx,             \* tx_status of spectralScanRunner()
          ugMeta, ugPayload,    \* metadata and payload of upstreamRunner()
          ugFetched, ugForwarded, ugHanded, \* packets read, meas_up_pkt_fwd, given to put()
          ugQueue, ugSending, ugCount       \* jit_queue; packet of jitRunner(); packets queued

ugUpstream == <<ugMeta, ugPayload, ugFetched, ugForwarded, ugHanded>>
ugDown == <<ugQueue, ugSending, ugCount>>
ugControl == <<ugBeacon, ugMain, ugStopRequest, ugFlag, ugStopper, ugSuccess, ugUp>>
ugRadio == <<ugScan, ugTx, ugBlind, ugSeenTx>>
ugVars == <<ugControl, ugThread, ugRadio, ugUpstream, ugDown>>

NoTx == [id |-> 0, chain |-> 0, asked |-> 0, power |-> 0]
UgBusy == {"scheduled", "emitting"}

UgInit ==
    /\ ugBeacon \in BOOLEAN /\ ugMain = "start"
    /\ ugStopRequest = FALSE /\ ugFlag = [t \in UgThreads |-> FALSE]
    /\ ugThread = [t \in UgThreads |-> "none"]
    /\ ugStopper = "none" /\ ugSuccess = FALSE
    /\ ugUp = FALSE /\ ugScan = FALSE /\ ugTx = [c \in UgChains |-> "free"]
    /\ ugBlind = FALSE /\ ugSeenTx = "free"
    /\ ugMeta = 0 /\ ugPayload = 0 /\ ugFetched = 0 /\ ugForwarded = 0 /\ ugHanded = <<>>
    /\ ugQueue = [c \in UgChains |-> <<>>] /\ ugSending = NoTx /\ ugCount = 0

-----------------------------------------------------------------------------
(***************************************************************************)
(* start(): setup() and lgw_start() may fail; the flags are set before the *)
(* threads run.                                                            *)
(***************************************************************************)
setup == ugMain = "start" /\ ~ugUp
StartFails ==
    /\ setup /\ ugMain' = "end"
    /\ UNCHANGED <<ugBeacon, ugStopRequest, ugFlag, ugStopper, ugSuccess, ugUp,
                   ugThread, ugRadio, ugUpstream, ugDown>>
StartGateway ==
    /\ setup /\ ugMain' = "listen" /\ ugUp' = TRUE
    /\ LET started == IF ugBeacon THEN UgThreads ELSE UgThreads \ {"beacon"}
       IN /\ ugFlag' = [t \in UgThreads |-> t \in started]
          /\ ugThread' = [t \in UgThreads |-> IF t \in started THEN "loop" ELSE "none"]
    /\ UNCHANGED <<ugBeacon, ugStopRequest, ugStopper, ugSuccess, ugRadio, ugUpstream, ugDown>>

Goes(t, from, to) == ugThread[t] = from /\ ugThread' = [ugThread EXCEPT ![t] = to]
Clears(t) == ugFlag' = [ugFlag EXCEPT ![t] = FALSE]

\* while (!stopRequest) ends: the thread clears its flag.
RunnerEnds(t) ==
    /\ t # "beacon" /\ ugStopRequest /\ Goes(t, "loop", "gone") /\ Clears(t)
    /\ UNCHANGED <<ugBeacon, ugMain, ugStopRequest, ugStopper, ugSuccess, ugUp,
                   ugRadio, ugUpstream, ugDown>>

\* Without GPS the thread for the beacons returns and leaves its flag.
downstreamBeaconRunner ==
    /\ Goes("beacon", "loop", "gone")
    /\ UNCHANGED <<ugControl, ugRadio, ugUpstream, ugDown>>

-----------------------------------------------------------------------------
(***************************************************************************)
(* upstreamRunner(): the packets of a fetch are read into one metadata and *)
(* one payload, which live as long as the thread, and handed on once.  A   *)
(* packet whose modulation is not known leaves its metadata behind.        *)
(***************************************************************************)
serialize(s, p) ==
    IF p.status \notin UgForward THEN [s EXCEPT !.id = @ + 1]
    ELSE [id |-> s.id + 1, meta |-> s.id, fwd |-> s.fwd + 1,
          payload |-> IF p.readable THEN s.id ELSE s.payload,
          n |-> IF p.readable THEN s.n + 1 ELSE s.n]

upstreamRunner(fetch) ==
    /\ ugThread["upstream"] = "loop" /\ ~ugStopRequest
    /\ ugFetched + Len(fetch) <= UgMaxRx
    /\ LET s == FoldLeft(serialize, [id |-> ugFetched + 1, meta |-> ugMeta, payload |-> ugPayload,
                                     fwd |-> ugForwarded, n |-> 0], fetch)
       IN /\ ugMeta' = s.meta /\ ugPayload' = s.payload
          /\ ugFetched' = ugFetched + Len(fetch) /\ ugForwarded' = s.fwd
          /\ ugHanded' = IF s.n = 0 THEN ugHanded ELSE Append(ugHanded, <<s.meta, s.payload>>)
    /\ UNCHANGED <<ugControl, ugThread, ugRadio, ugDown>>

\* LGW_HAL_ERROR: the thread calls stop() itself, and its flag stays, also when
\* somebody has called stop() before.
FetchFails ==
    /\ ~ugStopRequest /\ Goes("upstream", "loop", "stop")
    /\ ugStopRequest' = TRUE /\ ugStopper' = "upstream"
    /\ UNCHANGED <<ugBeacon, ugMain, ugFlag, ugSuccess, ugUp, ugRadio, ugUpstream, ugDown>>

FetchFailsStopping ==
    /\ ugStopRequest /\ Goes("upstream", "loop", "failed")
    /\ UNCHANGED <<ugControl, ugRadio, ugUpstream, ugDown>>

-----------------------------------------------------------------------------
(***************************************************************************)
(* getTxGainLutIndex(): the closest power that is not above the one asked  *)
(* for; the first entry when there is none.                                *)
(***************************************************************************)
NoMatch == [best |-> 0, diff |-> 255]
\* What the loop knows after entry n, when it knew m before: a match is kept as
\* a uint8_t.
better(m, n, power) ==
    LET diff == power - UgLut[n]
    IN IF diff >= 0 /\ (m.best = 0 \/ diff < m.diff)
       THEN [best |-> n, diff |-> diff % 256] ELSE m
\* Mutant: the closest power, above or below.
getTxGainLutIndexNearest(power) ==
    LET away(i) == IF power < UgLut[i] THEN UgLut[i] - power ELSE power - UgLut[i]
    IN CHOOSE i \in DOMAIN UgLut : \A k \in DOMAIN UgLut : away(i) <= away(k)
getTxGainLutIndex(power) ==
    LET match[n \in 0 .. Len(UgLut)] ==
            IF n = 0 THEN NoMatch ELSE better(match[n - 1], n, power)
        found == match[Len(UgLut)].best
    IN IF found = 0 THEN 1 ELSE found

\* enqueueTxPacket() of a packet to be sent at once or at a time stamp; every
\* packet for a GPS time is refused, and a full queue refuses any.
enqueueTxPacket(chain, power) ==
    /\ ugMain = "listen" /\ ugUp /\ ugCount < UgMaxTx
    /\ ugCount' = ugCount + 1
    /\ ugQueue' = [ugQueue EXCEPT ![chain] =
                      Append(@, [id |-> ugCount + 1, chain |-> chain, asked |-> power,
                                 power |-> UgLut[getTxGainLutIndex(power)]])]
    /\ UNCHANGED <<ugControl, ugThread, ugRadio, ugUpstream, ugSending>>

(***************************************************************************)
(* jitRunner(): a packet that is due is dequeued; when the concentrator is *)
(* emitting it is dropped; otherwise a scan is aborted and the packet sent *)
(* under one lock.                                                         *)
(***************************************************************************)
JitDequeues(chain) ==
    /\ Goes("jit", "loop", "status") /\ ~ugStopRequest
    /\ ugQueue[chain] # <<>>
    /\ ugSending' = Head(ugQueue[chain]) /\ ugQueue' = [ugQueue EXCEPT ![chain] = Tail(@)]
    /\ UNCHANGED <<ugControl, ugRadio, ugUpstream, ugCount>>
JitAsksStatus ==
    /\ ugThread["jit"] = "status"
    /\ \/ /\ ugTx[ugSending.chain] = "emitting" /\ Goes("jit", "status", "loop") /\ ugSending' = NoTx
       \/ /\ ugTx[ugSending.chain] # "emitting" /\ Goes("jit", "status", "send") /\ UNCHANGED ugSending
       \/ Goes("jit", "status", "send") /\ UNCHANGED ugSending          \* LGW_HAL_ERROR
    /\ UNCHANGED <<ugControl, ugRadio, ugUpstream, ugQueue, ugCount>>
\* Mutant: the scan is not aborted.
JitSendsOverScan ==
    /\ Goes("jit", "send", "loop") /\ ugSending' = NoTx
    /\ ugTx' = [ugTx EXCEPT ![ugSending.chain] = "scheduled"]
    /\ UNCHANGED <<ugScan, ugBlind, ugControl, ugSeenTx, ugUpstream, ugQueue, ugCount>>
JitSends ==
    /\ Goes("jit", "send", "loop") /\ ugSending' = NoTx
    /\ \/ ugScan' = FALSE /\ UNCHANGED ugBlind
       \/ ugScan /\ ugBlind' = TRUE /\ UNCHANGED ugScan                 \* abort failed
    /\ \/ ugUp /\ ugTx' = [ugTx EXCEPT ![ugSending.chain] = "scheduled"]
       \/ UNCHANGED ugTx                                                \* lgw_send failed
    /\ UNCHANGED <<ugControl, ugSeenTx, ugUpstream, ugQueue, ugCount>>

(***************************************************************************)
(* spectralScanRunner(): the chains are asked in their order until one is  *)
(* busy; the answer to a call that fails is the one before.                *)
(***************************************************************************)
asked(fails) ==
    LET ask(seen, c) == IF seen \in UgBusy /\ c > 0 /\ 0 \notin fails THEN seen
                        ELSE IF c \in fails THEN seen ELSE ugTx[c]
    IN ask(ask(ugSeenTx, 0), 1)
ScanStarts ==
    /\ ugThread["scan"] = "loop" /\ ~ugStopRequest
    /\ \E fails \in SUBSET UgChains :
          /\ ugSeenTx' = asked(fails)
          /\ ugBlind' = (ugBlind \/ fails # {})
    /\ \/ ugSeenTx' \notin UgBusy /\ ugScan' = TRUE /\ Goes("scan", "loop", "wait")
       \/ UNCHANGED <<ugScan, ugThread>>        \* busy, or the scan does not start
    /\ UNCHANGED <<ugControl, ugTx, ugUpstream, ugDown>>
\* The scan is done or aborted, its status cannot be read, or two seconds are over.
ScanWaited ==
    /\ Goes("scan", "wait", "loop")
    /\ UNCHANGED <<ugControl, ugRadio, ugUpstream, ugDown>>

\* The concentrator on its own.
Radio ==
    /\ ugUp
    /\ \/ ugScan' = FALSE /\ UNCHANGED ugTx
       \/ \E c \in UgChains :
             /\ ugTx[c] \in UgBusy
             /\ ugTx' = [ugTx EXCEPT ![c] = IF @ = "scheduled" THEN "emitting" ELSE "free"]
             /\ UNCHANGED ugScan
    /\ UNCHANGED <<ugControl, ugThread, ugBlind, ugSeenTx, ugUpstream, ugDown>>

-----------------------------------------------------------------------------
(***************************************************************************)
(* stop(): SIGINT makes the main thread call it, or the thread that cannot *)
(* fetch.  It looks at the flags sixty times, and a second passes whenever *)
(* one of them is set; then it stops the concentrator, whoever is left.    *)
(***************************************************************************)
GatewaySigint ==
    /\ ugMain = "listen" /\ ugMain' = "stop"
    /\ ugStopRequest' = TRUE
    /\ ugStopper' = IF ugStopRequest THEN ugStopper ELSE "main"     \* stop() refuses a second call
    /\ UNCHANGED <<ugBeacon, ugFlag, ugSuccess, ugUp, ugThread, ugRadio, ugUpstream, ugDown>>

\* Mutant: the flag of the thread that scans is forgotten.
isStoppedButScan == \A t \in UgThreads \ {"scan"} : ~ugFlag[t]
isStopped == \A t \in UgThreads : ~ugFlag[t]
Polled ==
    /\ ugStopper # "none" /\ ugUp /\ isStopped
    /\ ugSuccess' = TRUE
    /\ UNCHANGED <<ugBeacon, ugMain, ugStopRequest, ugFlag, ugStopper, ugUp,
                   ugThread, ugRadio, ugUpstream, ugDown>>
StopGateway(lgwStopped) ==
    /\ ugStopper # "none" /\ ugUp
    /\ ugUp' = FALSE /\ ugSuccess' = (ugSuccess /\ lgwStopped)
    /\ ugFlag' = [t \in UgThreads |-> FALSE]
    /\ ugThread' = IF ugStopper = "upstream" THEN [ugThread EXCEPT !["upstream"] = "gone"] ELSE ugThread
    /\ UNCHANGED <<ugBeacon, ugMain, ugStopRequest, ugStopper, ugRadio, ugUpstream, ugDown>>

\* listen() returns when isStopped(), done() deletes the listener.
GatewayListenReturns ==
    /\ \/ ugMain = "listen" /\ isStopped
       \/ ugMain = "stop" /\ (ugStopper = "upstream" \/ ~ugUp)
    /\ ugMain' = "end"
    /\ UNCHANGED <<ugBeacon, ugStopRequest, ugFlag, ugStopper, ugSuccess, ugUp,
                   ugThread, ugRadio, ugUpstream, ugDown>>

UgNext ==
    \/ StartFails \/ StartGateway \/ downstreamBeaconRunner
    \/ \E t \in UgThreads : RunnerEnds(t)
    \/ \E f \in UgFetches : upstreamRunner(f)
    \/ FetchFails \/ FetchFailsStopping
    \/ \E c \in UgChains, p \in UgPowers : enqueueTxPacket(c, p)
    \/ \E c \in UgChains : JitDequeues(c)
    \/ JitAsksStatus \/ JitSends \/ ScanStarts \/ ScanWaited \/ Radio
    \/ GatewaySigint \/ Polled \/ GatewayListenReturns
    \/ \E ok \in BOOLEAN : StopGateway(ok)

UgSpec == UgInit /\ [][UgNext]_ugVars

-----------------------------------------------------------------------------
\* The spectrum is not scanned while a packet is scheduled or emitted: the
\* threads check, abort, start and send under the same mutex.
NoScanWhileSending == ugScan /\ ~ugBlind => \A c \in UgChains : ugTx[c] \notin UgBusy

\* When stop() tells success ("Gateway shutdown successfully"), every thread has
\* left its loop and uses the concentrator no more, whichever of them asked for
\* the stop, whatever failed before and however long the threads take.
SuccessMeansAllGone == ugSuccess => \A t \in UgThreads : ugThread[t] \in {"none", "gone"}

\* A queued packet has the largest power of the table that is not above the
\* power asked for, if the table has one ("use the closest lower power
\* supported").
PowerIsClosestLower ==
    \A c \in UgChains : \A p \in ToSet(ugQueue[c]) :
        LET lower == {x \in ToSet(UgLut) : x <= p.asked}
        IN lower # {} => p.power \in lower /\ \A x \in lower : x <= p.power

\* Violated: as many packets are handed to the server as are counted as
\* forwarded.
ForwardedAreHandedOn == ugForwarded = Len(ugHanded)
=============================================================================
