---------------------------- MODULE ServerProofs ----------------------------
(***************************************************************************)
(* The services that MCServer runs side by side.  The threads: the server  *)
(* process outlives the thread of its packet queue and delivers nothing    *)
(* after the flush; the threads of the USB gateway exclude each other at   *)
(* the concentrator, end before it does, and send with the power asked for *)
(* or the next below.  The files: what the receiver queue in a directory   *)
(* and the identity services do not lose, for any number of payloads and   *)
(* formats, devices, addresses and files.  The listener with the           *)
(* statistics services: no statistics entry is lost or doubled by the      *)
(* three threads that save, replies go where the gateway has asked from,   *)
(* and the data of a datagram are handed on once, for any datagrams,       *)
(* gateways and buffers.                                                   *)
(***************************************************************************)
EXTENDS ServerProcess, UsbGateway, DirectoryQueue, Identities, Listener, OrderLemmas

(***************************************************************************)
(* The server process.                                                     *)
(***************************************************************************)
SpPcs == {"init", "inited", "run", "listen", "locked", "pqStop", "pqWait",
          "rqStop", "rqWait", "flush", "stuck", "exited", "crashed"}

\* The program counters, the modes and the counters hold values of the types
\* they model.
SpTypeOK ==
    /\ spPc \in SpPcs
    /\ spPc = "init" => spStep \in 1 .. 9
    /\ pqMode \in {-1, 0, 1} /\ pqSeen \in {-1, 0, 1}
    /\ pqThread \in {"none", "new", "loop", "lost", "gone"}
    /\ rqThread \in {"none", "new", "check", "work", "gone"}
    /\ spDelivered \in Nat /\ spSaved \in Nat \cup {Unflushed}

\* There is one thread, and mode of the packet queue follows it; a thread that
\* stop() has seen running is asked to end and waited for.
PqInv ==
    /\ spPc = "init" /\ spStep <= 8 => pqThread = "none"
    /\ pqThread \in {"none", "new", "gone"} => pqMode = 0
    /\ pqThread = "loop" => pqMode # 0
    /\ spPc \in {"init", "inited", "run", "listen", "locked", "pqStop"} => pqSeen = 0
    /\ pqSeen = 1 => /\ pqThread # "new"
                     /\ pqThread = "loop" => pqMode = -1 /\ spPc \in {"pqWait", "stuck"}

\* isDone is false while the thread of the receiver queue may work, from its
\* beginning on; once it was asked to end it does not turn to work again.
RqInv ==
    /\ rqThread \in {"check", "work"} => ~rqIsDone
    /\ spPc \in {"init", "inited", "run"} => rqThread = "none"
    /\ spPc \notin {"rqWait", "flush", "stuck", "exited"} =>
          rqStarted \/ rqThread = "none"
    /\ spPc \in {"rqWait", "flush"} => ~rqStarted
    /\ spPc = "flush" => rqThread # "work"
    /\ spSaved # Unflushed => /\ spPc \in {"flush", "stuck", "exited"}
                              /\ ~rqStarted /\ rqThread # "work"
                              /\ spDelivered = spSaved

SpInv == SpTypeOK /\ PqInv /\ RqInv

LEMMA SpInitInv == SpInit => SpInv
<1>1. SpInit => SpTypeOK
  BY DEF SpInit, SpTypeOK, SpPcs, Unflushed
<1>2. SpInit => PqInv
  BY DEF SpInit, PqInv
<1>3. SpInit => RqInv
  BY DEF SpInit, RqInv
<1> QED
  BY <1>1, <1>2, <1>3 DEF SpInv

LEMMA SpNextInv == SpInv /\ [SpNext]_spVars => SpInv'
<1> SUFFICES ASSUME SpInv, [SpNext]_spVars PROVE SpInv'
  OBVIOUS
<1> USE DEF SpInv, SpTypeOK, PqInv, RqInv, SpPcs, Unflushed, pqVars, rqVars, configVars
<1>1. ASSUME NEW step, InitDoes(step) PROVE SpInv'
  <2>1. spPc = "init" /\ spStep \in 1 .. 9 /\ InitSteps[spStep] = step /\ spStep' = spStep + 1
    BY <1>1 DEF InitDoes
  <2>2. /\ step = "processor" => spStep = 8
        /\ step = "interface" <=> spStep = 9
    BY <2>1 DEF InitSteps
  <2>3. CASE step = "processor"
    BY <1>1, <2>1, <2>2, <2>3 DEF InitDoes
  <2>4. CASE step = "interface"
    BY <1>1, <2>1, <2>2, <2>4 DEF InitDoes
  <2>5. CASE step \notin {"processor", "interface"}
    BY <1>1, <2>1, <2>2, <2>5 DEF InitDoes
  <2> QED
    BY <2>3, <2>4, <2>5
<1>2. CASE InitOne
  BY <1>1, <1>2 DEF InitOne, InitIdentity, InitStatistics, InitHistory, InitRegional,
     InitQueue, InitPlugins, InitDatabases, InitProcessor, InitInterface
<1>3. CASE InitFails
  BY <1>3 DEF InitFails
<1>4. CASE Daemonize \/ SetSignalHandler
  BY <1>4 DEF Daemonize, SetSignalHandler
<1>5. CASE WebServiceFails \/ StartReceiverQueue
  BY <1>5 DEF WebServiceFails, StartReceiverQueue
<1>6. CASE Listening
  BY <1>6 DEF Listening, Locks, Unlocks, ListenReturns
<1>7. CASE Sigint
  BY <1>7 DEF Sigint, Closing
<1>8. CASE PqStop
  BY <1>8 DEF PqStop
<1>9. CASE PqStopped
  BY <1>9 DEF PqStopped
<1>10. CASE RqStop \/ RqStopped
  BY <1>10 DEF RqStop, RqStopped
<1>11. CASE FlushFiles \/ Exits
  BY <1>11 DEF FlushFiles, Exits
<1>12. CASE PqBegins \/ PqEnds
  BY <1>12 DEF PqBegins, PqEnds, Running
<1>13. CASE RqBegins \/ RqChecks
  BY <1>13 DEF RqBegins, RqChecks, Running
<1>14. CASE RqWorks
  BY <1>14, SpAssumption DEF RqWorks, Running
<1>15. CASE UNCHANGED spVars
  BY <1>15 DEF spVars
<1> QED
  BY <1>2, <1>3, <1>4, <1>5, <1>6, <1>7, <1>8, <1>9, <1>10, <1>11, <1>12, <1>13, <1>14,
     <1>15 DEF SpNext, Closes, PqThreadSteps, RqThreadSteps

\* The thread of the packet queue, when stop() has seen it run, is gone before
\* the receiver queue is stopped and the services are deleted, for whatever
\* the listener does and however init(), SIGINT and the daemon come about.
THEOREM QueueThreadWaitedFor == SpSpec => []QueueThreadGone
<1>1. SpInv => QueueThreadGone
  BY DEF SpInv, PqInv, QueueThreadGone
<1> QED
  BY SpInitInv, SpNextInv, <1>1, PTL DEF SpSpec

\* Nothing is delivered to a database after the queue was flushed to its file,
\* so that the next process does not deliver it again, for any number of
\* deliveries; stop() may even miss that the thread is about to begin.
THEOREM FlushComesLast == SpSpec => []NothingDeliveredAfterFlush
<1>1. SpInv => NothingDeliveredAfterFlush
  BY DEF SpInv, RqInv, NothingDeliveredAfterFlush
<1> QED
  BY SpInitInv, SpNextInv, <1>1, PTL DEF SpSpec

(***************************************************************************)
(* The USB gateway.                                                        *)
(***************************************************************************)
UgEnded == {"none", "gone", "failed"}
UgPlaces == UgEnded \cup {"loop", "stop", "status", "send", "wait"}

\* The threads and their flags.
UgTypeOK ==
    /\ ugThread \in [UgThreads -> UgPlaces]
    /\ ugFlag \in [UgThreads -> BOOLEAN]
    /\ ugSuccess \in BOOLEAN /\ ugBeacon \in BOOLEAN

\* As long as the concentrator runs, the flag of a thread is set until the
\* thread has left its loop, and a fetch that failed leaves it.  The one thread
\* that calls stop() fetches.
FlagsInv ==
    /\ ugUp = TRUE => \A t \in UgThreads : ugThread[t] \notin {"none", "gone"} => ugFlag[t] = TRUE
    /\ \A t \in UgThreads : ugThread[t] = "stop" => ugStopper = "upstream" /\ ugStopRequest = TRUE
    /\ ugStopper = "upstream" => ugThread["upstream"] \in {"stop", "gone"}
    /\ ugMain = "start" => /\ ugUp # TRUE /\ ugStopper = "none"
                           /\ \A t \in UgThreads : ugThread[t] = "none"

\* success is set by a poll that saw no flag, and no thread comes back.
StopInv ==
    ugSuccess = TRUE => /\ \A t \in UgThreads : ugThread[t] \in {"none", "gone"}
                        /\ ugMain # "start"

UgInv == UgTypeOK /\ FlagsInv /\ StopInv

LEMMA UgInitInv == UgInit => UgInv
BY DEF UgInit, UgInv, UgTypeOK, FlagsInv, StopInv, UgPlaces, UgEnded, UgThreads

LEMMA UgNextInv == UgInv /\ [UgNext]_ugVars => UgInv'
<1> SUFFICES ASSUME UgInv, [UgNext]_ugVars PROVE UgInv'
  OBVIOUS
<1> USE DEF UgInv, UgTypeOK, FlagsInv, StopInv, UgPlaces, UgEnded, UgThreads,
            ugControl, ugRadio, ugUpstream, ugDown
<1>1. CASE StartFails
  BY <1>1 DEF StartFails, setup
<1>2. CASE StartGateway
  <2>1. /\ ugMain = "start" /\ ugMain' = "listen" /\ ugUp' = TRUE /\ ugStopper' = "none"
        /\ UNCHANGED <<ugBeacon, ugSuccess>>
    BY <1>2 DEF StartGateway, setup
  <2>2. CASE ugBeacon = TRUE
    BY <1>2, <2>1, <2>2 DEF StartGateway, setup
  <2>3. CASE ugBeacon = FALSE
    <3>1. /\ ugFlag' = [t \in UgThreads |-> t # "beacon"]
          /\ ugThread' = [t \in UgThreads |-> IF t # "beacon" THEN "loop" ELSE "none"]
      BY <1>2, <2>3 DEF StartGateway
    <3> QED
      BY <2>1, <2>3, <3>1
  <2> QED
    BY <2>2, <2>3
<1>3. CASE downstreamBeaconRunner
  BY <1>3 DEF downstreamBeaconRunner, Goes
<1>4. ASSUME NEW t \in UgThreads, RunnerEnds(t) PROVE UgInv'
  BY <1>4 DEF RunnerEnds, Goes, Clears
<1>5. ASSUME NEW f \in UgFetches, upstreamRunner(f) PROVE UgInv'
  BY <1>5 DEF upstreamRunner
<1>6. CASE FetchFails
  BY <1>6 DEF FetchFails, Goes
<1>7. CASE FetchFailsStopping
  BY <1>7 DEF FetchFailsStopping, Goes
<1>8. ASSUME NEW c \in UgChains, NEW p \in UgPowers, enqueueTxPacket(c, p) PROVE UgInv'
  BY <1>8 DEF enqueueTxPacket
<1>9. ASSUME NEW c \in UgChains, JitDequeues(c) PROVE UgInv'
  BY <1>9 DEF JitDequeues, Goes
<1>10. CASE JitAsksStatus
  <2>1. CASE Goes("jit", "status", "loop")
    BY <1>10, <2>1 DEF JitAsksStatus, Goes
  <2>2. CASE Goes("jit", "status", "send")
    BY <1>10, <2>2 DEF JitAsksStatus, Goes
  <2> QED
    BY <1>10, <2>1, <2>2 DEF JitAsksStatus
<1>11. CASE JitSends
  BY <1>11 DEF JitSends, Goes
<1>12. CASE ScanStarts
  <2>1. CASE Goes("scan", "loop", "wait")
    BY <1>12, <2>1 DEF ScanStarts, Goes
  <2>2. CASE UNCHANGED ugThread
    BY <1>12, <2>2 DEF ScanStarts
  <2> QED
    BY <1>12, <2>1, <2>2 DEF ScanStarts
<1>13. CASE ScanWaited
  BY <1>13 DEF ScanWaited, Goes
<1>14. CASE Radio
  BY <1>14 DEF Radio
<1>15. CASE GatewaySigint
  <2>1. /\ ugMain = "listen" /\ ugMain' = "stop" /\ ugStopRequest' = TRUE
        /\ UNCHANGED <<ugBeacon, ugFlag, ugSuccess, ugUp, ugThread>>
    BY <1>15 DEF GatewaySigint
  <2>2. CASE ugStopRequest = TRUE
    <3>1. UNCHANGED ugStopper
      BY <1>15, <2>2 DEF GatewaySigint
    <3> QED
      BY <2>1, <3>1
  <2>3. CASE ugStopRequest # TRUE
    BY <1>15, <2>1, <2>3 DEF GatewaySigint
  <2> QED
    BY <2>2, <2>3
<1>16. ASSUME NEW ok \in BOOLEAN, StopGateway(ok) PROVE UgInv'
  BY <1>16 DEF StopGateway
<1>17. CASE GatewayListenReturns
  BY <1>17 DEF GatewayListenReturns
<1>18. CASE UNCHANGED ugVars
  BY <1>18 DEF ugVars
<1>19. CASE Polled
  BY <1>19 DEF Polled, isStopped
<1> QED
  BY <1>1, <1>2, <1>3, <1>4, <1>5, <1>6, <1>7, <1>8, <1>9, <1>10, <1>11, <1>12, <1>13,
     <1>14, <1>15, <1>16, <1>17, <1>18, <1>19 DEF UgNext

\* stop() tells success only when no thread uses the concentrator any more,
\* whichever of them asked for the stop, whatever failed before and however
\* long the threads take.
THEOREM SuccessIsTrue == UgSpec => []SuccessMeansAllGone
<1>1. UgInv => SuccessMeansAllGone
  BY DEF UgInv, UgTypeOK, StopInv, SuccessMeansAllGone
<1> QED
  BY UgInitInv, UgNextInv, <1>1, PTL DEF UgSpec

\* The state of the chains, and that the spectrum is scanned only when none is
\* busy: each thread looks and acts under one lock.
ScanInv ==
    /\ ugTx \in [UgChains -> UgBusy \cup {"free"}]
    /\ ugScan = TRUE /\ ugBlind = FALSE => \A c \in UgChains : ugTx[c] \notin UgBusy
    /\ ugScan \in BOOLEAN /\ ugBlind \in BOOLEAN

\* What spectralScanRunner() sees when both calls succeed: the first chain that
\* is busy, if there is one.
LEMMA AskedSeesBusy ==
  asked({}) \notin UgBusy => \A c \in UgChains : ugTx[c] \notin UgBusy
BY DEF asked, UgChains

LEMMA ScanNextInv == ScanInv /\ [UgNext]_ugVars => ScanInv'
<1> SUFFICES ASSUME ScanInv, [UgNext]_ugVars PROVE ScanInv'
  OBVIOUS
<1> USE DEF ScanInv
<1>1. CASE UNCHANGED <<ugScan, ugTx, ugBlind>>
  BY <1>1
<1>2. CASE JitSends
  <2>1. ugTx' \in [UgChains -> UgBusy \cup {"free"}]
    BY <1>2 DEF JitSends, UgBusy
  <2>2. (ugScan' = FALSE /\ ugBlind' = ugBlind) \/ (ugBlind' = TRUE /\ ugScan' = ugScan)
    BY <1>2 DEF JitSends
  <2> QED
    BY <2>1, <2>2
<1>3. CASE ScanStarts
  <2>1. PICK fails \in SUBSET UgChains :
          ugSeenTx' = asked(fails) /\ ugBlind' = (ugBlind \/ fails # {})
    BY <1>3 DEF ScanStarts
  <2>2. ugTx' = ugTx
    BY <1>3 DEF ScanStarts
  <2>3. CASE UNCHANGED ugScan
    BY <2>1, <2>2, <2>3
  <2>4. CASE ugSeenTx' \notin UgBusy /\ ugScan' = TRUE
    <3>1. ugBlind' = FALSE => fails = {}
      BY <2>1
    <3> QED
      BY <2>1, <2>2, <2>4, <3>1, AskedSeesBusy
  <2> QED
    BY <1>3, <2>3, <2>4 DEF ScanStarts
<1>4. CASE Radio
  <2>1. CASE ugScan' = FALSE /\ UNCHANGED ugTx
    BY <1>4, <2>1 DEF Radio
  <2>2. ASSUME NEW c \in UgChains, ugTx[c] \in UgBusy, UNCHANGED ugScan,
               ugTx' = [ugTx EXCEPT ![c] = IF @ = "scheduled" THEN "emitting" ELSE "free"]
        PROVE  ScanInv'
    <3>1. ugTx' \in [UgChains -> UgBusy \cup {"free"}]
      BY <2>2 DEF UgBusy
    <3>2. UNCHANGED ugBlind
      BY <1>4 DEF Radio
    <3> QED
      BY <2>2, <3>1, <3>2
  <2> QED
    BY <1>4, <2>1, <2>2 DEF Radio
<1>5. CASE UNCHANGED ugVars
  BY <1>1, <1>5 DEF ugVars, ugRadio
<1> QED
  BY <1>1, <1>2, <1>3, <1>4, <1>5 DEF UgNext, ugControl, ugRadio, StartFails, StartGateway,
     downstreamBeaconRunner, RunnerEnds, upstreamRunner, FetchFails, FetchFailsStopping,
     enqueueTxPacket, JitDequeues, JitAsksStatus, ScanWaited, GatewaySigint, Polled, StopGateway,
     GatewayListenReturns

\* The concentrator does not scan while a packet is scheduled or emitted,
\* unless a call of it has failed, for any packets fetched and sent.
THEOREM ScansBetweenPackets == UgSpec => []NoScanWhileSending
<1>1. UgInit => ScanInv
  BY DEF UgInit, ScanInv
<1>2. ScanInv => NoScanWhileSending
  BY DEF ScanInv, NoScanWhileSending
<1> QED
  BY <1>1, ScanNextInv, <1>2, PTL DEF UgSpec

(***************************************************************************)
(* The loop of getTxGainLutIndex().                                        *)
(***************************************************************************)
UgMatch == [best : Nat, diff : Int]

LEMMA Powers == \A x \in UgPower : x \in Int /\ -128 <= x /\ x <= 127
BY DEF UgPower

\* m is what the loop must know after k entries: the index of the closest
\* power that is not above, with the distance to it, or that there is none.
Closest(m, k, power) ==
    IF m.best = 0 THEN \A i \in 1 .. k : power < UgLut[i]
    ELSE /\ m.best \in 1 .. k
         /\ m.diff = power - UgLut[m.best] /\ m.diff >= 0
         /\ \A i \in 1 .. k : UgLut[i] <= power => UgLut[i] <= UgLut[m.best]

LEMMA BetterIsClosest ==
  ASSUME NEW power \in UgPower, NEW k \in Nat, k + 1 \in 1 .. Len(UgLut),
         NEW m \in UgMatch, Closest(m, k, power)
  PROVE  Closest(better(m, k + 1, power), k + 1, power)
<1> DEFINE n == k + 1
           diff == power - UgLut[n]
<1>1. n \in Nat /\ n # 0 /\ \A i \in 1 .. n : UgLut[i] \in Int /\ (i = n \/ i \in 1 .. k)
  BY UgAssumption, Powers
<1>2. UgLut[n] \in UgPower /\ diff \in Int /\ diff <= 255
  BY UgAssumption, Powers
<1>3. CASE diff >= 0 /\ (m.best = 0 \/ diff < m.diff)
  <2>1. better(m, n, power) = [best |-> n, diff |-> diff % 256]
    BY <1>3 DEF better
  <2>2. diff % 256 = diff
    BY <1>2, <1>3
  <2>3. ASSUME NEW i \in 1 .. n, UgLut[i] <= power PROVE UgLut[i] <= UgLut[n]
    <3>1. CASE i = n
      BY <1>1, <3>1
    <3>2. CASE i \in 1 .. k
      BY <1>1, <1>2, <1>3, <2>3, <3>2, Powers, SMTT(30) DEF Closest, UgMatch
    <3> QED
      BY <1>1, <3>1, <3>2
  <2> QED
    BY <1>1, <1>2, <1>3, <2>1, <2>2, <2>3 DEF Closest
<1>4. CASE ~ (diff >= 0 /\ (m.best = 0 \/ diff < m.diff))
  <2>1. better(m, n, power) = m
    BY <1>4 DEF better
  <2>2. CASE m.best = 0
    <3>1. \A i \in 1 .. n : power < UgLut[i]
      BY <1>1, <1>2, <1>4, <2>2, Powers DEF Closest
    <3> QED
      BY <2>1, <2>2, <3>1 DEF Closest
  <2>3. CASE m.best # 0
    <3>1. m.best \in 1 .. k /\ m.best \in 1 .. n /\ UgLut[m.best] \in Int /\ m.diff \in Int
      BY <1>1, <2>3 DEF Closest, UgMatch
    <3>2. ASSUME NEW i \in 1 .. n, UgLut[i] <= power PROVE UgLut[i] <= UgLut[m.best]
      <4>1. CASE i = n
        BY <1>2, <1>4, <2>3, <3>1, <3>2, <4>1, Powers DEF Closest
      <4>2. CASE i \in 1 .. k
        BY <2>3, <3>2, <4>2 DEF Closest
      <4> QED
        BY <1>1, <4>1, <4>2
    <3> QED
      BY <2>1, <2>3, <3>1, <3>2 DEF Closest
  <2> QED
    BY <2>2, <2>3
<1> QED
  BY <1>3, <1>4

\* The index is one of the table, and that of the closest power that is not
\* above the one asked for when there is such a power: a distance between two
\* int8_t survives the cast to uint8_t.
LEMMA LutIndexIsClosest ==
  ASSUME NEW power \in UgPower
  PROVE  /\ getTxGainLutIndex(power) \in 1 .. Len(UgLut)
         /\ \A i \in 1 .. Len(UgLut) : UgLut[i] <= power =>
               /\ UgLut[getTxGainLutIndex(power)] <= power
               /\ UgLut[i] <= UgLut[getTxGainLutIndex(power)]
<1> DEFINE n == Len(UgLut)
           step == [i \in 1 .. n |-> [m \in UgMatch |-> better(m, i, power)]]
           Loop(t) == t = [i \in 0 .. Len(UgLut) |->
                             IF i = 0 THEN NoMatch ELSE better(t[i - 1], i, power)]
           match == CHOOSE t : Loop(t)
<1>1. n \in Nat /\ n >= 1 /\ \A i \in 1 .. n : UgLut[i] \in UgPower
  BY UgAssumption
<1>2. \A i \in 1 .. n : \A m \in UgMatch : better(m, i, power) \in UgMatch
  BY <1>1, Powers DEF better, UgMatch
<1>3. step \in [1 .. n -> [UgMatch -> UgMatch]]
  BY <1>2
<1>4. NoMatch \in UgMatch
  BY DEF NoMatch, UgMatch
<1>5. PICK r : LoopRun(r, UgMatch, NoMatch, n, step)
  <2> HIDE DEF n, step
  <2> QED
    BY <1>1, <1>3, <1>4, LoopRuns
<1>6. /\ r \in [0 .. n -> UgMatch] /\ r[0] = NoMatch
      /\ \A i \in 1 .. n : r[i] = step[i][r[i - 1]]
  BY <1>5 DEF LoopRun
<1>7. Loop(r)
  <2>1. \A i \in 1 .. n : r[i - 1] \in UgMatch
    BY <1>1, <1>6
  <2>2. \A i \in 1 .. n : r[i] = better(r[i - 1], i, power)
    BY <1>6, <2>1
  <2> QED
    BY <1>1, <1>6, <2>2
<1>8. Loop(match)
  BY <1>7, Zenon
<1> HIDE DEF match
<1>9. match[0] = NoMatch /\ \A i \in 1 .. n : match[i] = better(match[i - 1], i, power)
  BY <1>1, <1>8
<1> DEFINE T == {k \in Nat : k <= n => match[k] \in UgMatch /\ Closest(match[k], k, power)}
<1>10. 0 \in T
  BY <1>4, <1>9 DEF Closest, NoMatch
<1>11. ASSUME NEW k \in Nat, k \in T PROVE k + 1 \in T
  <2> SUFFICES ASSUME k + 1 <= n
               PROVE  match[k + 1] \in UgMatch /\ Closest(match[k + 1], k + 1, power)
    OBVIOUS
  <2>1. match[k] \in UgMatch /\ Closest(match[k], k, power) /\ k + 1 \in 1 .. n
    BY <1>1, <1>11
  <2>2. match[k + 1] = better(match[k], k + 1, power)
    BY <1>9, <2>1
  <2> QED
    BY <1>2, <2>1, <2>2, BetterIsClosest
<1>12. n \in T
  <2> HIDE DEF T
  <2> QED
    BY <1>1, <1>10, <1>11, EveryNat
<1>13. match[n] \in UgMatch /\ Closest(match[n], n, power)
  BY <1>1, <1>12
<1>14. getTxGainLutIndex(power) = IF match[n].best = 0 THEN 1 ELSE match[n].best
  BY DEF getTxGainLutIndex, match
<1> HIDE DEF n
<1>15. CASE match[n].best = 0
  <2>1. getTxGainLutIndex(power) = 1 /\ \A i \in 1 .. n : power < UgLut[i]
    BY <1>13, <1>14, <1>15 DEF Closest
  <2>2. \A i \in 1 .. n : ~ (UgLut[i] <= power)
    BY <1>1, <2>1, Powers
  <2> QED
    BY <1>1, <2>1, <2>2 DEF n
<1>16. CASE match[n].best # 0
  <2>1. getTxGainLutIndex(power) = match[n].best /\ match[n].best \in 1 .. n
    BY <1>13, <1>14, <1>16 DEF Closest
  <2>2. UgLut[match[n].best] \in UgPower /\ UgLut[match[n].best] <= power
    BY <1>1, <1>13, <1>16, <2>1, Powers DEF Closest, UgMatch
  <2> QED
    BY <1>13, <1>16, <2>1, <2>2 DEF Closest, n
<1> QED
  BY <1>15, <1>16

\* The power of a packet against the one asked for.
RightPower(p) ==
    LET lower == {x \in ToSet(UgLut) : x <= p.asked}
    IN lower # {} => p.power \in lower /\ \A x \in lower : x <= p.power

\* The packets of the just-in-time queues, each with the right power.
UgPacket == {p \in [id : Nat, chain : UgChains, asked : UgPower, power : UgPower] : RightPower(p)}
QueuedInv == ugQueue \in [UgChains -> Seq(UgPacket)] /\ ugCount \in Nat

LEMMA EnqueuedIsRight ==
  ASSUME NEW id \in Nat, NEW c \in UgChains, NEW power \in UgPower
  PROVE  [id |-> id, chain |-> c, asked |-> power,
          power |-> UgLut[getTxGainLutIndex(power)]] \in UgPacket
<1> DEFINE best == UgLut[getTxGainLutIndex(power)]
           p == [id |-> id, chain |-> c, asked |-> power, power |-> best]
<1>1. best \in UgPower /\ best \in ToSet(UgLut)
  <2>1. getTxGainLutIndex(power) \in DOMAIN UgLut /\ UgLut \in Seq(UgPower)
    BY LutIndexIsClosest, UgAssumption
  <2> QED
    BY <2>1 DEF ToSet
<1>2. ASSUME NEW x \in ToSet(UgLut), x <= power PROVE best <= power /\ x <= best
  <2>1. PICK i \in 1 .. Len(UgLut) : x = UgLut[i]
    BY UgAssumption DEF ToSet
  <2> QED
    BY <1>2, <2>1, LutIndexIsClosest
<1> HIDE DEF best
<1>3. RightPower(p)
  BY <1>1, <1>2 DEF RightPower
<1>4. p \in UgPacket
  BY <1>1, <1>3 DEF UgPacket
<1> QED
  BY <1>4 DEF best

LEMMA QueuedNextInv == QueuedInv /\ [UgNext]_ugVars => QueuedInv'
<1> SUFFICES ASSUME QueuedInv, [UgNext]_ugVars PROVE QueuedInv'
  OBVIOUS
<1> USE DEF QueuedInv
<1>1. CASE UNCHANGED <<ugQueue, ugCount>>
  BY <1>1
<1>2. ASSUME NEW c \in UgChains, NEW power \in UgPowers, enqueueTxPacket(c, power)
      PROVE  QueuedInv'
  <2> DEFINE p == [id |-> ugCount + 1, chain |-> c, asked |-> power,
                   power |-> UgLut[getTxGainLutIndex(power)]]
  <2>1. ugCount' = ugCount + 1 /\ ugQueue' = [ugQueue EXCEPT ![c] = Append(@, p)]
    BY <1>2 DEF enqueueTxPacket
  <2>2. p \in UgPacket
    BY EnqueuedIsRight, UgAssumption
  <2> HIDE DEF p
  <2>3. Append(ugQueue[c], p) \in Seq(UgPacket)
    BY <2>2
  <2> QED
    BY <2>1, <2>3
<1>3. ASSUME NEW c \in UgChains, JitDequeues(c) PROVE QueuedInv'
  <2>1. /\ ugQueue[c] # <<>> /\ UNCHANGED ugCount
        /\ ugQueue' = [ugQueue EXCEPT ![c] = Tail(@)]
    BY <1>3 DEF JitDequeues
  <2>2. Tail(ugQueue[c]) \in Seq(UgPacket)
    BY <2>1
  <2> QED
    BY <2>1, <2>2
<1>4. CASE UNCHANGED ugVars
  BY <1>1, <1>4 DEF ugVars, ugDown
<1> QED
  BY <1>1, <1>2, <1>3, <1>4 DEF UgNext, ugDown, StartFails, StartGateway,
     downstreamBeaconRunner, RunnerEnds, upstreamRunner, FetchFails, FetchFailsStopping,
     JitAsksStatus, JitSends, ScanStarts, ScanWaited, Radio, GatewaySigint, Polled, StopGateway,
     GatewayListenReturns

\* Every packet that waits to be sent has the largest power of the table that
\* is not above the power asked for, if there is one, for every table and
\* every power an int8_t can hold.
THEOREM PowerNotAboveAsked == UgSpec => []PowerIsClosestLower
<1>1. UgInit => QueuedInv
  BY DEF UgInit, QueuedInv
<1>2. QueuedInv => PowerIsClosestLower
  <2> SUFFICES ASSUME QueuedInv, NEW c \in UgChains, NEW p \in ToSet(ugQueue[c])
               PROVE  RightPower(p)
    BY DEF PowerIsClosestLower, RightPower
  <2>1. ugQueue[c] \in Seq(UgPacket)
    BY DEF QueuedInv
  <2>2. p \in UgPacket
    BY <2>1 DEF ToSet
  <2> QED
    BY <2>2 DEF UgPacket
<1> QED
  BY <1>1, QueuedNextInv, <1>2, PTL DEF UgSpec

-----------------------------------------------------------------------------
(***************************************************************************)
(* The directory.                                                          *)
(***************************************************************************)
File == [id : Nat, full : BOOLEAN]

DqTypeOK ==
    /\ dqFiles \in [1 .. DqFormats -> Seq(File)]
    /\ dqFormat \in 1 .. DqFormats
    /\ dqWriting \in Nat /\ dqCount \in Nat

\* id is the number of a file of the directory m.
Holds(m, id) == \E f \in 1 .. DqFormats : \E i \in 1 .. Len(m[f]) : m[f][i].id = id

LEMMA HoldsInDirectory ==
  ASSUME dqFiles \in [1 .. DqFormats -> Seq(File)], NEW id
  PROVE  id \in InDirectory <=> Holds(dqFiles, id)
<1>1. \A f \in 1 .. DqFormats : dqFiles[f] \in Seq(File)
  OBVIOUS
<1>2. \A f \in 1 .. DqFormats : ToSet(dqFiles[f]) = {dqFiles[f][i] : i \in 1 .. Len(dqFiles[f])}
  BY <1>1 DEF ToSet
<1> QED
  BY <1>2 DEF InDirectory, Files, Holds

\* A new file comes between others and takes none of them away.
LEMMA InsertAtKeeps ==
  ASSUME NEW S, NEW s \in Seq(S), NEW i \in 1 .. Len(s) + 1, NEW e \in S
  PROVE  /\ InsertAt(s, i, e) \in Seq(S)
         /\ \E k \in 1 .. Len(InsertAt(s, i, e)) : InsertAt(s, i, e)[k] = e
         /\ \A j \in 1 .. Len(s) : \E k \in 1 .. Len(InsertAt(s, i, e)) : InsertAt(s, i, e)[k] = s[j]
<1> DEFINE a == SubSeq(s, 1, i - 1)
           b == SubSeq(s, i, Len(s))
           n == Len(s)
<1>0. n \in Nat /\ i \in Nat
  OBVIOUS
<1>1. a \in Seq(S) /\ Len(a) = i - 1 /\ \A j \in 1 .. i - 1 : a[j] = s[j]
  <2>1. \A j \in 1 .. i - 1 : s[j] \in S /\ j \in 1 .. n
    BY <1>0
  <2> QED
    BY <1>0, <2>1, SubSeqProperties
<1>2. b \in Seq(S) /\ Len(b) = n - i + 1 /\ \A j \in 1 .. n - i + 1 : b[j] = s[i + j - 1]
  <2>1. \A j \in i .. n : s[j] \in S /\ j \in 1 .. n
    BY <1>0
  <2> QED
    BY <1>0, <2>1, SubSeqProperties
<1>3. <<e>> \in Seq(S) /\ Len(<<e>>) = 1 /\ <<e>>[1] = e
  OBVIOUS
<1> DEFINE c == a \o <<e>>
           d == c \o b
<1> HIDE DEF a, b, n
<1>4. c \in Seq(S) /\ Len(c) = i /\ c[i] = e /\ \A j \in 1 .. i - 1 : c[j] = a[j]
  BY <1>0, <1>1, <1>3
<1> HIDE DEF c
<1>5. /\ d \in Seq(S) /\ Len(d) = n + 1 /\ \A j \in 1 .. i : d[j] = c[j]
      /\ \A j \in 1 .. n - i + 1 : d[i + j] = b[j]
  BY <1>0, <1>2, <1>4
<1> HIDE DEF d
<1>6. InsertAt(s, i, e) = d
  BY DEF InsertAt, a, b, c, d, n
<1>7. i \in 1 .. n + 1 /\ d[i] = e
  BY <1>0, <1>4, <1>5 DEF n
<1>8. ASSUME NEW j \in 1 .. n PROVE \E k \in 1 .. n + 1 : d[k] = s[j]
  <2>1. CASE j < i
    <3>1. j \in 1 .. i - 1 /\ j \in 1 .. i /\ j \in 1 .. n + 1
      BY <1>0, <2>1
    <3> QED
      BY <1>1, <1>4, <1>5, <3>1
  <2>2. CASE i <= j
    <3>1. j - i + 1 \in 1 .. n - i + 1 /\ i + (j - i + 1) = j + 1 /\ i + (j - i + 1) - 1 = j /\ j + 1 \in 1 .. n + 1
      BY <1>0, <2>2
    <3>2. d[j + 1] = b[j - i + 1] /\ b[j - i + 1] = s[j]
      BY <1>2, <1>5, <3>1
    <3> QED
      BY <3>1, <3>2
  <2> QED
    BY <1>0, <2>1, <2>2
<1> QED
  BY <1>5, <1>6, <1>7, <1>8 DEF n

\* The format that pop() takes a file of exists when one can be read.
LEMMA FirstFormatFound ==
  firstFormat = 0 \/ (firstFormat \in 1 .. DqFormats /\ Readable(firstFormat))
<1>1. CASE \E f \in 1 .. DqFormats : Readable(f)
  <2> DEFINE T == {f \in 1 .. DqFormats : Readable(f)}
  <2>1. T \in SUBSET Nat /\ T # {}
    BY <1>1, DqAssumption
  <2>2. PICK f \in T : \A g \in T : f <= g
    <3> HIDE DEF T
    <3> QED
      BY <2>1, LeastNat
  <2>3. \A g \in 1 .. f - 1 : ~Readable(g)
    BY <2>2, DqAssumption
  <2>4. \E h \in 1 .. DqFormats : Readable(h) /\ \A g \in 1 .. h - 1 : ~Readable(g)
    BY <2>2, <2>3
  <2> QED
    BY <1>1, <2>4 DEF firstFormat
<1>2. CASE ~ \E f \in 1 .. DqFormats : Readable(f)
  BY <1>2 DEF firstFormat
<1> QED
  BY <1>1, <1>2

\* pop() takes one file, that of the payload it names.
LEMMA PopTakesOne ==
  ASSUME dqFiles \in [1 .. DqFormats -> Seq(File)]
  PROVE  /\ pop.files \in [1 .. DqFormats -> Seq(File)]
         /\ \A id : Holds(dqFiles, id) => Holds(pop.files, id) \/ id = pop.id
<1>1. CASE firstFormat = 0
  BY <1>1 DEF pop
<1>2. CASE firstFormat # 0
  <2> DEFINE f == firstFormat
             s == dqFiles[f]
             m == [dqFiles EXCEPT ![f] = Tail(s)]
  <2>1. f \in 1 .. DqFormats /\ s # <<>>
    BY <1>2, FirstFormatFound DEF Readable
  <2>2. pop.id = Head(s).id /\ pop.files = m
    BY <1>2 DEF pop
  <2> HIDE DEF f
  <2>3. s \in Seq(File)
    BY <2>1
  <2>4. /\ Tail(s) \in Seq(File) /\ Len(Tail(s)) = Len(s) - 1 /\ Head(s) = s[1]
        /\ \A i \in 1 .. Len(s) - 1 : Tail(s)[i] = s[i + 1]
        /\ Len(s) \in Nat
    BY <2>1, <2>3
  <2>5. /\ m \in [1 .. DqFormats -> Seq(File)] /\ m[f] = Tail(s)
        /\ \A g \in 1 .. DqFormats : g # f => m[g] = dqFiles[g]
    BY <2>1, <2>4
  <2> HIDE DEF m
  <2>6. ASSUME NEW id, Holds(dqFiles, id), id # pop.id PROVE Holds(m, id)
    <3>1. PICK g \in 1 .. DqFormats : \E i \in 1 .. Len(dqFiles[g]) : dqFiles[g][i].id = id
      BY <2>6 DEF Holds
    <3>2. CASE g # f
      BY <2>5, <3>1, <3>2 DEF Holds
    <3>3. CASE g = f
      <4>1. PICK i \in 1 .. Len(s) : s[i].id = id
        BY <3>1, <3>3
      <4>2. i # 1
        BY <2>2, <2>4, <2>6, <4>1
      <4>3. i - 1 \in 1 .. Len(s) - 1 /\ (i - 1) + 1 = i
        BY <2>4, <4>2
      <4>4. m[f][i - 1].id = id /\ i - 1 \in 1 .. Len(m[f])
        BY <2>4, <2>5, <4>1, <4>3
      <4> QED
        BY <2>1, <4>4 DEF Holds
    <3> QED
      BY <3>2, <3>3
  <2> QED
    BY <2>2, <2>5, <2>6
<1> QED
  BY <1>1, <1>2

(***************************************************************************)
(* DirectoryKeepsUntilGiven is not inductive: that what pop() removes was  *)
(* given to a database follows from what the loop did before.  PassInv     *)
(* says that until a file comes or is written, pop() takes what peek() has *)
(* seen, and that an active database was given that.                       *)
(***************************************************************************)
TouchedOK == dqTouched \in {TRUE, FALSE}

PassInv ==
    /\ dqStep \in {"open", "pop"} /\ dqTouched = FALSE => peek = dqSeen
    /\ dqStep = "pop" /\ dqDb \notin DqInactive => dqSeen \in dqGiven

Accounted(id) ==
    Holds(dqFiles, id) \/ id \in dqGiven \/ \E c \in {"raced", "inactive"} : <<id, c>> \in dqGone

DqInv == DqTypeOK /\ TouchedOK /\ PassInv /\ \A id \in 1 .. dqCount : Accounted(id)

LEMMA DqInitInv == DqInit => DqInv
<1> SUFFICES ASSUME DqInit PROVE DqInv
  OBVIOUS
<1>1. DqTypeOK
  BY DEF DqInit, DqTypeOK
<1>2. PassInv
  BY DEF DqInit, PassInv
<1>3. 1 .. dqCount = {}
  BY DEF DqInit
<1>4. TouchedOK
  BY DEF DqInit, TouchedOK
<1> QED
  BY <1>1, <1>2, <1>3, <1>4 DEF DqInv

LEMMA DqNextInv == DqInv /\ [DqNext]_dqVars => DqInv'
<1> SUFFICES ASSUME DqInv, [DqNext]_dqVars PROVE DqInv'
  OBVIOUS
<1>0. /\ dqFiles \in [1 .. DqFormats -> Seq(File)] /\ dqFormat \in 1 .. DqFormats
      /\ dqWriting \in Nat /\ dqCount \in Nat
  BY DEF DqInv, DqTypeOK
<1>10. TouchedOK'
  BY DEF DqInv, TouchedOK, DqNext, StoreCreates, StoreWrites, Peek, OpenFails, Insert, Pop, Restart, dqVars
<1>1. CASE StoreCreates
  <2> DEFINE e == [id |-> dqCount + 1, full |-> FALSE]
             s == dqFiles[dqFormat]
  <2>1. e \in File /\ e.id = dqCount + 1 /\ s \in Seq(File)
    BY <1>0 DEF File
  <2>2. PICK i \in 1 .. Len(s) + 1 : dqFiles' = [dqFiles EXCEPT ![dqFormat] = InsertAt(s, i, e)]
    BY <1>1 DEF StoreCreates
  <2> DEFINE n == InsertAt(s, i, e)
  <2> HIDE DEF e, s
  <2>3. /\ n \in Seq(File) /\ \E k \in 1 .. Len(n) : n[k] = e
        /\ \A j \in 1 .. Len(s) : \E k \in 1 .. Len(n) : n[k] = s[j]
    <3>1. s \in Seq(File) /\ e \in File /\ i \in 1 .. Len(s) + 1
      BY <2>1, <2>2
    <3>2. n \in Seq(File)
      BY <3>1, InsertAtKeeps
    <3>3. \E k \in 1 .. Len(n) : n[k] = e
      BY <3>1, InsertAtKeeps
    <3>4. \A j \in 1 .. Len(s) : \E k \in 1 .. Len(n) : n[k] = s[j]
      BY <3>1, InsertAtKeeps
    <3> QED
      BY <3>2, <3>3, <3>4
  <2>4. dqFiles' = [dqFiles EXCEPT ![dqFormat] = n]
    BY <2>2 DEF s
  <2> HIDE DEF n
  <2>5. /\ dqFiles' \in [1 .. DqFormats -> Seq(File)] /\ dqFiles'[dqFormat] = n
        /\ \A f \in 1 .. DqFormats : f # dqFormat => dqFiles'[f] = dqFiles[f]
    BY <1>0, <2>3, <2>4
  <2>6. Holds(dqFiles', dqCount + 1) /\ \A id : Holds(dqFiles, id) => Holds(dqFiles', id)
    <3>1. PICK k \in 1 .. Len(n) : n[k] = e
      BY <2>3
    <3>2. n[k].id = dqCount + 1
      BY <2>1, <3>1
    <3>3. Holds(dqFiles', dqCount + 1)
      BY <1>0, <2>5, <3>2 DEF Holds
    <3>4. ASSUME NEW id, NEW f \in 1 .. DqFormats, NEW j \in 1 .. Len(dqFiles[f]), dqFiles[f][j].id = id
          PROVE  Holds(dqFiles', id)
      <4>1. CASE f = dqFormat
        <5>1. s[j].id = id /\ j \in 1 .. Len(s)
          BY <3>4, <4>1 DEF s
        <5>2. PICK l \in 1 .. Len(n) : n[l] = s[j]
          BY <2>3, <5>1
        <5> QED
          BY <1>0, <2>5, <5>1, <5>2 DEF Holds
      <4>2. CASE f # dqFormat
        BY <2>5, <3>4, <4>2 DEF Holds
      <4> QED
        BY <4>1, <4>2
    <3> QED
      BY <3>3, <3>4 DEF Holds
  <2>7. /\ dqCount' = dqCount + 1 /\ dqWriting' = dqCount + 1 /\ dqTouched' = TRUE
        /\ UNCHANGED <<dqFormat, dqDb, dqStep, dqSeen, dqGiven, dqGone>>
    BY <1>1 DEF StoreCreates
  <2>8. DqTypeOK'
    BY <1>0, <2>5, <2>7 DEF DqTypeOK
  <2>9. PassInv'
    BY <2>7 DEF DqInv, PassInv
  <2>10. ASSUME NEW id \in 1 .. dqCount' PROVE Accounted(id)'
    <3>1. id = dqCount + 1 \/ id \in 1 .. dqCount
      BY <1>0, <2>7
    <3> QED
      BY <2>6, <2>7, <3>1 DEF DqInv, Accounted
  <2> QED
    BY <1>10, <2>8, <2>9, <2>10 DEF DqInv
<1>2. CASE StoreWrites
  <2> DEFINE w(f) == [i \in DOMAIN dqFiles[f] |->
                        IF dqFiles[f][i].id = dqWriting THEN [id |-> dqWriting, full |-> TRUE]
                        ELSE dqFiles[f][i]]
  <2>1. ASSUME NEW f \in 1 .. DqFormats
        PROVE  /\ w(f) \in Seq(File) /\ Len(w(f)) = Len(dqFiles[f])
               /\ \A i \in 1 .. Len(dqFiles[f]) : w(f)[i].id = dqFiles[f][i].id
    <3> DEFINE s == dqFiles[f]
               n == Len(s)
               done == [id |-> dqWriting, full |-> TRUE]
    <3>1. s \in Seq(File) /\ n \in Nat /\ DOMAIN s = 1 .. n /\ \A i \in 1 .. n : s[i] \in File
      BY <1>0
    <3>2. done \in File /\ done.id = dqWriting
      BY <1>0 DEF File
    <3> HIDE DEF done, s, n
    <3>3. w(f) = [i \in 1 .. n |-> IF s[i].id = dqWriting THEN done ELSE s[i]]
      BY <3>1 DEF s, done
    <3>4. w(f) \in [1 .. n -> File]
      BY <3>1, <3>2, <3>3
    <3>5. w(f) \in Seq(File) /\ Len(w(f)) = n
      <4> HIDE DEF w
      <4> QED
        BY <3>1, <3>4
    <3>6. \A i \in 1 .. n : w(f)[i].id = s[i].id
      BY <3>2, <3>3
    <3> QED
      BY <3>5, <3>6 DEF s, n
  <2>2. dqFiles' = [f \in 1 .. DqFormats |-> w(f)]
    BY <1>2 DEF StoreWrites
  <2> HIDE DEF w
  <2>3. dqFiles' \in [1 .. DqFormats -> Seq(File)] /\ \A f \in 1 .. DqFormats : dqFiles'[f] = w(f)
    BY <2>1, <2>2
  <2>4. \A id : Holds(dqFiles, id) => Holds(dqFiles', id)
    BY <2>1, <2>3 DEF Holds
  <2>5. dqWriting' = 0 /\ dqTouched' = TRUE
        /\ UNCHANGED <<dqFormat, dqDb, dqStep, dqSeen, dqGiven, dqGone, dqCount>>
    BY <1>2 DEF StoreWrites
  <2>6. DqTypeOK' /\ PassInv'
    BY <1>0, <2>3, <2>5 DEF DqInv, DqTypeOK, PassInv
  <2>7. \A id \in 1 .. dqCount' : Accounted(id)'
    BY <2>4, <2>5 DEF DqInv, Accounted
  <2> QED
    BY <1>10, <2>6, <2>7 DEF DqInv
<1>3. ASSUME UNCHANGED <<dqFiles, dqFormat, dqWriting, dqGone, dqCount>>, dqGiven \subseteq dqGiven', PassInv'
      PROVE  DqInv'
  <2>1. DqTypeOK'
    BY <1>0, <1>3 DEF DqTypeOK
  <2>2. \A id \in 1 .. dqCount' : Accounted(id)'
    BY <1>3 DEF DqInv, Accounted
  <2> QED
    BY <1>10, <1>3, <2>1, <2>2 DEF DqInv
<1>4. CASE Peek
  <2>1. peek' = peek
    BY <1>4 DEF Peek, peek, pop, firstFormat, Readable
  <2>2. PassInv'
    <3>1. CASE peek # 0 /\ dqSeen' = peek /\ dqStep' = "open"
      BY <2>1, <3>1 DEF PassInv
    <3>2. CASE dqStep' = dqStep
      BY <1>4, <3>2 DEF Peek, PassInv
    <3> QED
      BY <1>4, <3>1, <3>2 DEF Peek
  <2> QED
    BY <1>3, <1>4, <2>2 DEF Peek
<1>5. CASE OpenFails
  <2>1. /\ UNCHANGED <<dqFiles, dqFormat, dqWriting, dqGone, dqCount>> /\ dqGiven \subseteq dqGiven'
        /\ PassInv'
    BY <1>5, SMTT(30) DEF OpenFails, PassInv
  <2> QED
    BY <1>3, <2>1
<1>6. CASE Insert
  <2>1. peek' = peek
    BY <1>6 DEF Insert, peek, pop, firstFormat, Readable
  <2>2. PassInv'
    BY <1>6, <2>1 DEF Insert, DqInv, PassInv
  <2> QED
    BY <1>3, <1>6, <2>2 DEF Insert
<1>7. CASE Pop
  <2>1. dqStep = "pop" /\ dqStep' = "peek" /\ UNCHANGED <<dqFormat, dqWriting, dqGiven, dqCount>>
    BY <1>7 DEF Pop
  <2>2. PassInv'
    BY <2>1 DEF PassInv
  <2>3. CASE UNCHANGED <<dqFiles, dqGone>>
    BY <1>3, <2>1, <2>2, <2>3
  <2>4. CASE /\ dqFiles' = pop.files
             /\ dqGone' = IF pop.id \in dqGiven \cup {0} THEN dqGone
                          ELSE dqGone \cup {<<pop.id, Cause>>}
    <3>1. /\ dqFiles' \in [1 .. DqFormats -> Seq(File)]
          /\ \A id : Holds(dqFiles, id) => Holds(dqFiles', id) \/ id = pop.id
      BY <1>0, <2>4, PopTakesOne
    <3>2. DqTypeOK'
      BY <1>0, <2>1, <3>1 DEF DqTypeOK
    <3>3. dqGone \subseteq dqGone'
      BY <2>4
    <3>4. ASSUME pop.id \notin dqGiven, pop.id # 0
          PROVE  \E c \in {"raced", "inactive"} : <<pop.id, c>> \in dqGone'
      <4>1. <<pop.id, Cause>> \in dqGone'
        BY <2>4, <3>4
      <4>2. CASE dqDb \in DqInactive
        BY <4>1, <4>2 DEF Cause
      <4>3. CASE dqDb \notin DqInactive
        <5>1. dqSeen \in dqGiven
          BY <2>1, <4>3 DEF DqInv, PassInv
        <5>2. dqTouched = TRUE
          BY <2>1, <3>4, <5>1 DEF DqInv, TouchedOK, PassInv, peek
        <5> QED
          BY <4>1, <4>3, <5>2 DEF Cause
      <4> QED
        BY <4>2, <4>3
    <3>5. ASSUME NEW id \in 1 .. dqCount' PROVE Accounted(id)'
      <4>1. Accounted(id) /\ id # 0
        BY <1>0, <2>1 DEF DqInv
      <4> QED
        BY <2>1, <3>1, <3>3, <3>4, <4>1 DEF Accounted
    <3> QED
      BY <1>10, <2>2, <3>2, <3>5 DEF DqInv
  <2> QED
    BY <1>7, <2>3, <2>4 DEF Pop
<1>8. CASE Restart
  <2>1. DqTypeOK' /\ PassInv'
    BY <1>0, <1>8 DEF Restart, DqTypeOK, PassInv
  <2>2. \A id \in 1 .. dqCount' : Accounted(id)'
    BY <1>8 DEF Restart, DqInv, Accounted
  <2> QED
    BY <1>10, <2>1, <2>2 DEF DqInv
<1>9. CASE UNCHANGED dqVars
  <2>1. PassInv'
    BY <1>9 DEF dqVars, DqInv, PassInv, peek, pop, firstFormat, Readable
  <2> QED
    BY <1>3, <1>9, <2>1 DEF dqVars
<1> QED
  BY <1>1, <1>2, <1>4, <1>5, <1>6, <1>7, <1>8, <1>9 DEF DqNext

\* A payload stays in the directory until a database was given it, unless a
\* file came or was written between the peek() and the pop() of one pass of
\* put2databases() or an inactive database popped it: for any formats, orders
\* of the directory, databases and restarts.
THEOREM DirectoryKeeps == DqSpec => []DirectoryKeepsUntilGiven
<1>1. DqInv => DirectoryKeepsUntilGiven
  BY HoldsInDirectory DEF DqInv, DqTypeOK, Accounted, DirectoryKeepsUntilGiven
<1> QED
  BY DqInitInv, DqNextInv, <1>1, PTL DEF DqSpec

-----------------------------------------------------------------------------
(***************************************************************************)
(* The identity services.  Addresses are ordered, so that a lookup by EUI  *)
(* finds the first address of a device and a flush can write all of them   *)
(* in order.                                                               *)
(***************************************************************************)
LEMMA AddressTypes ==
  /\ \A a \in IdAddrs : a \in [net : Nat, n : Nat]
  /\ Unassigned \notin IdAddrs
<1>1. \A n \in 0 .. IdMax : Own(n) \in [net : Nat, n : Nat]
  BY IdAssumption DEF Own
<1>2. \A n \in IdForeign : [net |-> 1, n |-> n] \in [net : Nat, n : Nat]
  BY IdAssumption
<1>3. \A a \in IdAddrs : a \in [net : Nat, n : Nat]
  BY <1>1, <1>2 DEF IdAddrs
<1>4. Unassigned.n = -1 /\ -1 \notin Nat
  BY DEF Unassigned
<1> QED
  BY <1>3, <1>4

LEMMA BeforeIsOrder ==
  /\ \A a \in IdAddrs : ~Before(a, a)
  /\ \A a, b, c \in IdAddrs : Before(a, b) /\ Before(b, c) => Before(a, c)
  /\ \A a, b \in IdAddrs : a = b \/ Before(a, b) \/ Before(b, a)
<1>1. \A a \in IdAddrs : a.net \in Nat /\ a.n \in Nat
  BY AddressTypes
<1>2. \A a, b \in IdAddrs : a.net = b.net /\ a.n = b.n => a = b
  BY AddressTypes
<1> QED
  BY <1>1, <1>2 DEF Before

\* The first address of a finite set is one of it.
LEMMA FirstIsMember ==
  ASSUME NEW S, IsFiniteSet(S), S # {}, S \subseteq IdAddrs
  PROVE  FirstOf(S, Before) \in S
<1> DEFINE R == {p \in S \X S : Before(p[1], p[2])}
<1>1. \A x, y \in S : <<x, y>> \in R <=> Before(x, y)
  OBVIOUS
<1>2. PICK a \in S : \A b \in S : <<b, a>> \notin R
  <2> HIDE DEF R
  <2>1. /\ \A x \in S : <<x, x>> \notin R
        /\ \A x, y, z \in S : <<x, y>> \in R /\ <<y, z>> \in R => <<x, z>> \in R
    BY <1>1, BeforeIsOrder
  <2> QED
    BY <2>1, FiniteMinimal
<1> HIDE DEF R
<1>3. \A b \in S \ {a} : Before(a, b)
  BY <1>1, <1>2, BeforeIsOrder
<1> QED
  BY <1>3 DEF FirstOf

\* save() writes every address once.
LEMMA InOrderIsOnto ==
  ASSUME NEW S, IsFiniteSet(S), S \subseteq IdAddrs
  PROVE  /\ Cardinality(S) \in Nat
         /\ InOrder(S) \in [1 .. Cardinality(S) -> S]
         /\ \A a \in S : \E i \in 1 .. Cardinality(S) : InOrder(S)[i] = a
         /\ \A i, j \in 1 .. Cardinality(S) : InOrder(S)[i] = InOrder(S)[j] => i = j
<1> DEFINE R == {p \in S \X S : Before(p[1], p[2])}
           n == Cardinality(S)
           Sorted(s) == \A i, j \in DOMAIN s : i < j => Before(s[i], s[j])
<1>1. \A x, y \in S : <<x, y>> \in R <=> Before(x, y)
  OBVIOUS
<1> HIDE DEF R
<1>2. n \in Nat
  BY FS_CardinalityType
<1>3. \E s \in [1 .. n -> S] : \A i, j \in 1 .. n : i < j => <<s[i], s[j]>> \in R
  <2>1. /\ \A x \in S : <<x, x>> \notin R
        /\ \A x, y, z \in S : <<x, y>> \in R /\ <<y, z>> \in R => <<x, z>> \in R
        /\ \A x, y \in S : x = y \/ <<x, y>> \in R \/ <<y, x>> \in R
    BY <1>1, BeforeIsOrder
  <2> QED
    BY <2>1, SortedEnumeration
<1> HIDE DEF n
<1>4. \E s \in [1 .. n -> S] : Sorted(s)
  <2>1. PICK s \in [1 .. n -> S] : \A i, j \in 1 .. n : i < j => <<s[i], s[j]>> \in R
    BY <1>3
  <2>2. Sorted(s)
    BY <1>1, <2>1
  <2> QED
    BY <2>2
<1> DEFINE t == InOrder(S)
<1>5. t \in [1 .. n -> S] /\ Sorted(t)
  BY <1>4 DEF InOrder, n
<1> HIDE DEF t
<1>6. ASSUME NEW i \in 1 .. n, NEW j \in 1 .. n, t[i] = t[j] PROVE i = j
  <2>1. ~Before(t[i], t[j]) /\ ~Before(t[j], t[i])
    BY <1>5, <1>6, BeforeIsOrder
  <2>2. ~(i < j) /\ ~(j < i)
    BY <1>5, <2>1
  <2> QED
    BY <1>2, <2>2
<1>7. \A a \in S : \E i \in 1 .. n : t[i] = a
  <2> DEFINE D == 1 .. n
  <2>1. IsFiniteSet(D) /\ Cardinality(D) = n
    BY <1>2, FS_Interval
  <2>2. Cardinality(D) = Cardinality(S) /\ t \in [D -> S] /\ \A i, j \in D : t[i] = t[j] => i = j
    BY <1>5, <1>6, <2>1 DEF n
  <2> HIDE DEF D
  <2>3. \A a \in S : \E i \in D : t[i] = a
    BY <2>1, <2>2, InjectionIsOnto
  <2> QED
    BY <2>3 DEF D
<1> QED
  BY <1>2, <1>5, <1>6, <1>7 DEF n, t

StoreOK(store) ==
    /\ store \in [DOMAIN store -> IdEuis]
    /\ IsFiniteSet(DOMAIN store) /\ DOMAIN store \subseteq IdAddrs

\* The file that save() writes holds every entry of the storage.
LEMMA EntriesComplete ==
  ASSUME NEW store, StoreOK(store)
  PROVE  /\ EntriesOf(store) \in Seq(FileEntry)
         /\ \A i \in 1 .. Len(EntriesOf(store)) :
              /\ EntriesOf(store)[i].addr \in DOMAIN store
              /\ EntriesOf(store)[i].eui = store[EntriesOf(store)[i].addr]
         /\ {EntriesOf(store)[i].addr : i \in 1 .. Len(EntriesOf(store))} = DOMAIN store
<1> DEFINE D == DOMAIN store
           n == Cardinality(D)
           s == InOrder(D)
           es == EntriesOf(store)
<1>1. n \in Nat /\ s \in [1 .. n -> D] /\ \A a \in D : \E i \in 1 .. n : s[i] = a
  BY InOrderIsOnto DEF StoreOK
<1>2. es = [i \in 1 .. n |-> [addr |-> s[i], eui |-> store[s[i]], flags |-> FALSE]]
  BY <1>1 DEF EntriesOf
<1> HIDE DEF s, n, es, D
<1>3. \A i \in 1 .. n : /\ es[i] = [addr |-> s[i], eui |-> store[s[i]], flags |-> FALSE]
                        /\ s[i] \in D
  BY <1>1, <1>2
<1>4. \A i \in 1 .. n : es[i].addr = s[i] /\ es[i].eui = store[s[i]] /\ es[i].addr \in D
  <2> SUFFICES ASSUME NEW i \in 1 .. n
               PROVE  es[i].addr = s[i] /\ es[i].eui = store[s[i]] /\ es[i].addr \in D
    OBVIOUS
  <2> DEFINE v == store[s[i]]
             a == s[i]
  <2>1. es[i] = [addr |-> a, eui |-> v, flags |-> FALSE] /\ a \in D
    BY <1>3
  <2> HIDE DEF a, v
  <2>2. es[i].addr = a /\ es[i].eui = v
    BY <2>1
  <2> QED
    BY <2>1, <2>2 DEF a, v
<1>5. \A a \in D : store[a] \in IdEuis /\ a \in IdAddrs
  BY DEF StoreOK, D
<1>6. \A i \in 1 .. n : es[i] \in FileEntry
  <2> SUFFICES ASSUME NEW i \in 1 .. n PROVE es[i] \in FileEntry
    OBVIOUS
  <2> DEFINE v == store[s[i]]
             a == s[i]
  <2>1. es[i] = [addr |-> a, eui |-> v, flags |-> FALSE] /\ a \in IdAddrs /\ v \in IdEuis
    BY <1>3, <1>5
  <2> HIDE DEF a, v
  <2> QED
    BY <2>1 DEF FileEntry
<1>7. es \in [1 .. n -> FileEntry]
  BY <1>2, <1>6
<1>8. es \in Seq(FileEntry) /\ Len(es) = n
  BY <1>1, <1>7
<1>9. {es[i].addr : i \in 1 .. n} = D
  BY <1>1, <1>4
<1> QED
  BY <1>4, <1>8, <1>9 DEF es, D

\* An address that next() finds belongs to nobody.
LEMMA NextIsFree ==
  ASSUME NEW store, NEW max \in Nat, NEW a \in nextJson(store, max), a # Unassigned
  PROVE  a \in IdAddrs /\ a \notin DOMAIN store
<1>1. \/ nextBruteForce(store) = Unassigned
      \/ nextBruteForce(store) \in IdAddrs /\ nextBruteForce(store) \notin DOMAIN store
  <2> DEFINE free == {n \in 0 .. IdMax : Own(n) \notin DOMAIN store}
  <2>0. nextBruteForce(store) = IF free = {} THEN Unassigned
                                ELSE Own(CHOOSE n \in free : \A m \in free : n <= m)
    BY DEF nextBruteForce
  <2>1. CASE free = {}
    <3> HIDE DEF free
    <3> QED
      BY <2>0, <2>1
  <2>2. CASE free # {}
    <3>1. free \subseteq Nat
      BY IdAssumption
    <3>2. \E n \in free : \A m \in free : n <= m
      <4> HIDE DEF free
      <4> QED
        BY <2>2, <3>1, LeastNat
    <3> DEFINE c == CHOOSE n \in free : \A m \in free : n <= m
    <3>3. c \in free
      <4> HIDE DEF free
      <4> QED
        BY <3>2
    <3>4. nextBruteForce(store) = Own(c)
      BY <2>0, <2>2
    <3> HIDE DEF c
    <3> QED
      BY <3>3, <3>4 DEF IdAddrs
  <2> QED
    BY <2>1, <2>2
<1>2. PICK n \in Candidates(max) :
        a = IF n > IdMax \/ Own(n) \in DOMAIN store THEN nextBruteForce(store) ELSE Own(n)
  BY DEF nextJson
<1>3. n \in Nat
  BY <1>2, IdAssumption DEF Candidates
<1>4. CASE n > IdMax \/ Own(n) \in DOMAIN store
  BY <1>1, <1>2, <1>4
<1>5. CASE ~(n > IdMax \/ Own(n) \in DOMAIN store)
  <2>1. n \in 0 .. IdMax /\ a = Own(n) /\ Own(n) \notin DOMAIN store
    BY <1>2, <1>3, <1>5, IdAssumption
  <2> QED
    BY <2>1 DEF IdAddrs
<1> QED
  BY <1>4, <1>5

(***************************************************************************)
(* The invariant.  After a flush the file holds the storage; while it is   *)
(* read again, the storage holds the entries read so far, under their own  *)
(* addresses, and besides them only the device that was at the word of     *)
(* zeros.                                                                  *)
(***************************************************************************)
IdTypeOK ==
    /\ StoreOK(idStore)
    /\ idFile \in Seq(FileEntry)
    /\ idMaxAddr \in Nat /\ idPos \in Nat

Back(cur, store, a) == a \in DOMAIN store /\ a \in DOMAIN cur /\ cur[a] = store[a]

NothingElse(cur, store) ==
    \A a \in DOMAIN cur :
        Back(cur, store, a) \/ \E z \in DOMAIN store : isEmpty(z) /\ cur[a] = store[z]

ReadSoFar(cur, file, pos, store) ==
    /\ pos <= Len(file)
    /\ \A i \in 1 .. pos : isEmpty(file[i].addr) \/ Back(cur, store, file[i].addr)
    /\ NothingElse(cur, store)

Returned(cur, store) ==
    /\ \A a \in DOMAIN store : isEmpty(a) \/ Back(cur, store, a)
    /\ NothingElse(cur, store)

FlushInv ==
    idBackend = "json" /\ idAnswer.op = "flush" =>
        /\ StoreOK(idAnswer.store)
        /\ idFile = EntriesOf(idAnswer.store)
        /\ idState = "up" => Returned(idStore, idAnswer.store)
        /\ idState = "loading" => ReadSoFar(idStore, idFile, idPos, idAnswer.store)

IdInv == IdTypeOK /\ FlushInv /\ NoDeviceDisplaced

\* Storing a device under an address.
LEMMA StoredOK ==
  ASSUME StoreOK(idStore), idMaxAddr \in Nat, NEW a \in IdAddrs, NEW eui \in IdEuis, Stored(a, eui)
  PROVE  /\ StoreOK(idStore)' /\ idMaxAddr' \in Nat
         /\ DOMAIN idStore' = DOMAIN idStore \cup {a} /\ idStore'[a] = eui
         /\ \A x \in DOMAIN idStore \ {a} : idStore'[x] = idStore[x]
<1>1. idStore' = [x \in DOMAIN idStore \cup {a} |-> IF x = a THEN eui ELSE idStore[x]]
  BY DEF Stored
<1>2. /\ DOMAIN idStore' = DOMAIN idStore \cup {a} /\ idStore'[a] = eui
      /\ \A x \in DOMAIN idStore \ {a} : idStore'[x] = idStore[x]
  BY <1>1
<1>3. idStore' \in [DOMAIN idStore' -> IdEuis]
  BY <1>1 DEF StoreOK
<1>4. IsFiniteSet(DOMAIN idStore')
  BY <1>2, FS_AddElement DEF StoreOK
<1>5. idMaxAddr' \in Nat
  BY AddressTypes DEF Stored, Larger
<1> QED
  BY <1>2, <1>3, <1>4, <1>5 DEF StoreOK

LEMMA IdInitInv == IdInit => IdInv
<1> SUFFICES ASSUME IdInit PROVE IdInv
  OBVIOUS
<1>1. StoreOK(idStore)
  BY FS_EmptySet DEF IdInit, StoreOK
<1>2. idFile \in Seq(FileEntry)
  <2>1. CASE idBackend = "lmdb"
    BY <2>1 DEF IdInit
  <2>2. CASE idBackend # "lmdb"
    BY <2>2, IdAssumption DEF IdInit
  <2> QED
    BY <2>1, <2>2
<1>3. idMaxAddr \in Nat /\ idPos \in Nat
  BY DEF IdInit
<1>4. FlushInv
  BY DEF IdInit, FlushInv, NoAnswer
<1>5. NoDeviceDisplaced
  BY DEF IdInit, NoDeviceDisplaced
<1> QED
  BY <1>1, <1>2, <1>3, <1>4, <1>5 DEF IdInv, IdTypeOK

\* A step of an identity service that is up, or comes up, and leaves the file
\* alone.
LEMMA IdAnswered ==
  ASSUME IdInv, StoreOK(idStore)', idMaxAddr' \in Nat, UNCHANGED <<idFile, idPos, idBackend>>,
         idState' # "loading",
         \/ idAnswer'.op # "flush"
         \/ idAnswer' = idAnswer /\ idState' # "up"
  PROVE  IdInv'
<1>1. IdTypeOK'
  BY DEF IdInv, IdTypeOK, StoreOK
<1>2. FlushInv'
  BY DEF IdInv, FlushInv
<1>3. NoDeviceDisplaced'
  BY DEF NoDeviceDisplaced
<1> QED
  BY <1>1, <1>2, <1>3 DEF IdInv

LEMMA LoadEntryInv == IdInv /\ LoadEntry => IdInv'
<1> SUFFICES ASSUME IdInv, LoadEntry PROVE IdInv'
  OBVIOUS
<1> DEFINE e == idFile[idPos + 1]
<1>1. /\ StoreOK(idStore) /\ idMaxAddr \in Nat /\ idPos \in Nat /\ idFile \in Seq(FileEntry)
      /\ idState = "loading" /\ idPos < Len(idFile) /\ UNCHANGED <<idBackend, idFile, idAnswer>>
  BY DEF IdInv, IdTypeOK, LoadEntry
<1>2. Len(idFile) \in Nat /\ idPos + 1 \in 1 .. Len(idFile)
  BY <1>1
<1>3. e \in FileEntry
  BY <1>1, <1>2
<1>4. e.addr \in IdAddrs \cup {Unassigned} /\ e.eui \in IdEuis
  BY <1>3 DEF FileEntry
<1>5. PICK a \in (IF isEmpty(e.addr) THEN nextJson(idStore, idMaxAddr) ELSE {e.addr}) :
        IF a = Unassigned
        THEN idState' = "failed" /\ UNCHANGED <<idStore, idRights, idMaxAddr, idPos>>
        ELSE /\ Stored(a, e.eui)
             /\ idRights' = IF e.flags THEN idRights \cup {a} ELSE idRights \ {a}
             /\ idPos' = idPos + 1
             /\ UNCHANGED idState
  BY DEF LoadEntry, EntryAddress
<1> HIDE DEF e
<1>6. CASE a = Unassigned
  <2>1. idState' = "failed" /\ UNCHANGED <<idStore, idMaxAddr, idPos>>
    BY <1>5, <1>6
  <2>2. StoreOK(idStore)' /\ idMaxAddr' \in Nat
    BY <1>1, <2>1 DEF StoreOK
  <2> QED
    BY <1>1, <2>1, <2>2, IdAnswered
<1>7. CASE a # Unassigned
  <2>1. Stored(a, e.eui) /\ idPos' = idPos + 1 /\ idState' = "loading"
    BY <1>1, <1>5, <1>7
  <2>2. a \in IdAddrs /\ (isEmpty(e.addr) => a \notin DOMAIN idStore) /\ (isEmpty(e.addr) \/ e.addr = a)
    <3>1. CASE isEmpty(e.addr)
      BY <1>1, <1>5, <1>7, <3>1, NextIsFree
    <3>2. CASE ~isEmpty(e.addr)
      BY <1>4, <1>5, <1>7, <3>2
    <3> QED
      BY <3>1, <3>2
  <2>3. /\ StoreOK(idStore)' /\ idMaxAddr' \in Nat
        /\ DOMAIN idStore' = DOMAIN idStore \cup {a} /\ idStore'[a] = e.eui
        /\ \A x \in DOMAIN idStore \ {a} : idStore'[x] = idStore[x]
    BY <1>1, <1>4, <2>1, <2>2, StoredOK
  <2>4. IdTypeOK'
    BY <1>1, <2>1, <2>3 DEF IdTypeOK, StoreOK
  <2>5. FlushInv'
    <3> SUFFICES ASSUME idBackend = "json", idAnswer.op = "flush"
                 PROVE  /\ StoreOK(idAnswer.store) /\ idFile = EntriesOf(idAnswer.store)
                        /\ ReadSoFar(idStore', idFile, idPos + 1, idAnswer.store)
      BY <1>1, <2>1 DEF FlushInv, StoreOK
    <3> DEFINE store == idAnswer.store
    <3>1. StoreOK(store) /\ idFile = EntriesOf(store) /\ ReadSoFar(idStore, idFile, idPos, store)
      BY <1>1 DEF IdInv, FlushInv
    <3>2. e.addr \in DOMAIN store /\ e.eui = store[e.addr]
      BY <1>2, <3>1, EntriesComplete DEF e
    <3> HIDE DEF store
    <3>3. /\ ~isEmpty(e.addr) => Back(idStore', store, e.addr) /\ e.addr = a
          /\ isEmpty(e.addr) => idStore'[a] = store[e.addr] /\ a \notin DOMAIN idStore
      BY <2>2, <2>3, <3>2 DEF Back
    <3>4. idPos + 1 <= Len(idFile) /\ 1 .. idPos + 1 = (1 .. idPos) \cup {idPos + 1}
      BY <1>1, <1>2
    <3>5. ASSUME NEW x, Back(idStore, store, x) PROVE Back(idStore', store, x)
      <4>1. CASE x = a
        BY <3>3, <3>5, <4>1 DEF Back
      <4>2. CASE x # a
        BY <2>3, <3>5, <4>2 DEF Back
      <4> QED
        BY <4>1, <4>2
    <3>6. ASSUME NEW i \in 1 .. idPos + 1 PROVE isEmpty(idFile[i].addr) \/ Back(idStore', store, idFile[i].addr)
      <4>1. CASE i = idPos + 1
        BY <3>3, <4>1 DEF e
      <4>2. CASE i \in 1 .. idPos
        BY <3>1, <3>5, <4>2 DEF ReadSoFar
      <4> QED
        BY <3>4, <4>1, <4>2
    <3>7. ASSUME NEW x \in DOMAIN idStore'
          PROVE  Back(idStore', store, x) \/ \E z \in DOMAIN store : isEmpty(z) /\ idStore'[x] = store[z]
      <4>1. CASE x = a
        BY <3>2, <3>3, <4>1
      <4>2. CASE x # a
        <5>1. x \in DOMAIN idStore /\ idStore'[x] = idStore[x]
          BY <2>3, <4>2
        <5>2. Back(idStore, store, x) \/ \E z \in DOMAIN store : isEmpty(z) /\ idStore[x] = store[z]
          BY <3>1, <5>1 DEF ReadSoFar, NothingElse
        <5> QED
          BY <3>5, <5>1, <5>2
      <4> QED
        BY <4>1, <4>2
    <3>8. ReadSoFar(idStore', idFile, idPos + 1, store)
      BY <3>4, <3>6, <3>7 DEF ReadSoFar, NothingElse
    <3> QED
      BY <3>1, <3>8 DEF store
  <2>6. NoDeviceDisplaced'
    <3> SUFFICES ASSUME AssignedFirst(idFile), idBackend = "json", NEW i \in 1 .. idPos + 1
                 PROVE  \E b \in DOMAIN idStore' :
                          /\ idStore'[b] = idFile[i].eui
                          /\ isEmpty(idFile[i].addr) \/ idFile[i].addr = b
      BY <1>1, <2>1 DEF NoDeviceDisplaced, AssignedFirst
    <3>1. CASE i = idPos + 1
      <4>1. idFile[i] = e
        BY <3>1 DEF e
      <4> QED
        BY <2>2, <2>3, <4>1
    <3>2. CASE i \in 1 .. idPos
      <4>1. PICK b \in DOMAIN idStore : idStore[b] = idFile[i].eui /\ (isEmpty(idFile[i].addr) \/ idFile[i].addr = b)
        BY <1>1, <3>2 DEF IdInv, NoDeviceDisplaced
      <4>2. b # a
        <5>1. CASE isEmpty(e.addr)
          BY <2>2, <4>1, <5>1
        <5>2. CASE ~isEmpty(e.addr)
          <6>1. i \in 1 .. Len(idFile) /\ i < idPos + 1
            BY <1>1, <1>2, <3>2
          <6>2. ~isEmpty(idFile[i].addr) /\ idFile[i].addr # e.addr
            BY <1>2, <5>2, <6>1 DEF AssignedFirst, e
          <6> QED
            BY <2>2, <4>1, <5>2, <6>2
        <5> QED
          BY <5>1, <5>2
      <4> QED
        BY <2>3, <4>1, <4>2
    <3> QED
      BY <1>1, <3>1, <3>2
  <2> QED
    BY <2>4, <2>5, <2>6 DEF IdInv
<1> QED
  BY <1>6, <1>7

\* A line of a text file; the text service promises nothing of its file.
LEMMA LoadLineInv == IdInv /\ LoadLine => IdInv'
<1> SUFFICES ASSUME IdInv, LoadLine PROVE IdInv'
  OBVIOUS
<1> DEFINE e == idFile[idPos + 1]
<1>1. /\ StoreOK(idStore) /\ idMaxAddr \in Nat /\ idPos \in Nat /\ idFile \in Seq(FileEntry)
      /\ idPos < Len(idFile) /\ idPos' = idPos + 1 /\ UNCHANGED <<idBackend, idFile>> /\ idBackend = "dir"
  BY DEF IdInv, IdTypeOK, LoadLine
<1>2. e.addr \in IdAddrs \cup {Unassigned} /\ e.eui \in IdEuis
  <2>1. Len(idFile) \in Nat /\ idPos + 1 \in 1 .. Len(idFile)
    BY <1>1
  <2>2. e \in FileEntry
    BY <1>1, <2>1
  <2> QED
    BY <2>2 DEF FileEntry
<1>3. IF e.addr = Unassigned THEN UNCHANGED <<idStore, idMaxAddr>> ELSE Stored(e.addr, e.eui)
  BY DEF LoadLine
<1> HIDE DEF e
<1>4. StoreOK(idStore)' /\ idMaxAddr' \in Nat
  <2>1. CASE e.addr = Unassigned
    BY <1>1, <1>3, <2>1 DEF StoreOK
  <2>2. CASE e.addr # Unassigned
    BY <1>1, <1>2, <1>3, <2>2, StoredOK
  <2> QED
    BY <2>1, <2>2
<1>5. IdTypeOK'
  BY <1>1, <1>4 DEF IdTypeOK
<1>6. FlushInv' /\ NoDeviceDisplaced'
  BY <1>1 DEF FlushInv, NoDeviceDisplaced
<1> QED
  BY <1>5, <1>6 DEF IdInv

\* init(): the storage is empty, or what LMDB holds; nothing of the file was read.
LEMMA InitServiceInv == IdInv /\ InitService => IdInv'
<1> SUFFICES ASSUME IdInv, InitService PROVE IdInv'
  OBVIOUS
<1>1. /\ idState' = "loading" /\ idPos' = 0 /\ idMaxAddr' = 0 /\ UNCHANGED <<idBackend, idFile>>
      /\ idStore' = IF idBackend = "lmdb" THEN idStore ELSE <<>>
      /\ idAnswer' = IF idAnswer.op = "flush" THEN idAnswer ELSE NoAnswer
  BY DEF InitService
<1>2. StoreOK(<<>>) /\ DOMAIN <<>> = {}
  BY FS_EmptySet DEF StoreOK
<1>3. IdTypeOK'
  BY <1>1, <1>2 DEF IdInv, IdTypeOK, StoreOK
<1>4. FlushInv'
  <2> SUFFICES ASSUME idBackend = "json", idAnswer'.op = "flush"
               PROVE  /\ idAnswer' = idAnswer
                      /\ StoreOK(idAnswer.store) /\ idFile = EntriesOf(idAnswer.store)
                      /\ ReadSoFar(<<>>, idFile, 0, idAnswer.store)
    BY <1>1 DEF FlushInv, StoreOK
  <2>1. idAnswer' = idAnswer /\ idAnswer.op = "flush"
    BY <1>1 DEF NoAnswer
  <2>2. StoreOK(idAnswer.store) /\ idFile = EntriesOf(idAnswer.store)
    BY <2>1 DEF IdInv, FlushInv
  <2>3. idStore' = <<>> /\ DOMAIN idStore' = {}
    BY <1>1, <1>2
  <2>4. Len(idFile) \in Nat
    BY DEF IdInv, IdTypeOK
  <2>5. ReadSoFar(<<>>, idFile, 0, idAnswer.store)
    BY <1>2, <2>4 DEF ReadSoFar, NothingElse
  <2> QED
    BY <2>1, <2>2, <2>5
<1>5. NoDeviceDisplaced'
  BY <1>1 DEF NoDeviceDisplaced
<1> QED
  BY <1>3, <1>4, <1>5 DEF IdInv

\* The whole file is read: after a flush, that is the whole storage.
LEMMA LoadedInv == IdInv /\ Loaded => IdInv'
<1> SUFFICES ASSUME IdInv, Loaded PROVE IdInv'
  OBVIOUS
<1>1. /\ idState = "loading" /\ idPos = Len(idFile) /\ idState' = "up"
      /\ UNCHANGED <<idBackend, idFile, idStore, idMaxAddr, idPos, idAnswer>>
  BY DEF Loaded
<1>2. IdTypeOK'
  BY <1>1 DEF IdInv, IdTypeOK, StoreOK
<1>3. FlushInv'
  <2> SUFFICES ASSUME idBackend = "json", idAnswer.op = "flush"
               PROVE  /\ StoreOK(idAnswer.store) /\ idFile = EntriesOf(idAnswer.store)
                      /\ Returned(idStore, idAnswer.store)
    BY <1>1 DEF FlushInv
  <2> DEFINE store == idAnswer.store
  <2>1. StoreOK(store) /\ idFile = EntriesOf(store) /\ ReadSoFar(idStore, idFile, idPos, store)
    BY <1>1 DEF IdInv, FlushInv
  <2> HIDE DEF store
  <2>2. ASSUME NEW a \in DOMAIN store PROVE isEmpty(a) \/ Back(idStore, store, a)
    <3>0. {EntriesOf(store)[i].addr : i \in 1 .. Len(EntriesOf(store))} = DOMAIN store
      BY <2>1, EntriesComplete
    <3>1. PICK i \in 1 .. Len(EntriesOf(store)) : EntriesOf(store)[i].addr = a
      BY <3>0
    <3> QED
      BY <1>1, <2>1, <3>1 DEF ReadSoFar
  <2>3. Returned(idStore, store)
    BY <2>1, <2>2 DEF Returned, ReadSoFar
  <2> QED
    BY <2>1, <2>3 DEF store
<1>4. NoDeviceDisplaced'
  BY <1>1 DEF NoDeviceDisplaced
<1> QED
  BY <1>2, <1>3, <1>4 DEF IdInv

LEMMA FlushServiceInv ==
  ASSUME IdInv, NEW opened \in BOOLEAN, FlushService(opened)
  PROVE  IdInv'
<1>1. /\ idState' = "up" /\ idAnswer'.store = idStore /\ (idAnswer'.op = "flush" => opened)
      /\ idFile' = IF idBackend = "json" /\ opened THEN EntriesOf(idStore) ELSE idFile
      /\ UNCHANGED <<idBackend, idStore, idMaxAddr, idPos>>
  BY DEF FlushService, Called, saveEntries
<1>2. StoreOK(idStore) /\ EntriesOf(idStore) \in Seq(FileEntry)
  BY EntriesComplete DEF IdInv, IdTypeOK
<1>3. IdTypeOK'
  BY <1>1, <1>2 DEF IdInv, IdTypeOK, StoreOK
<1>4. FlushInv'
  <2>1. Returned(idStore, idStore)
    BY DEF Returned, NothingElse, Back
  <2> QED
    BY <1>1, <1>2, <2>1 DEF FlushInv
<1>5. NoDeviceDisplaced'
  BY <1>1 DEF NoDeviceDisplaced
<1> QED
  BY <1>3, <1>4, <1>5 DEF IdInv

\* A call that stores or removes at most one device, and gives another answer
\* than a flush.
LEMMA CallInv ==
  ASSUME IdInv, NEW answer, answer.op # "flush", Called(answer), UNCHANGED <<idFile, idState>>,
         \/ UNCHANGED <<idStore, idMaxAddr>>
         \/ \E a \in IdAddrs, eui \in IdEuis : Stored(a, eui)
         \/ \E a \in IdAddrs : idStore' = Without(idStore, a) /\ UNCHANGED idMaxAddr
  PROVE  IdInv'
<1>1. /\ idState' = "up" /\ idAnswer'.op # "flush"
      /\ UNCHANGED <<idBackend, idPos, idFile>>
  BY DEF Called
<1>2. StoreOK(idStore) /\ idMaxAddr \in Nat
  BY DEF IdInv, IdTypeOK
<1>3. StoreOK(idStore)' /\ idMaxAddr' \in Nat
  <2>1. CASE UNCHANGED <<idStore, idMaxAddr>>
    BY <1>2, <2>1 DEF StoreOK
  <2>2. CASE \E a \in IdAddrs, eui \in IdEuis : Stored(a, eui)
    BY <1>2, <2>2, StoredOK
  <2>3. CASE \E a \in IdAddrs : idStore' = Without(idStore, a) /\ UNCHANGED idMaxAddr
    <3>1. PICK a \in IdAddrs : idStore' = [x \in DOMAIN idStore \ {a} |-> idStore[x]]
      BY <2>3 DEF Without
    <3>2. DOMAIN idStore' = DOMAIN idStore \ {a}
      BY <3>1
    <3>3. IsFiniteSet(DOMAIN idStore')
      BY <1>2, <3>2, FS_Subset DEF StoreOK
    <3>4. idStore' \in [DOMAIN idStore' -> IdEuis]
      BY <1>2, <3>1 DEF StoreOK
    <3> QED
      BY <1>2, <2>3, <3>2, <3>3, <3>4 DEF StoreOK
  <2> QED
    BY <2>1, <2>2, <2>3
<1> QED
  BY <1>1, <1>3, IdAnswered

LEMMA IdNextInv == IdInv /\ [IdNext]_idVars => IdInv'
<1> SUFFICES ASSUME IdInv, [IdNext]_idVars PROVE IdInv'
  OBVIOUS
<1>1. CASE InitService
  BY <1>1, InitServiceInv
<1>2. CASE LoadEntry
  BY <1>2, LoadEntryInv
<1>3. CASE Loaded
  BY <1>3, LoadedInv
<1>4. ASSUME NEW opened \in BOOLEAN, FlushService(opened) PROVE IdInv'
  BY <1>4, FlushServiceInv
<1>5. CASE StopService
  <2>1. /\ idState' = "down"
        /\ UNCHANGED <<idBackend, idFile, idStore, idMaxAddr, idPos, idAnswer>>
    BY <1>5 DEF StopService
  <2>2. StoreOK(idStore)' /\ idMaxAddr' \in Nat
    BY <2>1 DEF IdInv, IdTypeOK, StoreOK
  <2> QED
    BY <2>1, <2>2, IdAnswered
<1>6. ASSUME NEW a \in IdAddrs, GetDevice(a) PROVE IdInv'
  <2> DEFINE answer == [op |-> "get", addr |-> a, eui |-> get(idBackend, idStore, a),
                        control |-> idBackend # "lmdb" /\ a \in idRights]
  <2>1. /\ Called(answer) /\ UNCHANGED <<idFile, idStore, idMaxAddr, idState>>
    BY <1>6 DEF GetDevice
  <2>2. answer.op # "flush"
    OBVIOUS
  <2> HIDE DEF answer
  <2> QED
    BY <2>1, <2>2, CallInv
<1>7. ASSUME NEW a \in IdAddrs, RmDevice(a) PROVE IdInv'
  BY <1>7, CallInv DEF RmDevice, NoAnswer
<1>8. ASSUME NEW a \in IdAddrs, NEW eui \in IdEuis, PutDevice(a, eui) PROVE IdInv'
  BY <1>8, CallInv DEF PutDevice, NoAnswer
<1>9. ASSUME NEW a \in IdAddrs, NEW eui \in IdEuis, PutDeviceMapFull(a, eui) PROVE IdInv'
  BY <1>9, CallInv DEF PutDeviceMapFull, NoAnswer
<1>10. ASSUME NEW eui \in IdEuis, JoinDevice(eui) PROVE IdInv'
  <2>1. PICK a : Called([op |-> "join", eui |-> eui, addr |-> a])
    BY <1>10 DEF JoinDevice
  <2>2. [op |-> "join", eui |-> eui, addr |-> a].op # "flush"
    OBVIOUS
  <2>3. UNCHANGED <<idFile, idStore, idMaxAddr, idState>>
    BY <1>10 DEF JoinDevice
  <2> QED
    BY <2>1, <2>2, <2>3, CallInv
<1>11. CASE UNCHANGED idVars
  BY <1>11 DEF idVars, IdInv, IdTypeOK, StoreOK, FlushInv, ReadSoFar, Returned, NothingElse, Back,
               NoDeviceDisplaced, AssignedFirst
<1>12. CASE LoadLine
  BY <1>12, LoadLineInv
<1> QED
  BY <1>1, <1>2, <1>3, <1>4, <1>5, <1>6, <1>7, <1>8, <1>9, <1>10, <1>11, <1>12 DEF IdNext

LEMMA IdAlways == IdSpec => []IdInv
  BY IdInitInv, IdNextInv, PTL DEF IdSpec

(***************************************************************************)
(* While the JSON service reads a file of any length, no entry takes the   *)
(* address of a device read before it, however next() finds the addresses  *)
(* of the entries that have none.                                          *)
(***************************************************************************)
THEOREM NobodyDisplaced == IdSpec => []NoDeviceDisplaced
<1>1. IdInv => NoDeviceDisplaced
  BY DEF IdInv
<1> QED
  BY <1>1, IdAlways, PTL

(***************************************************************************)
(* What the JSON service wrote is what it holds when it was started again, *)
(* except for the device at the word of zeros: save() writes every address *)
(* once, load() puts every entry that has one back under its own, and the  *)
(* address next() finds for the other takes nothing away from them; for    *)
(* every storage and every number of restarts.                             *)
(***************************************************************************)
THEOREM FlushSurvivesRestart == IdSpec => []FlushedComesBack
<1>1. IdInv => FlushedComesBack
  BY DEF IdInv, FlushInv, FlushedComesBack, Returned, NothingElse, Back
<1> QED
  BY <1>1, IdAlways, PTL

(***************************************************************************)
(* joinAccept() of the JSON and the text service gives a device the first  *)
(* of its own addresses or, when it has none, one that nobody has.         *)
(***************************************************************************)
THEOREM JoinAddressIsOwn == IdSpec => JoinGivesNoForeignAddress
<1> DEFINE Act(eui) == JoinDevice(eui) /\ idBackend # "lmdb" /\ idAnswer'.addr # Unassigned =>
                         getStorage(idStore, idAnswer'.addr) \in {eui, "notfound"}
<1>1. ASSUME IdInv, NEW eui \in IdEuis PROVE Act(eui)
  <2> SUFFICES ASSUME JoinDevice(eui), idBackend # "lmdb", idAnswer'.addr # Unassigned
               PROVE  getStorage(idStore, idAnswer'.addr) \in {eui, "notfound"}
    OBVIOUS
  <2> DEFINE known == getNetworkIdentity(idBackend, idStore, eui)
  <2>1. PICK a \in (IF known # Unassigned /\ isEmpty(known)
                      THEN idNext(idBackend, idStore, idMaxAddr) ELSE {known}) :
          Called([op |-> "join", eui |-> eui, addr |-> a])
    BY DEF JoinDevice
  <2>2. idAnswer'.addr = a /\ a # Unassigned
    BY <2>1 DEF Called
  <2>3. StoreOK(idStore) /\ idMaxAddr \in Nat
    BY <1>1 DEF IdInv, IdTypeOK
  <2>4. CASE known # Unassigned /\ isEmpty(known)
    <3>1. a \in nextJson(idStore, idMaxAddr)
      BY <2>1, <2>4 DEF idNext
    <3>2. a \notin DOMAIN idStore
      BY <2>2, <2>3, <3>1, NextIsFree
    <3> QED
      BY <2>2, <3>2 DEF getStorage
  <2>5. CASE ~(known # Unassigned /\ isEmpty(known))
    <3> DEFINE S == HasEui(idStore, eui)
    <3>1. S # {} /\ known = FirstOf(S, Before)
      BY <2>1, <2>2, <2>5 DEF getNetworkIdentity
    <3>2. S \subseteq DOMAIN idStore /\ \A x \in S : idStore[x] = eui
      BY DEF HasEui
    <3>3. IsFiniteSet(S) /\ S \subseteq IdAddrs
      BY <2>3, <3>2, FS_Subset DEF StoreOK
    <3> HIDE DEF S, known
    <3>4. known \in S
      BY <3>1, <3>3, FirstIsMember
    <3>5. a = known
      BY <2>1, <2>5
    <3> QED
      BY <2>2, <3>2, <3>4, <3>5 DEF getStorage
  <2> QED
    BY <2>4, <2>5
<1>2. IdInv => [\A eui \in IdEuis : Act(eui)]_idVars
  BY <1>1
<1> QED
  BY <1>2, IdAlways, PTL DEF JoinGivesNoForeignAddress

-----------------------------------------------------------------------------
(***************************************************************************)
(* The listener and the statistics services.                               *)
(***************************************************************************)
(***************************************************************************)
(* One service: its list, its file, the copies, what posts have lost and   *)
(* the number n of entries put.  Nothing is at two places.                 *)
(***************************************************************************)
Places3(copy) == UNION {Range(copy[v]) : v \in StSavers}

Held(copy) == Len(copy["runner"]) + Len(copy["listener"]) + Len(copy["closer"])

Kept1(list, file, copy, lost, n) ==
    /\ list \in Seq(Nat) /\ file \in Seq(Nat) /\ copy \in [StSavers -> Seq(Nat)]
    /\ n \in Nat /\ IsFiniteSet(lost)
    /\ IsInjective(list) /\ \A v \in StSavers : IsInjective(copy[v])
    /\ \A v \in StSavers : Range(list) \cap Range(copy[v]) = {} /\ lost \cap Range(copy[v]) = {}
    /\ \A v, w \in StSavers : v # w => Range(copy[v]) \cap Range(copy[w]) = {}
    /\ lost \cap Range(list) = {}
    /\ Range(file) \cup lost \cup Range(list) \cup Places3(copy) = 1 .. n
    /\ Len(file) + Cardinality(lost) + Len(list) + Held(copy) = n

\* What the savers hold when one copy is replaced.
LEMMA HeldExcept ==
  ASSUME NEW copy \in [StSavers -> Seq(Nat)], NEW v \in StSavers, NEW s \in Seq(Nat)
  PROVE  /\ Held(copy) \in Nat /\ Held([copy EXCEPT ![v] = s]) \in Nat
         /\ Held([copy EXCEPT ![v] = s]) + Len(copy[v]) = Held(copy) + Len(s)
<1> DEFINE new == [copy EXCEPT ![v] = s]
           a == Len(copy["runner"])
           b == Len(copy["listener"])
           c == Len(copy["closer"])
           x == Len(new["runner"])
           y == Len(new["listener"])
           z == Len(new["closer"])
<1>1. \A w \in StSavers : new[w] = IF w = v THEN s ELSE copy[w]
  OBVIOUS
<1>2. \A w \in StSavers : Len(copy[w]) \in Nat /\ Len(new[w]) \in Nat
  <2>1. \A w \in StSavers : copy[w] \in Seq(Nat) /\ new[w] \in Seq(Nat)
    OBVIOUS
  <2> HIDE DEF new
  <2> QED
    BY <2>1, LenProperties
<1>3. a \in Nat /\ b \in Nat /\ c \in Nat /\ x \in Nat /\ y \in Nat /\ z \in Nat
  BY <1>2 DEF StSavers
<1>4. Held(copy) = a + b + c /\ Held(new) = x + y + z
  BY DEF Held
<1>5. Len(s) \in Nat /\ Len(copy[v]) \in Nat
  BY <1>2
<1>6. CASE v = "runner"
  <2>1. Len(copy[v]) = a /\ Len(s) = x /\ b = y /\ c = z
    BY <1>1, <1>6 DEF StSavers
  <2> HIDE DEF new, a, b, c, x, y, z
  <2> QED
    BY <1>3, <1>4, <2>1 DEF new
<1>7. CASE v = "listener"
  <2>1. Len(copy[v]) = b /\ Len(s) = y /\ a = x /\ c = z
    BY <1>1, <1>7 DEF StSavers
  <2> HIDE DEF new, a, b, c, x, y, z
  <2> QED
    BY <1>3, <1>4, <2>1 DEF new
<1>8. CASE v = "closer"
  <2>1. Len(copy[v]) = c /\ Len(s) = z /\ a = x /\ b = y
    BY <1>1, <1>8 DEF StSavers
  <2> HIDE DEF new, a, b, c, x, y, z
  <2> QED
    BY <1>3, <1>4, <2>1 DEF new
<1> HIDE DEF new, a, b, c, x, y, z
<1> QED
  BY <1>6, <1>7, <1>8 DEF StSavers

\* The first half of save(): the list becomes the copy.
LEMMA TakeKeeps ==
  ASSUME NEW list, NEW file, NEW copy, NEW lost, NEW n, NEW v \in StSavers,
         Kept1(list, file, copy, lost, n), copy[v] = <<>>
  PROVE  Kept1(<<>>, file, [copy EXCEPT ![v] = list], lost, n)
<1> DEFINE new == [copy EXCEPT ![v] = list]
<1>1. <<>> \in Seq(Nat) /\ Len(<<>>) = 0 /\ Range(<<>>) = {} /\ IsInjective(<<>>)
  BY DEF Range, IsInjective
<1>2. new \in [StSavers -> Seq(Nat)] /\ new[v] = list /\ \A w \in StSavers \ {v} : new[w] = copy[w]
  BY DEF Kept1
<1>3. Places3(new) = Range(list) \cup Places3(copy)
  BY <1>1, <1>2 DEF Places3
<1>4. Held(copy) \in Nat
  BY HeldExcept, <1>1 DEF Kept1
<1>5. Len(list) \in Nat /\ Len(file) \in Nat /\ Cardinality(lost) \in Nat
  BY FS_CardinalityType DEF Kept1
<1>6. Len(file) + Cardinality(lost) + Len(<<>>) + Held(new) = n
  <2>1. Held(new) \in Nat /\ Held(new) + Len(copy[v]) = Held(copy) + Len(list)
    BY HeldExcept DEF Kept1
  <2>2. Len(copy[v]) = 0 /\ n \in Nat /\ Len(file) + Cardinality(lost) + Len(list) + Held(copy) = n
    BY <1>1 DEF Kept1
  <2> HIDE DEF new
  <2> QED
    BY <1>1, <1>4, <1>5, <2>1, <2>2
<1> HIDE DEF new
<1>7. Kept1(<<>>, file, new, lost, n)
  <2>1. Range(file) \cup lost \cup Range(<<>>) \cup Places3(new) = 1 .. n
    BY <1>1, <1>3 DEF Kept1
  <2>2. \A w, u \in StSavers : w # u => Range(new[w]) \cap Range(new[u]) = {}
    BY <1>2 DEF Kept1
  <2> QED
    BY <1>1, <1>2, <1>6, <2>1, <2>2 DEF Kept1
<1> QED
  BY <1>7 DEF new

\* The second half of save(): the copy goes to the file, or is lost with a post
\* that failed.
LEMMA WriteKeeps ==
  ASSUME NEW list, NEW file, NEW copy, NEW lost, NEW n, NEW v \in StSavers,
         Kept1(list, file, copy, lost, n)
  PROVE  /\ Kept1(list, file \o copy[v], [copy EXCEPT ![v] = <<>>], lost, n)
         /\ Kept1(list, file, [copy EXCEPT ![v] = <<>>], lost \cup Range(copy[v]), n)
<1> DEFINE new == [copy EXCEPT ![v] = <<>>]
           gone == Range(copy[v])
<1>1. <<>> \in Seq(Nat) /\ Len(<<>>) = 0 /\ Range(<<>>) = {} /\ IsInjective(<<>>)
  BY DEF Range, IsInjective
<1>2. new \in [StSavers -> Seq(Nat)] /\ new[v] = <<>> /\ \A w \in StSavers \ {v} : new[w] = copy[w]
  BY <1>1 DEF Kept1
<1>3. Places3(copy) = gone \cup Places3(new)
  BY <1>1, <1>2 DEF Places3
<1>4. Held(copy) \in Nat
  BY HeldExcept, <1>1 DEF Kept1
<1>5. Len(list) \in Nat /\ Len(file) \in Nat /\ Cardinality(lost) \in Nat
  BY FS_CardinalityType DEF Kept1
<1>6. copy[v] \in Seq(Nat) /\ IsInjective(copy[v]) /\ lost \cap gone = {}
  BY DEF Kept1
<1>7. IsFiniteSet(gone) /\ Cardinality(gone) = Len(copy[v])
  BY <1>6, RangeCardinality
<1>8. /\ IsFiniteSet(lost \cup gone)
      /\ Cardinality(lost \cup gone) = Cardinality(lost) + Len(copy[v])
  <2>1. IsFiniteSet(lost) /\ Cardinality(lost \cap gone) = 0
    BY <1>6, FS_EmptySet DEF Kept1
  <2>2. /\ IsFiniteSet(lost \cup gone)
        /\ Cardinality(lost \cup gone) = Cardinality(lost) + Cardinality(gone) - Cardinality(lost \cap gone)
    BY <1>7, <2>1, FS_Union
  <2> HIDE DEF gone
  <2>3. Len(copy[v]) \in Nat
    BY <1>6, LenProperties
  <2> QED
    BY <1>5, <1>7, <2>1, <2>2, <2>3
<1>9. /\ file \o copy[v] \in Seq(Nat)
      /\ Len(file \o copy[v]) = Len(file) + Len(copy[v])
      /\ Range(file \o copy[v]) = Range(file) \cup gone
  BY <1>6, ConcatProperties, RangeConcatenation DEF Kept1
<1>10. Held(new) \in Nat /\ Held(new) + Len(copy[v]) = Held(copy)
  <2>1. Held(new) \in Nat /\ Held(new) + Len(copy[v]) = Held(copy) + Len(<<>>)
    BY <1>1, HeldExcept DEF Kept1
  <2> HIDE DEF new
  <2> QED
    BY <1>1, <1>4, <2>1
<1>11. Len(copy[v]) \in Nat
  BY <1>6, LenProperties
<1>12. Len(file) + Cardinality(lost) + Len(list) + Held(copy) = n /\ n \in Nat
  BY DEF Kept1
<1> HIDE DEF new, gone
<1>13. /\ \A w \in StSavers : IsInjective(new[w])
       /\ \A w \in StSavers : Range(list) \cap Range(new[w]) = {} /\ (lost \cup gone) \cap Range(new[w]) = {}
       /\ \A w, u \in StSavers : w # u => Range(new[w]) \cap Range(new[u]) = {}
  BY <1>1, <1>2 DEF Kept1, gone
<1>14. (lost \cup gone) \cap Range(list) = {}
  BY DEF Kept1, gone
<1>15. Kept1(list, file \o copy[v], new, lost, n)
  <2>1. Range(file \o copy[v]) \cup lost \cup Range(list) \cup Places3(new) = 1 .. n
    BY <1>3, <1>9 DEF Kept1
  <2>2. Len(file \o copy[v]) + Cardinality(lost) + Len(list) + Held(new) = n
    BY <1>4, <1>5, <1>9, <1>10, <1>11, <1>12
  <2> QED
    BY <1>2, <1>9, <1>13, <2>1, <2>2 DEF Kept1
<1>16. Kept1(list, file, new, lost \cup gone, n)
  <2>1. Range(file) \cup (lost \cup gone) \cup Range(list) \cup Places3(new) = 1 .. n
    BY <1>3 DEF Kept1
  <2>2. Len(file) + Cardinality(lost \cup gone) + Len(list) + Held(new) = n
    BY <1>4, <1>5, <1>8, <1>10, <1>11, <1>12
  <2> QED
    BY <1>2, <1>8, <1>13, <1>14, <2>1, <2>2 DEF Kept1
<1> QED
  BY <1>15, <1>16 DEF new, gone

\* put(): the next entry is added to the list.
LEMMA AddKeeps ==
  ASSUME NEW list, NEW file, NEW copy, NEW lost, NEW n,
         Kept1(list, file, copy, lost, n)
  PROVE  Kept1(Append(list, n + 1), file, copy, lost, n + 1)
<1>1. list \in Seq(Nat) /\ n \in Nat /\ n + 1 \in Nat
  BY DEF Kept1
<1>2. n + 1 \notin Range(list) \cup lost \cup Places3(copy)
  <2>1. Range(list) \cup lost \cup Places3(copy) \subseteq 1 .. n
    BY DEF Kept1
  <2> QED
    BY <1>1, <2>1
<1>3. \A v \in StSavers : n + 1 \notin Range(copy[v])
  BY <1>2 DEF Places3
<1>4. /\ Append(list, n + 1) \in Seq(Nat) /\ Len(Append(list, n + 1)) = Len(list) + 1
      /\ Range(Append(list, n + 1)) = Range(list) \cup {n + 1}
      /\ IsInjective(Append(list, n + 1))
  BY <1>1, <1>2, AppendProperties, RangeAppend, InjectiveAppend DEF Kept1
<1>5. Range(file) \cup lost \cup Range(Append(list, n + 1)) \cup Places3(copy) = 1 .. n + 1
  <2>1. 1 .. n + 1 = (1 .. n) \cup {n + 1}
    BY <1>1
  <2> QED
    BY <1>4, <2>1 DEF Kept1
<1>6. Held(copy) \in Nat
      /\ Len(list) \in Nat /\ Len(file) \in Nat /\ Cardinality(lost) \in Nat
  BY HeldExcept, LenProperties, FS_CardinalityType DEF Kept1, StSavers
<1>7. Len(file) + Cardinality(lost) + Len(Append(list, n + 1)) + Held(copy) = n + 1
  <2>1. Len(file) + Cardinality(lost) + Len(list) + Held(copy) = n
    BY DEF Kept1
  <2> DEFINE l == Len(Append(list, n + 1))
  <2>2. l = Len(list) + 1
    BY <1>4
  <2> HIDE DEF l
  <2>3. Len(file) + Cardinality(lost) + l + Held(copy) = n + 1
    BY <1>1, <1>6, <2>1, <2>2
  <2> QED
    BY <2>3 DEF l
<1> QED
  BY <1>1, <1>2, <1>3, <1>4, <1>5, <1>7 DEF Kept1

-----------------------------------------------------------------------------
(***************************************************************************)
(* Both services.                                                          *)
(***************************************************************************)
StTypeOK ==
    /\ stList \in [StServices -> Seq(Nat)] /\ stFile \in [StServices -> Seq(Nat)]
    /\ stCopy \in [StServices -> [StSavers -> Seq(Nat)]]
    /\ stLost \in [StServices -> SUBSET Nat] /\ stPut \in [StServices -> Nat]

KeptOf(s) == Kept1(stList[s], stFile[s], stCopy[s], stLost[s], stPut[s])

StKept == StTypeOK /\ \A s \in StServices : KeptOf(s)

LEMMA StInitKept == StInit => StKept
<1> SUFFICES ASSUME StInit PROVE StKept
  OBVIOUS
<1>1. <<>> \in Seq(Nat) /\ Len(<<>>) = 0 /\ Range(<<>>) = {} /\ IsInjective(<<>>)
  BY DEF Range, IsInjective
<1>2. StTypeOK
  BY <1>1 DEF StInit, StTypeOK
<1> DEFINE none == [v \in StSavers |-> <<>>]
<1>3. /\ none \in [StSavers -> Seq(Nat)] /\ Places3(none) = {}
      /\ \A v \in StSavers : none[v] = <<>>
  BY <1>1 DEF Places3
<1>4. Held(none) = 0
  BY <1>1, <1>3 DEF Held, StSavers
<1>5. IsFiniteSet({}) /\ Cardinality({}) = 0
  BY FS_EmptySet
<1>6. Kept1(<<>>, <<>>, none, {}, 0)
  <2> HIDE DEF none
  <2>1. {} = 1 .. 0
    OBVIOUS
  <2> QED
    BY <1>1, <1>3, <1>4, <1>5, <2>1 DEF Kept1
<1>7. ASSUME NEW s \in StServices
      PROVE  stList[s] = <<>> /\ stFile[s] = <<>> /\ stCopy[s] = none /\ stLost[s] = {} /\ stPut[s] = 0
  BY DEF StInit
<1> QED
  BY <1>2, <1>6, <1>7 DEF StKept, KeptOf

LEMMA TakeCopyKept ==
  ASSUME StKept, NEW s \in StServices, NEW v \in StSavers, TakeCopy(s, v)
  PROVE  StKept'
<1>1. StTypeOK'
  BY DEF StKept, StTypeOK, TakeCopy
<1>2. /\ stList'[s] = <<>> /\ stCopy'[s] = [stCopy[s] EXCEPT ![v] = stList[s]]
      /\ stCopy[s][v] = <<>>
      /\ \A r \in StServices \ {s} : stList'[r] = stList[r] /\ stCopy'[r] = stCopy[r]
      /\ stFile' = stFile /\ stLost' = stLost /\ stPut' = stPut
  BY DEF StKept, StTypeOK, TakeCopy
<1>3. KeptOf(s)'
  BY <1>2, TakeKeeps DEF StKept, KeptOf
<1>4. ASSUME NEW r \in StServices \ {s} PROVE KeptOf(r)'
  BY <1>2 DEF StKept, KeptOf
<1> QED
  BY <1>1, <1>3, <1>4 DEF StKept

LEMMA WriteCopyKept ==
  ASSUME StKept, NEW s \in StServices, NEW v \in StSavers, WriteCopy(s, v)
  PROVE  StKept'
<1>1. stCopy[s][v] \in Seq(Nat) /\ stFile[s] \in Seq(Nat) /\ ToSet(stCopy[s][v]) = Range(stCopy[s][v])
  BY DEF StKept, StTypeOK, ToSet, Range
<1>2. /\ stFile[s] \o stCopy[s][v] \in Seq(Nat) /\ Range(stCopy[s][v]) \subseteq Nat
      /\ <<>> \in Seq(Nat)
  BY <1>1, ConcatProperties, RangeOfSeq
<1>3. /\ stCopy' = [stCopy EXCEPT ![s][v] = <<>>] /\ UNCHANGED <<stList, stPut>>
      /\ \/ stFile' = [stFile EXCEPT ![s] = @ \o stCopy[s][v]] /\ UNCHANGED stLost
         \/ stLost' = [stLost EXCEPT ![s] = @ \cup Range(stCopy[s][v])] /\ UNCHANGED stFile
  BY <1>1 DEF WriteCopy, AppendSucceeds, AppendFails
<1>4. StTypeOK'
  <2>1. stCopy' \in [StServices -> [StSavers -> Seq(Nat)]]
    BY <1>2, <1>3 DEF StKept, StTypeOK
  <2>2. stFile' \in [StServices -> Seq(Nat)] /\ stLost' \in [StServices -> SUBSET Nat]
    BY <1>2, <1>3 DEF StKept, StTypeOK
  <2> QED
    BY <1>3, <2>1, <2>2 DEF StKept, StTypeOK
<1>5. /\ stCopy'[s] = [stCopy[s] EXCEPT ![v] = <<>>]
      /\ \A r \in StServices \ {s} : stCopy'[r] = stCopy[r] /\ stFile'[r] = stFile[r] /\ stLost'[r] = stLost[r]
      /\ \/ stFile'[s] = stFile[s] \o stCopy[s][v] /\ stLost'[s] = stLost[s]
         \/ stLost'[s] = stLost[s] \cup Range(stCopy[s][v]) /\ stFile'[s] = stFile[s]
  BY <1>3 DEF StKept, StTypeOK
<1>6. KeptOf(s)'
  <2>1. Kept1(stList[s], stFile[s], stCopy[s], stLost[s], stPut[s])
    BY DEF StKept, KeptOf
  <2>2. /\ Kept1(stList[s], stFile[s] \o stCopy[s][v], stCopy'[s], stLost[s], stPut[s])
        /\ Kept1(stList[s], stFile[s], stCopy'[s], stLost[s] \cup Range(stCopy[s][v]), stPut[s])
    <3> DEFINE new == [stCopy[s] EXCEPT ![v] = <<>>]
    <3>1. /\ Kept1(stList[s], stFile[s] \o stCopy[s][v], new, stLost[s], stPut[s])
          /\ Kept1(stList[s], stFile[s], new, stLost[s] \cup Range(stCopy[s][v]), stPut[s])
      BY <2>1, WriteKeeps
    <3>2. stCopy'[s] = new
      BY <1>5
    <3> HIDE DEF new
    <3> QED
      BY <3>1, <3>2
  <2>3. Kept1(stList'[s], stFile'[s], stCopy'[s], stLost'[s], stPut'[s])
    BY <1>3, <1>5, <2>2
  <2> QED
    BY <2>3 DEF KeptOf
<1>7. ASSUME NEW r \in StServices \ {s} PROVE KeptOf(r)'
  BY <1>3, <1>5 DEF StKept, KeptOf
<1> QED
  BY <1>4, <1>6, <1>7 DEF StKept

LEMMA PutAddsKept ==
  ASSUME StKept, NEW s \in StServices, PutAdds(s)
  PROVE  StKept'
<1>1. stList[s] \in Seq(Nat) /\ stPut[s] \in Nat
  BY DEF StKept, StTypeOK
<1>2. Append(stList[s], stPut[s] + 1) \in Seq(Nat) /\ stPut[s] + 1 \in Nat
  BY <1>1, AppendProperties
<1>3. /\ stPut' = [stPut EXCEPT ![s] = @ + 1]
      /\ stList' = [stList EXCEPT ![s] = Append(@, stPut[s] + 1)]
      /\ UNCHANGED <<stFile, stCopy, stLost>>
  BY DEF PutAdds
<1>4. StTypeOK'
  BY <1>2, <1>3 DEF StKept, StTypeOK
<1>5. /\ stPut'[s] = stPut[s] + 1 /\ stList'[s] = Append(stList[s], stPut[s] + 1)
      /\ \A r \in StServices \ {s} : stPut'[r] = stPut[r] /\ stList'[r] = stList[r]
  BY <1>3 DEF StKept, StTypeOK
<1>6. KeptOf(s)'
  BY <1>3, <1>5, AddKeeps DEF StKept, KeptOf
<1>7. ASSUME NEW r \in StServices \ {s} PROVE KeptOf(r)'
  BY <1>3, <1>5 DEF StKept, KeptOf
<1> QED
  BY <1>4, <1>6, <1>7 DEF StKept

-----------------------------------------------------------------------------
(***************************************************************************)
(* The listener.  The process ends with the list of the devices empty and  *)
(* the copy of its last flush() written or lost.                           *)
(***************************************************************************)
SavingInv ==
    /\ stExited = TRUE => /\ lsPc = "closing" /\ stList["device"] = <<>>
                         /\ stCopy["device"]["closer"] = <<>>
    /\ stExited \in BOOLEAN

LsStInv == StKept /\ SavingInv

\* A step of a saver touches its own copy, and the list.
LEMMA SaverStep ==
  ASSUME StTypeOK, NEW s \in StServices, NEW v \in StSavers, TakeCopy(s, v) \/ WriteCopy(s, v)
  PROVE  /\ ~stExited /\ UNCHANGED stExited
         /\ \A r \in StServices, w \in StSavers : r # s \/ w # v => stCopy'[r][w] = stCopy[r][w]
         /\ \A r \in StServices : r # s => stList'[r] = stList[r]
BY DEF StTypeOK, TakeCopy, WriteCopy

LEMMA LsStNext == LsStInv /\ [LsNext]_lsVars => LsStInv'
<1> SUFFICES ASSUME LsStInv, [LsNext]_lsVars PROVE LsStInv'
  OBVIOUS
<1>0. StKept /\ StTypeOK /\ SavingInv
  BY DEF LsStInv, StKept
<1>1. ASSUME UNCHANGED stVars PROVE StKept'
  BY <1>0, <1>1 DEF StKept, StTypeOK, KeptOf, stVars
<1>2. ASSUME NEW d \in LsDatagrams, PushData(d) \/ PullData(d) \/ OtherDatagram(d)
      PROVE  LsStInv'
  <2>1. UNCHANGED stVars /\ ~stExited /\ lsPc = "select"
    BY <1>2 DEF PushData, PullData, OtherDatagram, Arrives
  <2>2. SavingInv'
    BY <1>0, <2>1 DEF SavingInv, stVars
  <2> QED
    BY <1>1, <2>1, <2>2 DEF LsStInv
<1>3. CASE SetSocket \/ Interrupted
  <2>1. UNCHANGED stVars /\ ~stExited
    BY <1>3 DEF SetSocket, Interrupted
  <2>2. SavingInv'
    BY <1>0, <2>1 DEF SavingInv, stVars
  <2> QED
    BY <1>1, <2>1, <2>2 DEF LsStInv
<1>4. CASE DumpDevice
  <2>1. lsPc = "dump" /\ lsWork.todo > 0 /\ lsPc' = "dump"
    BY <1>4 DEF DumpDevice
  <2>2. CASE PutAdds("device")
    <3>1. StKept'
      BY <1>0, <2>2, PutAddsKept DEF StServices
    <3>2. SavingInv'
      BY <1>0, <2>1, <2>2 DEF SavingInv, PutAdds
    <3> QED
      BY <3>1, <3>2 DEF LsStInv
  <2>3. CASE (TakeCopy("device", "listener") \/ WriteCopy("device", "listener")) /\ UNCHANGED lsWork
    <3>1. StKept'
      BY <1>0, <2>3, TakeCopyKept, WriteCopyKept DEF StServices, StSavers
    <3>2. ~stExited /\ UNCHANGED stExited
      BY <1>0, <2>3, SaverStep DEF StServices, StSavers
    <3>3. SavingInv'
      BY <1>0, <2>1, <2>3, <3>2 DEF SavingInv
    <3> QED
      BY <3>1, <3>3 DEF LsStInv
  <2> QED
    BY <1>4, <2>2, <2>3 DEF DumpDevice, PutFlushes, PutFlushed
<1>5. CASE HandlePackets
  <2>1. UNCHANGED stVars /\ ~stExited /\ lsPc = "dump" /\ lsWork.todo = 0
    BY <1>5 DEF HandlePackets
  <2>2. SavingInv'
    BY <1>0, <2>1 DEF SavingInv, stVars
  <2> QED
    BY <1>1, <2>1, <2>2 DEF LsStInv
<1>6. CASE ReflectStat
  <2>1. lsPc = "reflect" /\ UNCHANGED lsWork
    BY <1>6 DEF ReflectStat
  <2>2. CASE PutAdds("gateway")
    <3>1. StKept'
      BY <1>0, <2>2, PutAddsKept DEF StServices
    <3>2. SavingInv'
      BY <1>0, <2>1, <2>2 DEF SavingInv, PutAdds
    <3> QED
      BY <3>1, <3>2 DEF LsStInv
  <2>3. CASE (TakeCopy("gateway", "listener") \/ WriteCopy("gateway", "listener")) /\ UNCHANGED lsPc
    <3>1. StKept'
      BY <1>0, <2>3, TakeCopyKept, WriteCopyKept DEF StServices, StSavers
    <3>2. ~stExited /\ UNCHANGED stExited
      BY <1>0, <2>3, SaverStep DEF StServices, StSavers
    <3>3. SavingInv'
      BY <1>0, <2>1, <2>3, <3>2 DEF SavingInv
    <3> QED
      BY <3>1, <3>3 DEF LsStInv
  <2> QED
    BY <1>6, <2>2, <2>3 DEF ReflectStat, PutFlushes, PutFlushed
<1>7. CASE Close
  <2>1. lsPc = "closing" /\ UNCHANGED <<lsPc, lsWork>>
    BY <1>7 DEF Close, lsOwn
  <2>2. CASE CloserExits
    <3>1. /\ UNCHANGED <<stList, stFile, stCopy, stLost, stPut>> /\ stExited' = TRUE
          /\ stList["device"] = <<>> /\ stCopy["device"]["closer"] = <<>>
      BY <2>2 DEF CloserExits
    <3>2. StKept'
      BY <1>0, <3>1 DEF StKept, StTypeOK, KeptOf
    <3>3. SavingInv'
      BY <1>0, <2>1, <3>1 DEF SavingInv
    <3> QED
      BY <3>2, <3>3 DEF LsStInv
  <2>3. CASE TakeCopy("device", "closer") \/ WriteCopy("device", "closer")
    <3>1. StKept'
      BY <1>0, <2>3, TakeCopyKept, WriteCopyKept DEF StServices, StSavers
    <3>2. ~stExited /\ UNCHANGED stExited
      BY <1>0, <2>3, SaverStep DEF StServices, StSavers
    <3>3. SavingInv'
      BY <1>0, <2>1, <3>2 DEF SavingInv
    <3> QED
      BY <3>1, <3>3 DEF LsStInv
  <2> QED
    BY <1>7, <2>2, <2>3 DEF Close, CloserTakes, CloserWrites
<1>8. ASSUME SenderSends \/ (\E g \in LsKnown : SenderFinds(g)) \/ UNCHANGED lsVars
      PROVE  LsStInv'
  <2>1. UNCHANGED stVars /\ UNCHANGED <<lsPc, lsWork>>
    BY <1>8 DEF SenderSends, SenderFinds, lsVars
  <2>2. SavingInv'
    BY <1>0, <2>1 DEF SavingInv, stVars
  <2> QED
    BY <1>1, <2>1, <2>2 DEF LsStInv
<1>9. ASSUME NEW s \in StServices, StatRunner(s) PROVE LsStInv'
  <2>1. TakeCopy(s, "runner") \/ WriteCopy(s, "runner")
    BY <1>9 DEF StatRunner, RunnerTakes, RunnerWrites
  <2>2. UNCHANGED <<lsPc, lsWork>>
    BY <1>9 DEF StatRunner, lsOwn
  <2>3. StKept'
    BY <1>0, <2>1, TakeCopyKept, WriteCopyKept DEF StSavers
  <2>4. ~stExited /\ UNCHANGED stExited
    BY <1>0, <2>1, SaverStep DEF StServices, StSavers
  <2>5. SavingInv'
    BY <1>0, <2>2, <2>4 DEF SavingInv
  <2> QED
    BY <2>3, <2>5 DEF LsStInv
<1> QED
  BY <1>2, <1>3, <1>4, <1>5, <1>6, <1>7, <1>8, <1>9 DEF LsNext

\* Whatever the listener, the two service threads and the end of the process
\* do to the lists and in whatever order, every statistics entry put is at one
\* place, once, for any buffer size and any datagrams, also when appends and
\* posts fail and when the signal interrupts the listener in save(); at the end
\* only what the thread of the service and the listener held is missing.
THEOREM StatisticsKeptOnce == LsSpec => []StatsKeptOnce
<1>1. LsInit => LsStInv
  <2> SUFFICES ASSUME LsInit PROVE LsStInv
    OBVIOUS
  <2>1. StKept
    BY StInitKept DEF LsInit
  <2>2. SavingInv
    BY DEF LsInit, StInit, SavingInv, StServices, StSavers
  <2> QED
    BY <2>1, <2>2 DEF LsStInv
<1>2. LsStInv => StatsKeptOnce
  <2> SUFFICES ASSUME LsStInv PROVE StatsKeptOnce
    OBVIOUS
  <2>1. \A x : ToSet(x) = Range(x)
    BY DEF ToSet, Range
  <2>2. ASSUME NEW s \in StServices
        PROVE  /\ Tried(s) = Range(stFile[s]) \cup stLost[s]
               /\ UnderWay(s) = Range(stList[s]) \cup Places3(stCopy[s])
    BY <2>1 DEF Tried, UnderWay, Places3
  <2>3. ASSUME NEW s \in StServices PROVE Tried(s) \cup UnderWay(s) = 1 .. stPut[s]
    BY <2>2, <2>3 DEF LsStInv, StKept, KeptOf, Kept1
  <2>4. ASSUME NEW s \in StServices PROVE Amount(s) = stPut[s]
    <3> DEFINE a == Len(stFile[s]) + Cardinality(stLost[s]) + Len(stList[s])
               r == Len(stCopy[s]["runner"])
               l == Len(stCopy[s]["listener"])
               c == Len(stCopy[s]["closer"])
    <3>1. /\ stList[s] \in Seq(Nat) /\ stFile[s] \in Seq(Nat) /\ IsFiniteSet(stLost[s])
          /\ \A v \in StSavers : stCopy[s][v] \in Seq(Nat)
      BY DEF LsStInv, StKept, KeptOf, Kept1
    <3>2. a \in Nat
      BY <3>1, LenProperties, FS_CardinalityType
    <3>3. r \in Nat /\ l \in Nat /\ c \in Nat
      BY <3>1, LenProperties DEF StSavers
    <3>4. a + Held(stCopy[s]) = stPut[s]
      BY DEF LsStInv, StKept, KeptOf, Kept1
    <3>5. Held(stCopy[s]) = r + l + c
      BY DEF Held
    <3>6. Amount(s) = a + r + l + c
      BY DEF Amount
    <3> HIDE DEF a, r, l, c
    <3> QED
      BY <3>2, <3>3, <3>4, <3>5, <3>6
  <2>5. ASSUME stExited
        PROVE  1 .. stPut["device"] = Tried("device") \cup ToSet(stCopy["device"]["runner"])
                                                      \cup ToSet(stCopy["device"]["listener"])
    <3>1. stList["device"] = <<>> /\ stCopy["device"]["closer"] = <<>>
      BY <2>5 DEF LsStInv, SavingInv
    <3>2. Range(<<>>) = {}
      BY DEF Range
    <3>3. Places3(stCopy["device"]) = Range(stCopy["device"]["runner"]) \cup Range(stCopy["device"]["listener"])
      BY <3>1, <3>2 DEF Places3, StSavers
    <3> QED
      BY <2>1, <2>2, <2>3, <3>1, <3>2, <3>3 DEF StServices
  <2> QED
    BY <2>3, <2>4, <2>5 DEF StatsKeptOnce
<1> QED
  BY <1>1, LsStNext, <1>2, PTL DEF LsSpec

-----------------------------------------------------------------------------
(***************************************************************************)
(* The addresses.  A gateway with a socket has an address it has pulled    *)
(* from, the sender holds such a gateway, and between the two writes of    *)
(* setSocketAddress() the datagram is one of a gateway that has just       *)
(* pulled.                                                                 *)
(***************************************************************************)
Addresses == {"unset"} \cup {d.from : d \in LsDatagrams}
Sockets == {0} \cup {d.sock : d \in LsDatagrams}

Pulled(g) == lsGateways[g].addr \in lsPulled[g]

LsTypeOK ==
    /\ lsGot \in Seq(LsDatagrams)
    /\ lsGateways \in [LsKnown -> [addr : Addresses, socket : Sockets]]
    /\ lsPulled \in [LsKnown -> SUBSET Addresses]

RouteInv ==
    /\ LsTypeOK
    /\ \A g \in LsKnown : lsGateways[g].socket # 0 => Pulled(g)
    /\ lsSender # NoGateway => lsSender \in LsKnown /\ Pulled(lsSender)
    /\ lsPc = "socket" => /\ lsGot # <<>> /\ Last(lsGot).gw \in LsKnown
                          /\ Last(lsGot).from \in lsPulled[Last(lsGot).gw]
    /\ lsSent # NoSent => lsSent.gw \in LsKnown /\ lsSent.to.addr \in lsPulled[lsSent.gw]

\* A gateway's address may be replaced by one it has pulled from, in one write
\* (PullData) or with the socket (SetSocket).
LEMMA AddressWritten ==
  ASSUME RouteInv, NEW g \in LsKnown, NEW a \in Addresses, NEW e \in [addr : {a}, socket : Sockets],
         lsPulled' = [lsPulled EXCEPT ![g] = @ \cup {a}],
         lsGateways' = [lsGateways EXCEPT ![g] = e],
         UNCHANGED <<lsSender, lsSent>>
  PROVE  /\ lsGateways' \in [LsKnown -> [addr : Addresses, socket : Sockets]]
         /\ lsPulled' \in [LsKnown -> SUBSET Addresses]
         /\ \A h \in LsKnown : lsGateways'[h].socket # 0 => Pulled(h)'
         /\ lsSender' # NoGateway => lsSender' \in LsKnown /\ Pulled(lsSender)'
         /\ lsSent' # NoSent => lsSent'.gw \in LsKnown /\ lsSent'.to.addr \in lsPulled'[lsSent'.gw]
<1>1. /\ lsGateways \in [LsKnown -> [addr : Addresses, socket : Sockets]]
      /\ lsPulled \in [LsKnown -> SUBSET Addresses]
  BY DEF RouteInv, LsTypeOK
<1>2. /\ lsGateways'[g] = e /\ e.addr = a /\ a \in lsPulled'[g]
      /\ \A h \in LsKnown \ {g} : lsGateways'[h] = lsGateways[h]
      /\ \A h \in LsKnown : lsPulled[h] \subseteq lsPulled'[h]
  BY <1>1
<1>3. e \in [addr : Addresses, socket : Sockets]
  OBVIOUS
<1>4. Pulled(g)' /\ \A h \in LsKnown : Pulled(h) => Pulled(h)'
  BY <1>2 DEF Pulled
<1>5. \A h \in LsKnown : lsGateways'[h].socket # 0 => Pulled(h)'
  BY <1>2, <1>4 DEF RouteInv
<1>6. lsSender' # NoGateway => lsSender' \in LsKnown /\ Pulled(lsSender)'
  BY <1>4 DEF RouteInv, Pulled
<1>7. lsSent' # NoSent => lsSent'.gw \in LsKnown /\ lsSent'.to.addr \in lsPulled'[lsSent'.gw]
  BY <1>2 DEF RouteInv
<1>8. /\ lsGateways' \in [LsKnown -> [addr : Addresses, socket : Sockets]]
      /\ lsPulled' \in [LsKnown -> SUBSET Addresses]
  BY <1>1, <1>3
<1> QED
  BY <1>5, <1>6, <1>7, <1>8

LEMMA RouteInit == LsInit => RouteInv
<1> SUFFICES ASSUME LsInit PROVE RouteInv
  OBVIOUS
<1>1. Unset \in [addr : Addresses, socket : Sockets] /\ Unset.socket = 0
  BY DEF Unset, Addresses, Sockets
<1>2. LsTypeOK
  BY <1>1 DEF LsInit, LsTypeOK
<1>3. \A g \in LsKnown : lsGateways[g].socket = 0
  BY <1>1 DEF LsInit
<1> QED
  BY <1>2, <1>3 DEF LsInit, RouteInv

LEMMA RouteNext == RouteInv /\ [LsNext]_lsVars => RouteInv'
<1> SUFFICES ASSUME RouteInv, [LsNext]_lsVars PROVE RouteInv'
  OBVIOUS
<1>1. ASSUME UNCHANGED <<lsPc, lsGot, lsGateways, lsPulled, lsSender, lsSent>>
      PROVE  RouteInv'
  BY <1>1 DEF RouteInv, LsTypeOK, Pulled
<1>2. ASSUME UNCHANGED <<lsGot, lsGateways, lsPulled, lsSender, lsSent>>, lsPc' # "socket"
      PROVE  RouteInv'
  BY <1>2 DEF RouteInv, LsTypeOK, Pulled
<1>3. ASSUME NEW d \in LsDatagrams, Arrives(d)
      PROVE  /\ lsGot' \in Seq(LsDatagrams) /\ lsGot' # <<>> /\ Last(lsGot') = d
             /\ lsPc # "socket"
  <2>1. lsGot \in Seq(LsDatagrams) /\ lsGot' = Append(lsGot, d) /\ lsPc = "select"
    BY <1>3 DEF Arrives, RouteInv, LsTypeOK
  <2>2. /\ Append(lsGot, d) \in Seq(LsDatagrams) /\ Len(Append(lsGot, d)) = Len(lsGot) + 1
        /\ Append(lsGot, d)[Len(lsGot) + 1] = d /\ Len(lsGot) \in Nat
    BY <2>1, AppendProperties, LenProperties
  <2> QED
    BY <2>1, <2>2 DEF Last
<1>4. ASSUME NEW d \in LsDatagrams, Arrives(d), UNCHANGED <<lsGateways, lsPulled, lsSender, lsSent>>,
             lsPc' # "socket"
      PROVE  RouteInv'
  BY <1>3, <1>4 DEF RouteInv, LsTypeOK, Pulled
<1>5. ASSUME NEW d \in LsDatagrams, PushData(d) PROVE RouteInv'
  BY <1>4, <1>5 DEF PushData
<1>6. ASSUME NEW d \in LsDatagrams, PullData(d) PROVE RouteInv'
  <2>1. Arrives(d) /\ UNCHANGED <<lsSender, lsSent>> /\ d.from \in Addresses
    BY <1>6 DEF PullData, Addresses
  <2>2. CASE d.gw \notin LsKnown
    BY <1>3, <1>4, <1>6, <2>1, <2>2 DEF PullData
  <2>3. CASE d.gw \in LsKnown
    <3>1. /\ lsPulled' = [lsPulled EXCEPT ![d.gw] = @ \cup {d.from}]
          /\ lsGateways' = [lsGateways EXCEPT ![d.gw].addr = d.from]
      BY <1>6, <2>3 DEF PullData
    <3> DEFINE e == [lsGateways[d.gw] EXCEPT !.addr = d.from]
    <3>2. lsGateways[d.gw] \in [addr : Addresses, socket : Sockets]
      BY <2>3 DEF RouteInv, LsTypeOK
    <3>3. e \in [addr : {d.from}, socket : Sockets]
      BY <3>2
    <3>4. lsGateways' = [lsGateways EXCEPT ![d.gw] = e]
      BY <3>1
    <3> HIDE DEF e
    <3>5. /\ lsGateways' \in [LsKnown -> [addr : Addresses, socket : Sockets]]
          /\ lsPulled' \in [LsKnown -> SUBSET Addresses]
          /\ \A h \in LsKnown : lsGateways'[h].socket # 0 => Pulled(h)'
          /\ lsSender' # NoGateway => lsSender' \in LsKnown /\ Pulled(lsSender)'
          /\ lsSent' # NoSent => lsSent'.gw \in LsKnown /\ lsSent'.to.addr \in lsPulled'[lsSent'.gw]
      BY <2>1, <2>3, <3>1, <3>3, <3>4, AddressWritten
    <3>6. d.from \in lsPulled'[d.gw]
      BY <2>3, <3>1 DEF RouteInv, LsTypeOK
    <3> QED
      BY <1>3, <2>1, <2>3, <3>5, <3>6 DEF RouteInv, LsTypeOK
  <2> QED
    BY <2>2, <2>3
<1>7. ASSUME NEW d \in LsDatagrams, OtherDatagram(d) PROVE RouteInv'
  BY <1>3, <1>4, <1>7 DEF OtherDatagram
<1>8. CASE SetSocket
  <2> DEFINE d == Last(lsGot)
             e == [addr |-> d.from, socket |-> d.sock]
  <2>1. d \in LsDatagrams
    <3>1. lsGot \in Seq(LsDatagrams) /\ lsGot # <<>>
      BY <1>8 DEF SetSocket, RouteInv, LsTypeOK
    <3>2. Len(lsGot) \in 1 .. Len(lsGot)
      BY <3>1, EmptySeq
    <3> QED
      BY <3>1, <3>2, ElementOfSeq DEF Last
  <2>2. d.gw \in LsKnown /\ d.from \in lsPulled[d.gw]
    BY <1>8 DEF SetSocket, RouteInv
  <2>3. lsGateways' = [lsGateways EXCEPT ![d.gw] = e] /\ UNCHANGED <<lsSender, lsSent, lsGot, lsPulled>>
    BY <1>8 DEF SetSocket
  <2>4. lsPc' # "socket"
    BY <1>8 DEF SetSocket
  <2> HIDE DEF d
  <2>5. d.from \in Addresses /\ e \in [addr : {d.from}, socket : Sockets]
    BY <2>1 DEF Addresses, Sockets
  <2> HIDE DEF e
  <2>6. lsPulled' = [lsPulled EXCEPT ![d.gw] = @ \cup {d.from}]
    <3>1. lsPulled[d.gw] \cup {d.from} = lsPulled[d.gw]
      BY <2>2
    <3> QED
      BY <2>2, <2>3, <3>1 DEF RouteInv, LsTypeOK
  <2>7. /\ lsGateways' \in [LsKnown -> [addr : Addresses, socket : Sockets]]
        /\ lsPulled' \in [LsKnown -> SUBSET Addresses]
        /\ \A h \in LsKnown : lsGateways'[h].socket # 0 => Pulled(h)'
        /\ lsSender' # NoGateway => lsSender' \in LsKnown /\ Pulled(lsSender)'
        /\ lsSent' # NoSent => lsSent'.gw \in LsKnown /\ lsSent'.to.addr \in lsPulled'[lsSent'.gw]
    BY <2>2, <2>3, <2>5, <2>6, AddressWritten
  <2> QED
    BY <2>3, <2>4, <2>7 DEF RouteInv, LsTypeOK
<1>9. CASE DumpDevice
  BY <1>1, <1>9 DEF DumpDevice
<1>10. CASE HandlePackets
  BY <1>2, <1>10 DEF HandlePackets
<1>11. CASE ReflectStat
  BY <1>1, <1>2, <1>11 DEF ReflectStat
<1>12. CASE Interrupted
  BY <1>2, <1>12 DEF Interrupted
<1>13. CASE Close
  BY <1>1, <1>13 DEF Close, lsOwn
<1>14. ASSUME NEW g \in LsKnown, SenderFinds(g) PROVE RouteInv'
  BY <1>14 DEF SenderFinds, RouteInv, LsTypeOK, Pulled
<1>15. CASE SenderSends
  <2>1. lsSender \in LsKnown /\ lsGateways[lsSender].addr \in lsPulled[lsSender]
    BY <1>15 DEF SenderSends, RouteInv, Pulled
  <2>2. lsSent'.gw = lsSender /\ lsSent'.to = lsGateways[lsSender]
    BY <1>15 DEF SenderSends
  <2> QED
    BY <1>15, <2>1, <2>2 DEF SenderSends, RouteInv, LsTypeOK, Pulled
<1>16. ASSUME NEW s \in StServices, StatRunner(s) PROVE RouteInv'
  BY <1>1, <1>16 DEF StatRunner, lsOwn
<1>17. CASE UNCHANGED lsVars
  BY <1>1, <1>17 DEF lsVars
<1> QED
  BY <1>5, <1>6, <1>7, <1>8, <1>9, <1>10, <1>11, <1>12, <1>13, <1>14, <1>15, <1>16, <1>17 DEF LsNext

\* The thread of the packet queue reads the address of a gateway without a lock
\* while the listener writes it (udp-listener.cpp, gateway-list.cpp): the reply
\* goes to an address that gateway has sent PULL_DATA from, whatever the
\* datagrams and the gateways are.
THEOREM RepliesToPulledAddress == LsSpec => []ReplyToPulledAddress
<1>1. RouteInv => ReplyToPulledAddress
  BY DEF RouteInv, ReplyToPulledAddress
<1> QED
  BY RouteInit, RouteNext, <1>1, PTL DEF LsSpec

-----------------------------------------------------------------------------
(***************************************************************************)
(* The frames that are handed on.  A vector is filtered twice: by parse(), *)
(* which leaves out frames with a wrong MIC, and by parseBuffer(), which   *)
(* gives only data to put().                                               *)
(***************************************************************************)
LEMMA AscendingIs ==
  ASSUME NEW S, IsFiniteSet(S), S \subseteq Nat
  PROVE  /\ Cardinality(S) \in Nat
         /\ Ascending(S) \in [1 .. Cardinality(S) -> S]
         /\ \A x \in S : \E i \in 1 .. Cardinality(S) : Ascending(S)[i] = x
         /\ \A i, j \in 1 .. Cardinality(S) : Ascending(S)[i] = Ascending(S)[j] => i = j
<1> DEFINE R == {p \in S \X S : p[1] < p[2]}
           n == Cardinality(S)
           Sorted(s) == \A i, j \in DOMAIN s : i < j => s[i] < s[j]
<1>1. \A x, y \in S : <<x, y>> \in R <=> x < y
  OBVIOUS
<1> HIDE DEF R
<1>2. n \in Nat
  BY FS_CardinalityType
<1>3. \E s \in [1 .. n -> S] : \A i, j \in 1 .. n : i < j => <<s[i], s[j]>> \in R
  <2>1. /\ \A x \in S : <<x, x>> \notin R
        /\ \A x, y, z \in S : <<x, y>> \in R /\ <<y, z>> \in R => <<x, z>> \in R
        /\ \A x, y \in S : x = y \/ <<x, y>> \in R \/ <<y, x>> \in R
    BY <1>1
  <2> QED
    BY <2>1, SortedEnumeration
<1> HIDE DEF n
<1>4. \E s \in [1 .. n -> S] : Sorted(s)
  <2>1. PICK s \in [1 .. n -> S] : \A i, j \in 1 .. n : i < j => <<s[i], s[j]>> \in R
    BY <1>3
  <2>2. Sorted(s)
    BY <1>1, <2>1
  <2> QED
    BY <2>2
<1> DEFINE t == Ascending(S)
<1>5. t \in [1 .. n -> S] /\ Sorted(t)
  BY <1>4 DEF Ascending, n
<1> HIDE DEF t
<1>6. ASSUME NEW i \in 1 .. n, NEW j \in 1 .. n, t[i] = t[j] PROVE i = j
  <2>1. t[i] \in Nat /\ t[j] \in Nat
    BY <1>5
  <2>2. ~(i < j) /\ ~(j < i)
    BY <1>5, <1>6, <2>1
  <2> QED
    BY <1>2, <2>2
<1>7. \A x \in S : \E i \in 1 .. n : t[i] = x
  <2> DEFINE D == 1 .. n
  <2>1. IsFiniteSet(D) /\ Cardinality(D) = n
    BY <1>2, FS_Interval
  <2>2. Cardinality(D) = Cardinality(S) /\ t \in [D -> S] /\ \A i, j \in D : t[i] = t[j] => i = j
    BY <1>5, <1>6, <2>1 DEF n
  <2> HIDE DEF D
  <2>3. \A x \in S : \E i \in D : t[i] = x
    BY <2>1, <2>2, InjectionIsOnto
  <2> QED
    BY <2>3 DEF D
<1> QED
  BY <1>2, <1>5, <1>6, <1>7 DEF n, t

\* p has the elements of seq at the places S, and no other.
Picked(p, seq, S) ==
    /\ \E n \in Nat : DOMAIN p = 1 .. n
    /\ \A k \in DOMAIN p : \E i \in S : p[k] = seq[i]
    /\ \A i \in S : \E k \in DOMAIN p : p[k] = seq[i]
    /\ (\A i, j \in S : seq[i][1] = seq[j][1] => i = j)
         => \A k, l \in DOMAIN p : p[k][1] = p[l][1] => k = l

LEMMA OnlyIs ==
  ASSUME NEW seq, NEW S, IsFiniteSet(S), S \subseteq Nat
  PROVE  Picked(Only(seq, S), seq, S)
<1> DEFINE n == Cardinality(S)
           at == Ascending(S)
           o == Only(seq, S)
<1>1. /\ n \in Nat /\ at \in [1 .. n -> S]
      /\ \A x \in S : \E i \in 1 .. n : at[i] = x
      /\ \A i, j \in 1 .. n : at[i] = at[j] => i = j
  BY AscendingIs
<1>2. o = [k \in 1 .. n |-> seq[at[k]]]
  BY DEF Only
<1> HIDE DEF n, at, o
<1>3. /\ DOMAIN o = 1 .. n
      /\ \A k \in 1 .. n : o[k] = seq[at[k]]
      /\ \A k \in 1 .. n : at[k] \in S
  BY <1>1, <1>2
<1>4. /\ \A k \in 1 .. n : \E i \in S : o[k] = seq[i]
      /\ \A i \in S : \E k \in 1 .. n : o[k] = seq[i]
  <2>1. ASSUME NEW k \in 1 .. n PROVE \E i \in S : o[k] = seq[i]
    <3>1. at[k] \in S /\ o[k] = seq[at[k]]
      BY <1>3
    <3> QED
      BY <3>1
  <2>2. ASSUME NEW i \in S PROVE \E k \in 1 .. n : o[k] = seq[i]
    <3>1. PICK k \in 1 .. n : at[k] = i
      BY <1>1
    <3>2. o[k] = seq[i]
      BY <1>3, <3>1
    <3> QED
      BY <3>2
  <2> QED
    BY <2>1, <2>2
<1>5. ASSUME \A i, j \in S : seq[i][1] = seq[j][1] => i = j,
             NEW k \in 1 .. n, NEW l \in 1 .. n, o[k][1] = o[l][1]
      PROVE  k = l
  <2>0. o[k] = seq[at[k]] /\ o[l] = seq[at[l]] /\ at[k] \in S /\ at[l] \in S
    BY <1>3
  <2>1. at[k] = at[l]
    BY <1>5, <2>0
  <2> QED
    BY <1>1, <2>1
<1>6. \E m \in Nat : DOMAIN o = 1 .. m
  BY <1>1, <1>3
<1>7. (\A i, j \in S : seq[i][1] = seq[j][1] => i = j)
        => \A k, l \in DOMAIN o : o[k][1] = o[l][1] => k = l
  BY <1>3, <1>5
<1>8. Picked(o, seq, S)
  BY <1>3, <1>4, <1>6, <1>7 DEF Picked
<1> QED
  BY <1>8 DEF o

\* Packets have numbers of their own.
Numbered(p) ==
    /\ \E n \in Nat : DOMAIN p = 1 .. n
    /\ \A k \in DOMAIN p : p[k][1] \in Nat
    /\ \A k, l \in DOMAIN p : p[k][1] = p[l][1] => k = l

LEMMA NothingIsNumbered == Numbered(<<>>)
BY DEF Numbered

LEMMA KeptIs ==
  ASSUME NEW T, NEW frames \in Seq(T)
  PROVE  /\ Numbered(Kept(frames))
         /\ \A k \in DOMAIN Kept(frames) :
              \E i \in DOMAIN frames : Kept(frames)[k] = <<i, frames[i]>>
         /\ \A i \in DOMAIN frames : FrameCode(frames[i]) = "LORA_OK" =>
              \E k \in DOMAIN Kept(frames) : Kept(frames)[k] = <<i, frames[i]>>
<1> DEFINE S == {i \in DOMAIN frames : FrameCode(frames[i]) \in {"LORA_OK", "IS_JOIN"}}
           seq == [i \in DOMAIN frames |-> <<i, frames[i]>>]
           p == Kept(frames)
<1>1. DOMAIN frames = 1 .. Len(frames) /\ Len(frames) \in Nat
  BY LenProperties
<1>2. IsFiniteSet(S) /\ S \subseteq Nat
  <2>1. IsFiniteSet(1 .. Len(frames))
    BY <1>1, FS_Interval
  <2>2. S \in SUBSET (1 .. Len(frames)) /\ S \subseteq Nat
    BY <1>1
  <2> DEFINE D == 1 .. Len(frames)
  <2> HIDE DEF S, D
  <2>3. IsFiniteSet(D) /\ S \in SUBSET D
    BY <2>1, <2>2 DEF D
  <2> QED
    BY <2>2, <2>3, FS_Subset
<1>3. p = Only(seq, S)
  BY DEF Kept
<1>4. \A i \in S : seq[i] = <<i, frames[i]>> /\ seq[i][1] = i /\ i \in DOMAIN frames
  OBVIOUS
<1>5. \A i \in DOMAIN frames : FrameCode(frames[i]) = "LORA_OK" => i \in S
  OBVIOUS
<1> HIDE DEF S, seq, p
<1>6. Picked(p, seq, S)
  BY <1>2, <1>3, OnlyIs
<1>7. \A k, l \in DOMAIN p : p[k][1] = p[l][1] => k = l
  BY <1>4, <1>6 DEF Picked
<1>8. \A k \in DOMAIN p : p[k][1] \in Nat
  BY <1>2, <1>4, <1>6 DEF Picked
<1>9. Numbered(p)
  BY <1>6, <1>7, <1>8 DEF Numbered, Picked
<1> QED
  BY <1>4, <1>5, <1>6, <1>9 DEF p, Picked

LEMMA DataPacketsAre ==
  ASSUME NEW p, Numbered(p)
  PROVE  /\ Numbered(DataPackets(p))
         /\ \A k \in DOMAIN DataPackets(p) :
              \E i \in DOMAIN p : DataPackets(p)[k] = p[i] /\ FrameCode(p[i][2]) = "LORA_OK"
         /\ \A i \in DOMAIN p : FrameCode(p[i][2]) = "LORA_OK" =>
              \E k \in DOMAIN DataPackets(p) : DataPackets(p)[k] = p[i]
<1> DEFINE S == {i \in DOMAIN p : FrameCode(p[i][2]) = "LORA_OK"}
           data == DataPackets(p)
<1>1. PICK n \in Nat : DOMAIN p = 1 .. n
  BY DEF Numbered
<1>2. IsFiniteSet(S) /\ S \subseteq Nat
  <2>1. IsFiniteSet(1 .. n)
    BY <1>1, FS_Interval
  <2>2. S \in SUBSET (1 .. n) /\ S \subseteq Nat
    BY <1>1
  <2> DEFINE D == 1 .. n
  <2> HIDE DEF S, D
  <2>3. IsFiniteSet(D) /\ S \in SUBSET D
    BY <2>1, <2>2 DEF D
  <2> QED
    BY <2>2, <2>3, FS_Subset
<1>3. data = Only(p, S)
  BY DEF DataPackets
<1>4. \A i : i \in S <=> i \in DOMAIN p /\ FrameCode(p[i][2]) = "LORA_OK"
  OBVIOUS
<1> HIDE DEF S, data
<1>6. Picked(data, p, S)
  BY <1>2, <1>3, OnlyIs
<1>7. \A k, l \in DOMAIN data : data[k][1] = data[l][1] => k = l
  BY <1>4, <1>6 DEF Numbered, Picked
<1>8. \A k \in DOMAIN data : data[k][1] \in Nat
  BY <1>4, <1>6 DEF Numbered, Picked
<1>9. Numbered(data)
  BY <1>6, <1>7, <1>8 DEF Numbered, Picked
<1> QED
  BY <1>4, <1>6, <1>9 DEF data, Picked

\* The data of a vector of frames: their places, each once.
LEMMA DataOfFrames ==
  ASSUME NEW T, NEW frames \in Seq(T), NEW i \in DOMAIN frames
  PROVE  (\E k \in DOMAIN DataPackets(Kept(frames)) : DataPackets(Kept(frames))[k][1] = i)
           <=> FrameCode(frames[i]) = "LORA_OK"
<1> DEFINE p == Kept(frames)
           data == DataPackets(p)
<1>1. /\ Numbered(p)
      /\ \A k \in DOMAIN p : \E j \in DOMAIN frames : p[k] = <<j, frames[j]>>
      /\ \A j \in DOMAIN frames : FrameCode(frames[j]) = "LORA_OK" =>
           \E k \in DOMAIN p : p[k] = <<j, frames[j]>>
  BY KeptIs
<1> HIDE DEF p
<1>2. /\ \A k \in DOMAIN data : \E j \in DOMAIN p : data[k] = p[j] /\ FrameCode(p[j][2]) = "LORA_OK"
      /\ \A j \in DOMAIN p : FrameCode(p[j][2]) = "LORA_OK" => \E k \in DOMAIN data : data[k] = p[j]
  BY <1>1, DataPacketsAre
<1> HIDE DEF data
<1>3. ASSUME NEW k \in DOMAIN data, data[k][1] = i PROVE FrameCode(frames[i]) = "LORA_OK"
  <2>1. PICK j \in DOMAIN p : data[k] = p[j] /\ FrameCode(p[j][2]) = "LORA_OK"
    BY <1>2
  <2>2. PICK h \in DOMAIN frames : p[j] = <<h, frames[h]>>
    BY <1>1
  <2>3. h = i /\ p[j][2] = frames[h]
    BY <1>3, <2>1, <2>2
  <2> QED
    BY <2>1, <2>3
<1>4. ASSUME FrameCode(frames[i]) = "LORA_OK" PROVE \E k \in DOMAIN data : data[k][1] = i
  <2>1. PICK j \in DOMAIN p : p[j] = <<i, frames[i]>>
    BY <1>1, <1>4
  <2>2. PICK k \in DOMAIN data : data[k] = p[j]
    BY <1>2, <1>4, <2>1
  <2> QED
    BY <2>1, <2>2
<1> QED
  BY <1>3, <1>4 DEF p, data

\* What parse() answers for an array without other elements than frames.
LEMMA RxpkIs ==
  ASSUME NEW T, NEW frames \in Seq(T)
  PROVE  /\ parseRxpk(frames).rc \notin Ignored => parseRxpk(frames).packets = Kept(frames)
         /\ (\A i \in DOMAIN frames : frames[i] # "other") =>
              /\ parseRxpk(frames).packets = Kept(frames)
              /\ (\A i \in DOMAIN frames : FrameCode(frames[i]) # "IS_JOIN")
                    => parseRxpk(frames).rc \notin Ignored
<1> DEFINE r == parseRxpk(frames)
           other == SelectInSeq(frames, LAMBDA k : k = "other")
<1>1. DOMAIN frames = 1 .. Len(frames) /\ Len(frames) \in Nat
  BY LenProperties
<1>2. ASSUME \A i \in DOMAIN frames : frames[i] # "other" PROVE other = 0
  <2> DEFINE I == {i \in 1 .. Len(frames) : frames[i] = "other"}
  <2>1. other = IF I # {} THEN Min(I) ELSE 0
    BY DEF SelectInSeq
  <2>2. I = {}
    BY <1>1, <1>2
  <2> HIDE DEF I, other
  <2> QED
    BY <2>1, <2>2
<1>3. other # 0 => r.rc = "INVALID_JSON"
  BY DEF parseRxpk
<1>4. other = 0 => /\ r.packets = Kept(frames)
                   /\ r.rc = IF frames = <<>> THEN "LORA_OK" ELSE FrameCode(Last(frames))
  BY DEF parseRxpk
<1> HIDE DEF r, other
<1>5. ASSUME other = 0, \A i \in DOMAIN frames : FrameCode(frames[i]) # "IS_JOIN"
      PROVE  r.rc \notin Ignored
  <2>1. CASE frames = <<>>
    BY <1>4, <1>5, <2>1 DEF Ignored
  <2>2. CASE frames # <<>>
    <3>1. Len(frames) \in DOMAIN frames
      BY <1>1, <2>2, EmptySeq
    <3>2. FrameCode(Last(frames)) # "IS_JOIN"
      BY <1>5, <3>1 DEF Last
    <3>3. FrameCode(Last(frames)) \in {"LORA_OK", "INVALID_MIC"}
      BY <3>2 DEF FrameCode
    <3>4. r.rc = FrameCode(Last(frames))
      BY <1>4, <1>5, <2>2
    <3> QED
      BY <3>3, <3>4 DEF Ignored
  <2> QED
    BY <2>1, <2>2
<1>6. "INVALID_JSON" \in Ignored
  BY DEF Ignored
<1> QED
  BY <1>2, <1>3, <1>4, <1>5, <1>6 DEF r

NoJoins(d) == \A i \in DOMAIN d.rxpk : FrameCode(d.rxpk[i]) # "IS_JOIN"

LEMMA DatagramIs ==
  ASSUME NEW d \in LsDatagrams
  PROVE  /\ parseDatagram(d).rc \notin Ignored => Numbered(parseDatagram(d).packets)
         /\ WellFormed(d) /\ NoJoins(d) =>
              parseDatagram(d).rc \notin Ignored /\ parseDatagram(d).packets = Kept(d.rxpk)
<1> DEFINE r == parseDatagram(d)
           a == parseRxpk(d.rxpk)
           t == parseTxpk(d.txpk)
<1>1. d.rxpk \in Seq(FrameKinds)
  BY LsAssumption
<1>2. a.rc \notin Ignored => Numbered(a.packets)
  BY <1>1, RxpkIs, KeptIs
<1>3. t.rc \notin Ignored => Numbered(t.packets)
  <2>1. t.packets = <<>> \/ t.packets = Kept(<<d.txpk>>)
    BY DEF parseTxpk
  <2>2. <<d.txpk>> \in Seq({d.txpk})
    OBVIOUS
  <2> QED
    BY <2>1, <2>2, NothingIsNumbered, KeptIs
<1>4. /\ \A rc : Fails(rc).packets = <<>>
      /\ \A q : WithStat(d, q).packets = q.packets /\ WithStat(d, q).rc = q.rc
  BY DEF Fails, WithStat
<1>5. \/ \E rc : r = Fails(rc)
      \/ \E rc : r = WithStat(d, Fails(rc))
      \/ r = WithStat(d, a) \/ r = WithStat(d, t)
  BY DEF parseDatagram
<1>6. WellFormed(d) => r = WithStat(d, a)
  BY DEF parseDatagram, WellFormed, parsePrefixGw
<1> HIDE DEF r, a, t
<1>7. r.rc \notin Ignored => Numbered(r.packets)
  <2>1. CASE \E rc : r = Fails(rc)
    BY <1>4, <2>1, NothingIsNumbered
  <2>2. CASE \E rc : r = WithStat(d, Fails(rc))
    BY <1>4, <2>2, NothingIsNumbered
  <2>3. CASE r = WithStat(d, a)
    BY <1>2, <1>4, <2>3
  <2>4. CASE r = WithStat(d, t)
    BY <1>3, <1>4, <2>4
  <2> QED
    BY <1>5, <2>1, <2>2, <2>3, <2>4
<1>8. WellFormed(d) /\ NoJoins(d) => r.rc \notin Ignored /\ r.packets = Kept(d.rxpk)
  <2> SUFFICES ASSUME WellFormed(d), NoJoins(d) PROVE r.rc \notin Ignored /\ r.packets = Kept(d.rxpk)
    OBVIOUS
  <2>1. r.rc = a.rc /\ r.packets = a.packets
    BY <1>4, <1>6
  <2>2. a.rc \notin Ignored /\ a.packets = Kept(d.rxpk)
    BY <1>1, RxpkIs DEF WellFormed, NoJoins, a
  <2> QED
    BY <2>1, <2>2
<1> QED
  BY <1>7, <1>8 DEF r

(***************************************************************************)
(* The invariant: the packets at work are those of the last datagram, none *)
(* of which has been handed on yet; of the others the data are, each once, *)
(* but for a datagram whose handling SIGINT has cut off.                   *)
(***************************************************************************)
Handed(n) == WellFormed(lsGot[n]) /\ NoJoins(lsGot[n]) => HandedOn(n) = Data(lsGot[n])

AtWork(d) ==
    \E stat, todo : lsWork = [rc |-> parseDatagram(d).rc, packets |-> parseDatagram(d).packets,
                              stat |-> stat, todo |-> todo]

HandInv ==
    /\ lsGot \in Seq(LsDatagrams)
    /\ lsPut \in Seq(Nat \X Nat) /\ IsInjective(lsPut)
    /\ \A j \in 1 .. Len(lsPut) : lsPut[j][1] <= Len(lsGot)
    /\ lsPc = "dump" => /\ lsGot # <<>> /\ AtWork(Last(lsGot))
                        /\ \A j \in 1 .. Len(lsPut) : lsPut[j][1] # Len(lsGot)
    /\ \A n \in 1 .. Len(lsGot) : Handed(n) \/ (lsPc \in {"dump", "closing"} /\ n = Len(lsGot))

LEMMA HandInit == LsInit => HandInv
<1> SUFFICES ASSUME LsInit PROVE HandInv
  OBVIOUS
<1>1. lsGot = <<>> /\ lsPut = <<>> /\ lsPc = "select"
  BY DEF LsInit
<1>2. IsInjective(lsPut)
  BY <1>1 DEF IsInjective
<1> QED
  BY <1>1, <1>2 DEF HandInv

\* A datagram has come.
LEMMA HandArrives ==
  ASSUME HandInv, NEW d \in LsDatagrams, Arrives(d), lsPut' = lsPut,
         \/ lsPc' = "dump" /\ AtWork(d)'
         \/ lsPc' # "dump" /\ ~WellFormed(d)
  PROVE  HandInv'
<1>1. /\ lsGot \in Seq(LsDatagrams) /\ lsGot' = Append(lsGot, d) /\ lsPc = "select"
      /\ lsPut \in Seq(Nat \X Nat)
  BY DEF Arrives, HandInv
<1>0. PICK n \in Nat : n = Len(lsGot)
  BY <1>1, LenProperties
<1>2. /\ lsGot' \in Seq(LsDatagrams) /\ Len(lsGot') = n + 1 /\ n \in Nat
      /\ lsGot'[n + 1] = d /\ \A m \in 1 .. n : lsGot'[m] = lsGot[m]
  BY <1>0, <1>1, AppendProperties
<1>3. lsGot' # <<>> /\ Last(lsGot') = d
  BY <1>2 DEF Last
<1>4. \A m \in 1 .. n : Handed(m)'
  <2> SUFFICES ASSUME NEW m \in 1 .. n PROVE Handed(m)'
    OBVIOUS
  <2>1. Handed(m) /\ lsGot'[m] = lsGot[m]
    BY <1>0, <1>1, <1>2 DEF HandInv
  <2> QED
    BY <2>1 DEF Handed, HandedOn
<1>5. lsPc' # "dump" => Handed(n + 1)'
  BY <1>2 DEF Handed
<1>6. \A j \in 1 .. Len(lsPut) : lsPut[j][1] \in Nat /\ lsPut[j][1] <= n
  <2> SUFFICES ASSUME NEW j \in 1 .. Len(lsPut) PROVE lsPut[j][1] \in Nat /\ lsPut[j][1] <= n
    OBVIOUS
  <2>1. lsPut[j] \in Nat \X Nat
    BY <1>1
  <2>2. lsPut[j][1] <= Len(lsGot)
    BY Zenon DEF HandInv
  <2> QED
    BY <1>0, <2>1, <2>2
<1>7. \A j \in 1 .. Len(lsPut') : lsPut'[j][1] <= Len(lsGot') /\ lsPut'[j][1] # Len(lsGot')
  BY <1>2, <1>6
<1>8. \A m \in 1 .. Len(lsGot') : Handed(m)' \/ (lsPc' = "dump" /\ m = Len(lsGot'))
  <2>1. \A m \in 1 .. n + 1 : m \in 1 .. n \/ m = n + 1
    BY <1>2
  <2> QED
    BY <1>2, <1>4, <1>5, <2>1
<1>9. IsInjective(lsPut')
  BY DEF HandInv
<1>10. lsPc' = "dump" => AtWork(Last(lsGot))'
  <2>1. lsPc' = "dump" => AtWork(d)'
    OBVIOUS
  <2>2. Last(lsGot)' = d
    BY <1>3
  <2> QED
    BY <2>1, <2>2 DEF AtWork
<1> QED
  BY <1>1, <1>2, <1>3, <1>7, <1>8, <1>9, <1>10 DEF HandInv

\* The data of datagram n are put behind those of others.
Puts(n, data) == [i \in DOMAIN data |-> <<n, data[i][1]>>]
PutsBehind(P, n, data, q) ==
    /\ q \in Seq(Nat \X Nat) /\ IsInjective(q)
    /\ \A j \in 1 .. Len(q) : q[j][1] = n \/ \E i \in 1 .. Len(P) : q[j] = P[i]
    /\ \A x : x \in ToSet(q) <=> x \in ToSet(P) \/ \E k \in DOMAIN data : x = <<n, data[k][1]>>

LEMMA PutBehind ==
  ASSUME NEW P, P \in Seq(Nat \X Nat), IsInjective(P), NEW n \in Nat,
         \A j \in 1 .. Len(P) : P[j][1] # n, NEW data, Numbered(data)
  PROVE  PutsBehind(P, n, data, P \o Puts(n, data))
<1> DEFINE new == Puts(n, data)
           a == Len(P)
           q == P \o new
<1>0. \A x : <<n, x>>[1] = n
  OBVIOUS
<1>1. PICK b \in Nat : DOMAIN data = 1 .. b
  BY DEF Numbered
<1>2. /\ new \in Seq(Nat \X Nat) /\ Len(new) = b
      /\ \A i \in 1 .. b : new[i] = <<n, data[i][1]>> /\ data[i][1] \in Nat
  <2>1. \A i \in 1 .. b : data[i][1] \in Nat /\ new[i] = <<n, data[i][1]>>
    BY <1>1 DEF Numbered, Puts
  <2>2. new \in [1 .. b -> Nat \X Nat]
    <3>1. new = [i \in 1 .. b |-> <<n, data[i][1]>>]
      BY <1>1 DEF Puts
    <3> QED
      BY <2>1, <3>1
  <2> HIDE DEF new
  <2>3. new \in Seq(Nat \X Nat) /\ DOMAIN new = 1 .. b
    BY <2>2, SeqDef
  <2>4. Len(new) = b
    BY <1>1, <2>3, LenProperties
  <2> QED
    BY <2>1, <2>3, <2>4
<1>3. q = P \o new
  OBVIOUS
<1> HIDE DEF new, q
<1>4. a \in Nat /\ DOMAIN P = 1 .. a
  BY LenProperties
<1>5. /\ q \in Seq(Nat \X Nat) /\ Len(q) = a + b
      /\ \A i \in 1 .. a + b : q[i] = IF i <= a THEN P[i] ELSE new[i - a]
  <2> DEFINE W == Nat \X Nat
  <2> HIDE DEF W
  <2>1. P \in Seq(W) /\ new \in Seq(W)
    BY <1>2 DEF W
  <2>2. /\ P \o new \in Seq(W) /\ Len(P \o new) = Len(P) + Len(new)
        /\ \A i \in 1 .. Len(P) + Len(new) :
             (P \o new)[i] = IF i <= Len(P) THEN P[i] ELSE new[i - Len(P)]
    BY <2>1, ConcatProperties
  <2>3. Len(new) = b
    BY <1>2
  <2> QED
    BY <1>3, <2>2, <2>3 DEF W
<1>5a. \A i \in 1 .. a + b : ~(i <= a) => q[i] = new[i - a]
  BY <1>5
<1>6. DOMAIN q = 1 .. a + b
  BY <1>5, LenProperties
<1> HIDE DEF a
<1>7. ASSUME NEW i \in 1 .. a + b
      PROVE  \/ i \in 1 .. a /\ q[i] = P[i]
             \/ ~(i \in 1 .. a) /\ i - a \in 1 .. b /\ q[i] = <<n, data[i - a][1]>>
  <2>1. CASE i <= a
    BY <1>4, <1>5, <2>1
  <2>2. CASE ~(i <= a)
    <3>1. i - a \in 1 .. b /\ ~(i \in 1 .. a)
      BY <1>1, <1>4, <2>2
    <3>2. q[i] = new[i - a]
      BY <1>5, <2>2
    <3> QED
      BY <1>2, <3>1, <3>2
  <2> QED
    BY <2>1, <2>2
<1>8. \A i \in 1 .. a : i \in 1 .. a + b /\ q[i] = P[i]
  BY <1>1, <1>4, <1>5
<1>9. \A k \in 1 .. b : a + k \in 1 .. a + b /\ q[a + k] = <<n, data[k][1]>>
  <2> SUFFICES ASSUME NEW k \in 1 .. b PROVE a + k \in 1 .. a + b /\ q[a + k] = <<n, data[k][1]>>
    OBVIOUS
  <2> DEFINE i == a + k
  <2>1. i \in 1 .. a + b /\ ~(i <= a) /\ i - a = k
    BY <1>1, <1>4
  <2> HIDE DEF i
  <2>2. q[i] = new[k]
    BY <1>5a, <2>1
  <2>3. new[k] = <<n, data[k][1]>>
    BY <1>2
  <2> QED
    BY <2>1, <2>2, <2>3 DEF i
<1>10. \A i \in 1 .. a : P[i][1] # n
  BY DEF a
<1>11. ASSUME NEW i \in 1 .. a + b, NEW j \in 1 .. a + b, q[i] = q[j] PROVE i = j
  <2>1. CASE i \in 1 .. a /\ j \in 1 .. a
    <3>1. P[i] = P[j]
      BY <1>8, <1>11, <2>1
    <3> QED
      BY <1>4, <2>1, <3>1 DEF IsInjective
  <2>2. CASE i \in 1 .. a /\ ~(j \in 1 .. a)
    <3>1. q[i] = P[i] /\ P[i][1] # n /\ q[j] = <<n, data[j - a][1]>>
      BY <1>7, <1>10, <2>2
    <3>2. q[j][1] = n
      BY <1>0, <3>1
    <3> QED
      BY <1>11, <3>1, <3>2
  <2>3. CASE ~(i \in 1 .. a) /\ j \in 1 .. a
    <3>1. q[j] = P[j] /\ P[j][1] # n /\ q[i] = <<n, data[i - a][1]>>
      BY <1>7, <1>10, <2>3
    <3>2. q[i][1] = n
      BY <1>0, <3>1
    <3> QED
      BY <1>11, <3>1, <3>2
  <2>4. CASE ~(i \in 1 .. a) /\ ~(j \in 1 .. a)
    <3>1. /\ i - a \in 1 .. b /\ q[i] = <<n, data[i - a][1]>>
          /\ j - a \in 1 .. b /\ q[j] = <<n, data[j - a][1]>>
      BY <1>7, <2>4
    <3>2. data[i - a][1] = data[j - a][1]
      <4> DEFINE x == data[i - a][1]
                 y == data[j - a][1]
      <4>1. <<n, x>> = <<n, y>>
        BY <1>11, <3>1
      <4> HIDE DEF x, y
      <4>2. x = y
        BY <4>1
      <4> QED
        BY <4>2 DEF x, y
    <3>3. i - a = j - a
      BY <1>1, <3>1, <3>2 DEF Numbered
    <3> QED
      BY <1>1, <1>4, <3>3
  <2> QED
    BY <2>1, <2>2, <2>3, <2>4
<1>12. IsInjective(q)
  BY <1>6, <1>11 DEF IsInjective
<1>13. \A j \in 1 .. a + b : q[j][1] = n \/ \E i \in 1 .. a : q[j] = P[i]
  <2> SUFFICES ASSUME NEW j \in 1 .. a + b PROVE q[j][1] = n \/ \E i \in 1 .. a : q[j] = P[i]
    OBVIOUS
  <2>2. CASE j \in 1 .. a /\ q[j] = P[j]
    BY <2>2
  <2>3. CASE q[j] = <<n, data[j - a][1]>>
    BY <1>0, <2>3
  <2> QED
    BY <1>7, <2>2, <2>3
<1>14. \A x : x \in ToSet(q) <=> x \in ToSet(P) \/ \E k \in DOMAIN data : x = <<n, data[k][1]>>
  <2>1. /\ \A x : x \in ToSet(q) <=> \E i \in 1 .. a + b : x = q[i]
        /\ \A x : x \in ToSet(P) <=> \E i \in 1 .. a : x = P[i]
    BY <1>4, <1>6 DEF ToSet
  <2> TAKE x
  <2>2. ASSUME NEW i \in 1 .. a + b, x = q[i]
        PROVE  (\E k \in 1 .. a : x = P[k]) \/ \E k \in 1 .. b : x = <<n, data[k][1]>>
    BY <1>7, <2>2
  <2>3. ASSUME NEW i \in 1 .. a, x = P[i] PROVE \E k \in 1 .. a + b : x = q[k]
    BY <1>8, <2>3
  <2>4. ASSUME NEW i \in 1 .. b, x = <<n, data[i][1]>> PROVE \E k \in 1 .. a + b : x = q[k]
    BY <1>9, <2>4
  <2> QED
    BY <1>1, <2>1, <2>2, <2>3, <2>4
<1> QED
  BY <1>5, <1>12, <1>13, <1>14 DEF a, q, new, PutsBehind

LEMMA HandHandles == ASSUME HandInv, HandlePackets PROVE HandInv'
<1>0. PICK n \in Nat : n = Len(lsGot)
  BY LenProperties DEF HandInv
<1>1. PICK d \in LsDatagrams : d = lsGot[n] /\ AtWork(d) /\ n \in 1 .. n
  <2>1. lsGot \in Seq(LsDatagrams) /\ lsGot # <<>> /\ AtWork(Last(lsGot))
    BY DEF HandlePackets, HandInv
  <2>2. n \in 1 .. n /\ lsGot[n] \in LsDatagrams
    BY <1>0, <2>1, EmptySeq, ElementOfSeq
  <2>3. AtWork(lsGot[n])
    BY <1>0, <2>1 DEF Last
  <2> QED
    BY <2>2, <2>3
<1>2. lsWork.rc = parseDatagram(d).rc /\ lsWork.packets = parseDatagram(d).packets
  BY <1>1 DEF AtWork
<1>3. /\ lsPc = "dump" /\ lsPc' # "dump" /\ lsGot' = lsGot
  BY DEF HandlePackets
<1>4. /\ lsGot \in Seq(LsDatagrams) /\ lsPut \in Seq(Nat \X Nat) /\ IsInjective(lsPut)
      /\ \A j \in 1 .. Len(lsPut) : lsPut[j][1] <= n /\ lsPut[j][1] # n
      /\ \A m \in 1 .. n : m # n => Handed(m)
  BY <1>0, <1>3 DEF HandInv
<1>5. CASE lsWork.rc \in Ignored
  <2>1. lsPut' = lsPut
    BY <1>5 DEF HandlePackets
  <2>2. Handed(n)'
    <3>1. ~(WellFormed(d) /\ NoJoins(d))
      BY <1>2, <1>5, DatagramIs
    <3> QED
      BY <1>1, <1>3, <3>1 DEF Handed
  <2>3. \A m \in 1 .. n : m # n => Handed(m)'
    BY <1>3, <1>4, <2>1 DEF Handed, HandedOn
  <2> QED
    BY <1>0, <1>3, <1>4, <2>1, <2>2, <2>3 DEF HandInv
<1>6. CASE lsWork.rc \notin Ignored
  <2> DEFINE p == lsWork.packets
             data == DataPackets(p)
  <2>1. Numbered(p)
    BY <1>2, <1>6, DatagramIs
  <2>2. lsPut' = lsPut \o Puts(n, data)
    BY <1>0, <1>6 DEF HandlePackets, Puts
  <2>3. Numbered(data)
    BY <2>1, DataPacketsAre
  <2> HIDE DEF data
  <2>4. /\ lsPut' \in Seq(Nat \X Nat) /\ IsInjective(lsPut')
        /\ \A j \in 1 .. Len(lsPut') : lsPut'[j][1] = n \/ \E i \in 1 .. Len(lsPut) : lsPut'[j] = lsPut[i]
        /\ \A x : x \in ToSet(lsPut') <=> x \in ToSet(lsPut) \/ \E k \in DOMAIN data : x = <<n, data[k][1]>>
    <3>1. lsPut \in Seq(Nat \X Nat) /\ IsInjective(lsPut) /\ \A j \in 1 .. Len(lsPut) : lsPut[j][1] # n
      BY <1>4
    <3> QED
      <4>1. PutsBehind(lsPut, n, data, lsPut \o Puts(n, data))
        BY <2>3, <3>1, PutBehind
      <4>2. PutsBehind(lsPut, n, data, lsPut')
        BY <2>2, <4>1
      <4> QED
        BY <4>2 DEF PutsBehind
  <2>5. \A j \in 1 .. Len(lsPut') : lsPut'[j][1] <= n
    <3> SUFFICES ASSUME NEW j \in 1 .. Len(lsPut') PROVE lsPut'[j][1] <= n
      OBVIOUS
    <3>1. CASE lsPut'[j][1] = n
      BY <3>1
    <3>2. ASSUME NEW i \in 1 .. Len(lsPut), lsPut'[j] = lsPut[i] PROVE lsPut'[j][1] <= n
      <4>1. lsPut[i][1] <= n
        BY <1>4
      <4> QED
        BY <3>2, <4>1
    <3> QED
      BY <2>4, <3>1, <3>2
  <2>6. ASSUME NEW m \in 1 .. n, m # n PROVE Handed(m)'
    <3>1. \A i : <<m, i>> \in ToSet(lsPut') <=> <<m, i>> \in ToSet(lsPut)
      BY <2>4, <2>6
    <3>2. Handed(m)
      BY <1>4, <2>6
    <3> QED
      BY <1>3, <3>1, <3>2 DEF Handed, HandedOn
  <2>7. Handed(n)'
    <3> SUFFICES ASSUME WellFormed(d), NoJoins(d)
                 PROVE  {i \in DOMAIN d.rxpk : <<n, i>> \in ToSet(lsPut')} = Data(d)
      BY <1>1, <1>3 DEF Handed, HandedOn
    <3>1. data = DataPackets(Kept(d.rxpk)) /\ d.rxpk \in Seq(FrameKinds)
      BY <1>2, DatagramIs, LsAssumption DEF data
    <3>2. \A i : <<n, i>> \notin ToSet(lsPut)
      <4> SUFFICES ASSUME NEW i, <<n, i>> \in ToSet(lsPut) PROVE FALSE
        OBVIOUS
      <4>1. DOMAIN lsPut = 1 .. Len(lsPut)
        BY <1>4, LenProperties
      <4>2. PICK j \in 1 .. Len(lsPut) : lsPut[j] = <<n, i>>
        BY <4>1 DEF ToSet
      <4>3. lsPut[j][1] = n
        BY <4>2
      <4> QED
        BY <1>4, <4>3
    <3>3. ASSUME NEW i \in DOMAIN d.rxpk
          PROVE  <<n, i>> \in ToSet(lsPut') <=> FrameCode(d.rxpk[i]) = "LORA_OK"
      <4>1. <<n, i>> \in ToSet(lsPut') <=> \E k \in DOMAIN data : data[k][1] = i
        BY <2>4, <3>2
      <4>2. (\E k \in DOMAIN data : data[k][1] = i) <=> FrameCode(d.rxpk[i]) = "LORA_OK"
        BY <3>1, DataOfFrames
      <4> QED
        BY <4>1, <4>2
    <3> QED
      BY <3>3 DEF Data
  <2> QED
    BY <1>0, <1>3, <1>4, <2>4, <2>5, <2>6, <2>7 DEF HandInv
<1> QED
  BY <1>5, <1>6

LEMMA HandNext == HandInv /\ [LsNext]_lsVars => HandInv'
<1> SUFFICES ASSUME HandInv, [LsNext]_lsVars PROVE HandInv'
  OBVIOUS
<1>1. ASSUME UNCHANGED <<lsGot, lsPut>>, lsPc \notin {"dump", "closing"}, lsPc' # "dump" PROVE HandInv'
  BY <1>1 DEF HandInv, Handed, HandedOn
<1>2. ASSUME UNCHANGED <<lsGot, lsPut, lsPc, lsWork>> PROVE HandInv'
  BY <1>2 DEF HandInv, Handed, HandedOn, AtWork
<1>3. ASSUME NEW d \in LsDatagrams, PushData(d) PROVE HandInv'
  <2>1. Arrives(d) /\ lsPut' = lsPut /\ lsPc' = "dump" /\ AtWork(d)'
    BY <1>3 DEF PushData, AtWork
  <2> QED
    BY <2>1, HandArrives
<1>4. ASSUME NEW d \in LsDatagrams, PullData(d) PROVE HandInv'
  <2>1. Arrives(d) /\ lsPut' = lsPut /\ lsPc' # "dump" /\ ~WellFormed(d)
    BY <1>4 DEF PullData, Arrives, WellFormed
  <2> QED
    BY <2>1, HandArrives
<1>5. ASSUME NEW d \in LsDatagrams, OtherDatagram(d) PROVE HandInv'
  <2>1. Arrives(d) /\ lsPut' = lsPut /\ lsPc' # "dump" /\ ~WellFormed(d)
    BY <1>5 DEF OtherDatagram, Arrives, WellFormed
  <2> QED
    BY <2>1, HandArrives
<1>6. CASE SetSocket
  BY <1>1, <1>6 DEF SetSocket
<1>7. CASE DumpDevice
  <2>1. lsPc = "dump" /\ UNCHANGED <<lsPc, lsGot, lsPut>>
    BY <1>7 DEF DumpDevice
  <2>2. lsWork' = lsWork \/ lsWork' = [lsWork EXCEPT !.todo = @ - 1]
    BY <1>7 DEF DumpDevice
  <2>3. AtWork(Last(lsGot))'
    <3> DEFINE r == parseDatagram(Last(lsGot))
    <3>1. PICK stat, todo : lsWork = [rc |-> r.rc, packets |-> r.packets, stat |-> stat, todo |-> todo]
      BY <2>1 DEF HandInv, AtWork
    <3>2. r' = r
      BY <2>1
    <3> HIDE DEF r
    <3>3. \E t : lsWork' = [rc |-> r.rc, packets |-> r.packets, stat |-> stat, todo |-> t]
      BY <2>2, <3>1
    <3>4. \E s, t : lsWork' = [rc |-> r'.rc, packets |-> r'.packets, stat |-> s, todo |-> t]
      BY <3>2, <3>3
    <3> QED
      BY <3>4 DEF AtWork, r
  <2> QED
    BY <2>1, <2>3 DEF HandInv, Handed, HandedOn
<1>8. CASE HandlePackets
  BY <1>8, HandHandles
<1>9. CASE ReflectStat
  BY <1>1, <1>9 DEF ReflectStat
<1>10. CASE Interrupted
  BY <1>10 DEF Interrupted, HandInv, Handed, HandedOn
<1>11. CASE Close
  BY <1>2, <1>11 DEF Close, lsOwn
<1>12. ASSUME NEW g \in LsKnown, SenderFinds(g) PROVE HandInv'
  BY <1>2, <1>12 DEF SenderFinds
<1>13. CASE SenderSends
  BY <1>2, <1>13 DEF SenderSends
<1>14. ASSUME NEW s \in StServices, StatRunner(s) PROVE HandInv'
  BY <1>2, <1>14 DEF StatRunner, lsOwn
<1>15. CASE UNCHANGED lsVars
  BY <1>2, <1>15 DEF lsVars
<1> QED
  BY <1>3, <1>4, <1>5, <1>6, <1>7, <1>8, <1>9, <1>10, <1>11, <1>12, <1>13, <1>14, <1>15 DEF LsNext

\* Of a datagram without Join Requests parseBuffer() gives every valid data
\* frame to put(), and no frame twice, however many frames with a wrong MIC
\* parse() leaves out between them (udp-listener.cpp, utillora.cpp).
THEOREM WrongMicLosesNothing == LsSpec => []WrongMicCostsNoOther
<1>1. HandInv => WrongMicCostsNoOther
  <2> SUFFICES ASSUME HandInv PROVE WrongMicCostsNoOther
    OBVIOUS
  <2>1. DOMAIN lsGot = 1 .. Len(lsGot)
    BY LenProperties DEF HandInv
  <2>2. ASSUME lsPc = "select", NEW n \in DOMAIN lsGot PROVE Handed(n)
    BY <2>1, <2>2 DEF HandInv
  <2>3. IsInjective(lsPut)
    BY DEF HandInv
  <2> QED
    BY <2>2, <2>3 DEF WrongMicCostsNoOther, ValidFramesHandedOn, Handed, NoJoins
<1> QED
  BY HandInit, HandNext, <1>1, PTL DEF LsSpec
=============================================================================
