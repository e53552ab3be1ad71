--------------------------- MODULE ServerProcess ---------------------------
(***************************************************************************)
(* The life of the server process: RunListener::init(), daemonize.cpp,     *)
(* run(), the signals, RunListener::done(), and how the threads of the     *)
(* packet queue (packet-queue.cpp) and of the receiver queue processor     *)
(* (receiver-queue-processor.cpp) are started and stopped.  A signal that  *)
(* is sent to the process is handled by its main thread, the listener's.   *)
(***************************************************************************)
EXTENDS Integers, SequencesExt

CONSTANTS SpDaemon,     \* subset of BOOLEAN: started with and without -d
          SpQueues,     \* storage types of the message queue: "json", "dir", "lmdb"
          SpDeliveries  \* bound on the rounds of processQueue()

ASSUME SpAssumption == SpDaemon \subseteq BOOLEAN /\ SpDeliveries \in Nat

VARIABLES spDaemon, spQueue,    \* the configuration
          spPc, spStep,         \* the main thread; its step of init()
          spHeld,               \* it was interrupted while it held a mutex
          spHandler,            \* it is in the handler of SIGINT
          pqMode, pqThread,     \* PacketQueue: mode, the thread
          pqSeen,               \* mode when stop() looked at it
          rqStarted, rqIsDone, rqThread,    \* ReceiverQueueProcessor
          spDelivered, spSaved  \* rounds of processQueue(); as flushed

spVars == <<spDaemon, spQueue, spPc, spStep, spHeld, spHandler, pqMode, pqThread, pqSeen,
            rqStarted, rqIsDone, rqThread, spDelivered, spSaved>>
pqVars == <<pqMode, pqThread, pqSeen>>
rqVars == <<rqStarted, rqIsDone, rqThread>>
configVars == <<spDaemon, spQueue>>

Unflushed == -1         \* no queue has been flushed

SpInit ==
    /\ spDaemon \in SpDaemon /\ spQueue \in SpQueues
    /\ spPc = "init" /\ spStep = 1 /\ spHeld = FALSE /\ spHandler = FALSE
    /\ pqMode = 0 /\ pqThread = "none" /\ pqSeen = 0
    /\ rqStarted = FALSE /\ rqIsDone = TRUE /\ rqThread = "none"
    /\ spDelivered = 0 /\ spSaved = Unflushed

Running == spPc \notin {"exited", "crashed"}

-----------------------------------------------------------------------------
(***************************************************************************)
(* init(), in its order.  A step that fails ends the process, but for the  *)
(* device history and the queue; the LMDB queue is not there to be         *)
(* initialised.  The processor starts the thread of the packet queue.      *)
(***************************************************************************)
InitSteps == <<"identity", "statistics", "history", "regional", "queue", "plugins",
               "databases", "processor", "interface">>
MayFail == {"identity", "statistics", "regional", "databases", "plugins", "interface"}

InitDoes(step) ==
    /\ spPc = "init" /\ InitSteps[spStep] = step
    /\ IF step = "processor" THEN pqThread' = "new" ELSE UNCHANGED pqThread
    /\ IF step = "interface" THEN spPc' = "inited" ELSE UNCHANGED spPc
    /\ spStep' = spStep + 1
    /\ UNCHANGED <<configVars, spHeld, spHandler, pqMode, pqSeen, rqVars, spDelivered, spSaved>>
InitIdentity == InitDoes("identity")
InitStatistics == InitDoes("statistics")
InitHistory == InitDoes("history")
InitRegional == InitDoes("regional")
InitQueue == spQueue # "lmdb" /\ InitDoes("queue")
InitPlugins == InitDoes("plugins")
InitDatabases == InitDoes("databases")
InitProcessor == InitDoes("processor")
InitInterface == InitDoes("interface")
InitOne == InitIdentity \/ InitStatistics \/ InitHistory \/ InitRegional \/ InitQueue
           \/ InitPlugins \/ InitDatabases \/ InitProcessor \/ InitInterface
InitFails ==
    /\ spPc = "init"
    /\ \/ InitSteps[spStep] \in MayFail /\ spPc' = "exited"
       \/ InitSteps[spStep] = "queue" /\ spQueue = "lmdb" /\ spPc' = "crashed"
    /\ UNCHANGED <<configVars, spStep, spHeld, spHandler, pqVars, rqVars, spDelivered, spSaved>>

(***************************************************************************)
(* Daemonize::init(): the process that goes on after fork() has the memory *)
(* of its parent and none of its other threads.                            *)
(***************************************************************************)
Daemonize ==
    /\ spPc = "inited" /\ spDaemon
    /\ spPc' = "run" /\ pqThread' = "lost"
    /\ UNCHANGED <<configVars, spStep, spHeld, spHandler, pqMode, pqSeen, rqVars, spDelivered, spSaved>>
SetSignalHandler ==
    /\ spPc = "inited" /\ ~spDaemon
    /\ spPc' = "run"
    /\ UNCHANGED <<configVars, spStep, spHeld, spHandler, pqVars, rqVars, spDelivered, spSaved>>

\* run(): the web service may fail to start; start() starts the processor of
\* the receiver queue.
WebServiceFails ==
    /\ spPc = "run" /\ spPc' = "exited"
    /\ UNCHANGED <<configVars, spStep, spHeld, spHandler, pqVars, rqVars, spDelivered, spSaved>>
StartReceiverQueue ==
    /\ spPc = "run" /\ spPc' = "listen"
    /\ rqStarted' = TRUE /\ rqThread' = "new"
    /\ UNCHANGED <<configVars, spStep, spHeld, spHandler, pqVars, rqIsDone, spDelivered, spSaved>>

\* listen(): while it handles a datagram it holds, now and then, a mutex of
\* the history, the statistics or the queue.
Locks == spPc = "listen" /\ spPc' = "locked"
Unlocks == spPc = "locked" /\ spPc' = "listen"
ListenReturns == spPc = "listen" /\ spPc' = "pqStop"
Listening ==
    /\ Locks \/ Unlocks \/ ListenReturns
    /\ UNCHANGED <<configVars, spStep, spHeld, spHandler, pqVars, rqVars, spDelivered, spSaved>>

Closing == {"pqStop", "pqWait", "rqStop", "rqWait", "flush"}

\* SIGINT: stop() and done() in the handler.  done() that interrupts done()
\* waits for the mutex of the done() it has interrupted.
Sigint ==
    /\ ~spDaemon /\ ~spHandler /\ spPc \in {"run", "listen", "locked"} \cup Closing
    /\ spHandler' = TRUE
    /\ spHeld' = (spPc = "locked")
    /\ spPc' = IF spPc \in Closing THEN "stuck" ELSE "pqStop"
    /\ UNCHANGED <<configVars, spStep, pqVars, rqVars, spDelivered, spSaved>>

-----------------------------------------------------------------------------
(***************************************************************************)
(* PacketQueue: runner() and stop().                                       *)
(***************************************************************************)
PqBegins ==
    /\ Running /\ pqThread = "new" /\ pqThread' = "loop" /\ pqMode' = 1
    /\ UNCHANGED <<configVars, spPc, spStep, spHeld, spHandler, pqSeen, rqVars, spDelivered, spSaved>>
\* Mutant: the thread does not tell that it has ended.
PqEndsSilently ==
    /\ Running /\ pqThread = "loop" /\ pqMode # 1
    /\ pqThread' = "gone"
    /\ UNCHANGED <<configVars, spPc, spStep, spHeld, spHandler, pqMode, pqSeen, rqVars, spDelivered, spSaved>>
PqEnds ==
    /\ Running /\ pqThread = "loop" /\ pqMode # 1
    /\ pqThread' = "gone" /\ pqMode' = 0
    /\ UNCHANGED <<configVars, spPc, spStep, spHeld, spHandler, pqSeen, rqVars, spDelivered, spSaved>>

\* Mutant: stop() does not wait for the thread.
PqStopAtOnce ==
    /\ spPc = "pqStop" /\ pqSeen' = pqMode /\ spPc' = "rqStop"
    /\ pqMode' = IF pqMode = 0 THEN 0 ELSE -1
    /\ UNCHANGED <<configVars, spStep, spHeld, spHandler, pqThread, rqVars, spDelivered, spSaved>>
PqStop ==
    /\ spPc = "pqStop" /\ pqSeen' = pqMode
    /\ \/ pqMode = 0 /\ spPc' = "rqStop" /\ UNCHANGED pqMode
       \/ pqMode # 0 /\ spPc' = "pqWait" /\ pqMode' = -1
    /\ UNCHANGED <<configVars, spStep, spHeld, spHandler, pqThread, rqVars, spDelivered, spSaved>>
PqStopped ==
    /\ spPc = "pqWait" /\ pqMode = 0 /\ spPc' = "rqStop"
    /\ UNCHANGED <<configVars, spStep, spHeld, spHandler, pqVars, rqVars, spDelivered, spSaved>>

(***************************************************************************)
(* ReceiverQueueProcessor: runner() and stop().                            *)
(***************************************************************************)
RqBegins ==
    /\ Running /\ rqThread = "new" /\ rqThread' = "check" /\ rqIsDone' = FALSE
    /\ UNCHANGED <<configVars, spPc, spStep, spHeld, spHandler, pqVars, rqStarted, spDelivered, spSaved>>
RqChecks ==
    /\ Running /\ rqThread = "check"
    /\ \/ rqStarted /\ rqThread' = "work" /\ UNCHANGED rqIsDone
       \/ ~rqStarted /\ rqThread' = "gone" /\ rqIsDone' = TRUE
    /\ UNCHANGED <<configVars, spPc, spStep, spHeld, spHandler, pqVars, rqStarted, spDelivered, spSaved>>
RqWorks ==
    /\ Running /\ rqThread = "work" /\ rqThread' = "check"
    /\ spDelivered' = IF spDelivered < SpDeliveries THEN spDelivered + 1 ELSE spDelivered
    /\ UNCHANGED <<configVars, spPc, spStep, spHeld, spHandler, pqVars, rqStarted, rqIsDone, spSaved>>

\* Mutant: stop() waits and does not ask the thread to end.
RqStopForgets ==
    /\ spPc = "rqStop"
    /\ spPc' = IF rqStarted THEN "rqWait" ELSE "flush"
    /\ UNCHANGED <<configVars, spStep, spHeld, spHandler, pqVars, rqVars, spDelivered, spSaved>>
RqStop ==
    /\ spPc = "rqStop" /\ rqStarted' = FALSE
    /\ spPc' = IF rqStarted THEN "rqWait" ELSE "flush"
    /\ UNCHANGED <<configVars, spStep, spHeld, spHandler, pqVars, rqIsDone, rqThread, spDelivered, spSaved>>
RqStopped ==
    /\ spPc = "rqWait" /\ rqIsDone /\ spPc' = "flush"
    /\ UNCHANGED <<configVars, spStep, spHeld, spHandler, pqVars, rqVars, spDelivered, spSaved>>

\* flushFiles() takes the mutexes of the queue, the history and the
\* statistics; the services are deleted, and exit() follows.
FlushFiles ==
    /\ spPc = "flush" /\ ~spHeld /\ spSaved = Unflushed
    /\ spSaved' = spDelivered
    /\ UNCHANGED <<configVars, spPc, spStep, spHeld, spHandler, pqVars, rqVars, spDelivered>>
Exits ==
    /\ spPc = "flush" /\ spSaved # Unflushed /\ spPc' = "exited"
    /\ UNCHANGED <<configVars, spStep, spHeld, spHandler, pqVars, rqVars, spDelivered, spSaved>>

Closes == PqStop \/ PqStopped \/ RqStop \/ RqStopped \/ FlushFiles \/ Exits
PqThreadSteps == PqBegins \/ PqEnds
RqThreadSteps == RqBegins \/ RqChecks \/ RqWorks

SpNext == InitOne \/ InitFails \/ Daemonize \/ SetSignalHandler \/ WebServiceFails
          \/ StartReceiverQueue \/ Listening \/ Sigint \/ Closes
          \/ PqThreadSteps \/ RqThreadSteps

(***************************************************************************)
(* Each thread is scheduled; every select() of them has a timeout.         *)
(***************************************************************************)
SpFairness == WF_spVars(Closes) /\ WF_spVars(PqThreadSteps) /\ WF_spVars(RqThreadSteps)
SpSpec == SpInit /\ [][SpNext]_spVars /\ SpFairness

-----------------------------------------------------------------------------
\* The thread of the packet queue, if stop() has seen it running, is gone
\* before the processor it belongs to is deleted.
QueueThreadGone ==
    spPc \in {"rqStop", "rqWait", "flush"} /\ pqSeen = 1 => pqThread # "loop"

\* What the queue processor does after the queue was written to its file would
\* be done again by the next process: nothing is delivered after the flush.
NothingDeliveredAfterFlush == spSaved # Unflushed => spDelivered = spSaved

\* A server that runs in the foreground and is asked to end ends, unless SIGINT
\* comes while the main thread holds a mutex or is ending already.
StopEnds ==
    (spPc = "pqStop" /\ ~spHeld /\ ~spDaemon) ~> (spPc \in {"exited", "stuck"})

\* Violated: mode 1 is "running": the thread of the packet queue is there.
ModeTellsThread == Running /\ pqMode = 1 => pqThread = "loop"
=============================================================================
