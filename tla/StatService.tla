---------------------------- MODULE StatService ----------------------------
(***************************************************************************)
(* The statistics services: gateway-stat-service-file.cpp and              *)
(* device-stat-service-file.cpp append statistics to a file,               *)
(* gateway-stat-service-post.cpp and device-stat-service-post.cpp post     *)
(* them to a web server.  put() is called by the thread of the listener;   *)
(* save() by that thread when the list is long, by the thread of the       *)
(* service when its delay is over, and by flushFiles() when the process    *)
(* ends.  The entries of a service are numbered as they are put.           *)
(***************************************************************************)
EXTENDS Naturals, FiniteSets, SequencesExt

CONSTANT StBuffer       \* MAX_GW_STAT_BUFFER_SIZE, MAX_DEVICE_STAT_BUFFER_SIZE

StServices == {"gateway", "device"}
StSavers == {"runner", "listener", "closer"}

ASSUME StAssumption == StBuffer \in Nat

VARIABLES stList, stFile,       \* list; what the file or the web server has
          stCopy,               \* copyList of each save() that is under way
          stLost,               \* what an append or a post that failed had taken
          stPut,                \* number of entries put
          stExited              \* the process has ended

stVars == <<stList, stFile, stCopy, stLost, stPut, stExited>>

StInit ==
    /\ stList = [s \in StServices |-> <<>>]
    /\ stFile = [s \in StServices |-> <<>>]
    /\ stCopy = [s \in StServices |-> [v \in StSavers |-> <<>>]]
    /\ stLost = [s \in StServices |-> {}]
    /\ stPut = [s \in StServices |-> 0]
    /\ stExited = FALSE

(***************************************************************************)
(* save(): the copy is taken and the list cleared under the lock, and the  *)
(* copy is written without it.  append2file() or the post may fail, which  *)
(* nobody looks at: the list was cleared before.                           *)
(***************************************************************************)
\* Mutant: the list is cleared outside of the critical section, that is not here.
TakeCopyKeeps(s, v) ==
    /\ ~stExited /\ stList[s] # <<>> /\ stCopy[s][v] = <<>>
    /\ stCopy' = [stCopy EXCEPT ![s][v] = stList[s]]
    /\ UNCHANGED <<stList, stFile, stLost, stPut, stExited>>
TakeCopy(s, v) ==
    /\ ~stExited /\ stList[s] # <<>> /\ stCopy[s][v] = <<>>
    /\ stCopy' = [stCopy EXCEPT ![s][v] = stList[s]]
    /\ stList' = [stList EXCEPT ![s] = <<>>]
    /\ UNCHANGED <<stFile, stLost, stPut, stExited>>

AppendSucceeds(s, v) ==
    /\ stFile' = [stFile EXCEPT ![s] = @ \o stCopy[s][v]]
    /\ UNCHANGED stLost
AppendFails(s, v) ==
    /\ stLost' = [stLost EXCEPT ![s] = @ \cup ToSet(stCopy[s][v])]
    /\ UNCHANGED stFile
WriteCopy(s, v) ==
    /\ ~stExited /\ stCopy[s][v] # <<>>
    /\ AppendSucceeds(s, v) \/ AppendFails(s, v)
    /\ stCopy' = [stCopy EXCEPT ![s][v] = <<>>]
    /\ UNCHANGED <<stList, stPut, stExited>>

(***************************************************************************)
(* runner(): tuneDelay() fits the delay between two calls of save() to the *)
(* length of the list; here the delay is any time.                         *)
(***************************************************************************)
\* Mutant: the service saves only when its list is long.
RunnerTakesLong(s) == Len(stList[s]) > StBuffer /\ TakeCopy(s, "runner")
RunnerTakes(s) == TakeCopy(s, "runner")
RunnerWrites(s) == WriteCopy(s, "runner")

(***************************************************************************)
(* put(): flush() when the list is longer than the buffer, then the entry  *)
(* is added under the lock.                                                *)
(***************************************************************************)
PutFlushes(s) == Len(stList[s]) > StBuffer /\ TakeCopy(s, "listener")
PutFlushed(s) == WriteCopy(s, "listener")
PutAdds(s) ==
    /\ ~stExited /\ stCopy[s]["listener"] = <<>>
    /\ stPut' = [stPut EXCEPT ![s] = @ + 1]
    /\ stList' = [stList EXCEPT ![s] = Append(@, stPut[s] + 1)]
    /\ UNCHANGED <<stFile, stCopy, stLost, stExited>>

(***************************************************************************)
(* RunListener::done(): flushFiles() flushes the device statistics, not    *)
(* the gateway statistics; exit() ends the threads where they are, and the *)
(* save() that the signal has interrupted.                                 *)
(***************************************************************************)
CloserTakes == TakeCopy("device", "closer")
CloserWrites == WriteCopy("device", "closer")
CloserExits ==
    /\ ~stExited /\ stList["device"] = <<>> /\ stCopy["device"]["closer"] = <<>>
    /\ stExited' = TRUE
    /\ UNCHANGED <<stList, stFile, stCopy, stLost, stPut>>

-----------------------------------------------------------------------------
Tried(s) == ToSet(stFile[s]) \cup stLost[s]
UnderWay(s) == ToSet(stList[s]) \cup UNION {ToSet(stCopy[s][v]) : v \in StSavers}
Amount(s) == Len(stFile[s]) + Cardinality(stLost[s]) + Len(stList[s])
             + Len(stCopy[s]["runner"]) + Len(stCopy[s]["listener"]) + Len(stCopy[s]["closer"])

\* Whatever the threads that save do to each other, every statistics entry
\* that was put is at one place, once: in the list, in the copy of a save()
\* under way, in the file, or with an append or a post that failed.  When the
\* process has ended, only the device statistics that the thread of the service
\* was writing, or the listener when the signal interrupted it, are missing:
\* flush() of done() has tried to write all others.
StatsKeptOnce ==
    /\ \A s \in StServices :
         Tried(s) \cup UnderWay(s) = 1 .. stPut[s] /\ Amount(s) = stPut[s]
    /\ stExited =>
         1 .. stPut["device"] = Tried("device") \cup ToSet(stCopy["device"]["runner"])
                                                \cup ToSet(stCopy["device"]["listener"])
=============================================================================
