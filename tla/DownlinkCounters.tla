-------------------------- MODULE DownlinkCounters --------------------------
(***************************************************************************)
(* The downlink frame counters: JsonFileDeviceHistoryService, which keeps  *)
(* them, and its users.  The listener thread (LoraPacketProcessor::put and *)
(* join) stores uplink counters and reserves a downlink counter for each   *)
(* window of a Join Accept; the thread of PacketQueue::runner reads a      *)
(* counter, sends a reply with it and stores it back.  Every operation of  *)
(* the service holds mutexMap, a reply makes two of them.  The storage     *)
(* goes to the disk when the server stops, and nowhere else.               *)
(***************************************************************************)
EXTENDS Integers, Sequences

CONSTANTS
  Addrs,      \* addresses of registered devices
  Zero,       \* the empty address: of a device that has not been given one
  Fresh,      \* addresses IdentityService::next() hands out
  Joiners,    \* addresses of the devices that join (Zero may be one)
  Masters,    \* devices allowed to control the service
  Replies,    \* kinds of replies: "MAC", "JOIN", "CONTROL"
  UpCnts,     \* uplink counter values
  Crashing,   \* whether the process may be killed
  MaxQueue,   \* bound: replies waiting in the packet queue
  MaxCnt      \* bound: counter values

Kinds == {"MAC", "JOIN", "CONTROL"}

Keys == Addrs \cup Fresh \cup {Zero}

ASSUME CounterAssumption ==
  /\ Zero \notin Addrs \cup Fresh
  /\ Addrs \cap Fresh = {}
  /\ Joiners \subseteq Addrs \cup {Zero}
  /\ Masters \subseteq Addrs
  /\ Replies \subseteq Kinds
  /\ UpCnts \subseteq Nat
  /\ Crashing \in BOOLEAN
  /\ MaxQueue \in Nat
  /\ MaxCnt \in Nat

VARIABLES
  phase,      \* "up", "saving" (in flushFiles) or "down"
  storage,    \* std::map<DEVADDRINT, DEVICE_HISTORY_ITEM> storage
  file,       \* the JSON file
  queued,     \* replies in the packet queue, in order
  second,     \* listener: address whose second Join window is not yet pushed
  pc,         \* packet queue thread: "idle", "send" or "store"
  reply,      \* packet queue thread: the reply it is making
  last,       \* history: counter of the last frame sent to each device
  parity      \* history: parity of the number of frames sent

vars == <<phase, storage, file, queued, second, pc, reply, last, parity>>

Entry == [up : Nat, down : Nat]

Item == [mode : Kinds, dev : Keys, to : Keys]

Nothing == [k \in {} |-> [up |-> 0, down |-> 0]]

NoReply == [mode |-> "MAC", dev |-> Zero, to |-> Zero, fcnt |-> 0]

(***************************************************************************)
(* JsonFileDeviceHistoryService.  storage[a] of a std::map creates a zero  *)
(* entry for an address it does not hold.                                  *)
(***************************************************************************)
get(a) == IF a \in DOMAIN storage THEN storage[a] ELSE [up |-> 0, down |-> 0]

put(a, v) ==
  storage' = [k \in DOMAIN storage \cup {a} |-> IF k = a THEN v ELSE storage[k]]

putUp(a, c) == put(a, [get(a) EXCEPT !.up = c])

putDown(a, c) == put(a, [get(a) EXCEPT !.down = c])

incrementDown(a) == get(a).down < MaxCnt /\ putDown(a, get(a).down + 1)

\* Mutant of load: an entry is restored with its uplink counter only.
loadUp == storage' = [k \in DOMAIN file \ {Zero} |-> [file[k] EXCEPT !.down = 0]]

\* load(): clear() and the entries of the file; the handler skips address 0.
load == storage' = [k \in DOMAIN file \ {Zero} |-> file[k]]

(***************************************************************************)
(* The listener thread.                                                    *)
(***************************************************************************)
Enqueued(mode, a, to) ==
  Append(queued, [mode |-> mode, dev |-> a, to |-> to])

\* put(): a data frame, with MAC commands to answer or without.
ReceiveData(a, c) ==
  /\ phase = "up"
  /\ second = {}
  /\ putUp(a, c)
  /\ \/ UNCHANGED queued
     \/ /\ "MAC" \in Replies
        /\ Len(queued) < MaxQueue
        /\ queued' = Enqueued("MAC", a, a)
  /\ UNCHANGED <<phase, file, second, pc, reply, last, parity>>

\* put(): a frame on the reserved FPort, addressed to another device by its
\* EUI.  The identity of an EUI nobody registered is left uninitialised, so
\* that its address is arbitrary.
ReceiveControl(a, to) ==
  /\ phase = "up"
  /\ second = {}
  /\ "CONTROL" \in Replies
  /\ Len(queued) < MaxQueue
  /\ queued' = Enqueued("CONTROL", a, to)
  /\ UNCHANGED <<phase, storage, file, second, pc, reply, last, parity>>

\* Mutant of Join: the counter is reserved after the push of the item.
JoinLate(a) ==
  /\ phase = "up"
  /\ second = {}
  /\ "JOIN" \in Replies
  /\ Len(queued) + 1 < MaxQueue
  /\ queued' = Enqueued("JOIN", a, a)
  /\ second' = {a}
  /\ UNCHANGED <<phase, storage, file, pc, reply, last, parity>>

\* join() and enqueueJoinResponse(): a counter and an item for each window.
Join(a) ==
  /\ phase = "up"
  /\ second = {}
  /\ "JOIN" \in Replies
  /\ Len(queued) + 1 < MaxQueue
  /\ incrementDown(a)
  /\ queued' = Enqueued("JOIN", a, a)
  /\ second' = {a}
  /\ UNCHANGED <<phase, file, pc, reply, last, parity>>

JoinSecond(a) ==
  /\ phase = "up"
  /\ second = {a}
  /\ incrementDown(a)
  /\ queued' = Enqueued("JOIN", a, a)
  /\ second' = {}
  /\ UNCHANGED <<phase, file, pc, reply, last, parity>>

(***************************************************************************)
(* The thread of the packet queue: replyMAC(), replyControl() and          *)
(* replyJoinRequest().                                                     *)
(***************************************************************************)
\* Address of the device a reply goes to: joinAccept() gives a device that
\* has none a new one (and does not store it).
Receivers(r) == IF r.mode = "JOIN" /\ r.to = Zero THEN Fresh ELSE {r.to}

\* Mutant of FcntFor: the stored counter is sent again.
FcntForSame(mode, a) == get(a).down

\* Mutant of FcntFor: the counter is decremented.
FcntForPrevious(mode, a) == get(a).down - 1

\* A Join Accept takes the counter that was reserved for it.
FcntFor(mode, a) == IF mode = "JOIN" THEN get(a).down ELSE get(a).down + 1

\* The reply needs an answer and everything it takes to send it is there.
Begin ==
  /\ phase = "up"
  /\ pc = "idle"
  /\ queued # <<>>
  /\ \E a \in Receivers(Head(queued)) :
       LET r == Head(queued) IN
       /\ r.mode = "JOIN" => a \in DOMAIN storage
       /\ FcntFor(r.mode, a) <= MaxCnt
       /\ reply' = [mode |-> r.mode,
                    dev  |-> IF r.mode = "JOIN" THEN a ELSE r.dev,
                    to   |-> a,
                    fcnt |-> FcntFor(r.mode, a)]
  /\ queued' = Tail(queued)
  /\ pc' = "send"
  /\ UNCHANGED <<phase, storage, file, second, last, parity>>

\* The reply is given up: no channel plan, gateway or socket, nothing to
\* answer, or (Join) ERR_CODE_NO_FCNT_DOWN.
GiveUp ==
  /\ phase = "up"
  /\ pc = "idle"
  /\ queued # <<>>
  /\ queued' = Tail(queued)
  /\ UNCHANGED <<phase, storage, file, second, pc, reply, last, parity>>

\* sendto() succeeds.  A Join Accept carries no frame counter.
Sent ==
  /\ pc = "send"
  /\ pc' = "store"
  /\ IF reply.mode = "JOIN" \/ reply.to \notin Addrs
     THEN UNCHANGED <<last, parity>>
     ELSE /\ last' = [last EXCEPT ![reply.to] = reply.fcnt]
          /\ parity' = 1 - parity
  /\ UNCHANGED <<phase, storage, file, queued, second, reply>>

\* sendto() fails: the counter is not stored and will be tried again.
SendFailed ==
  /\ pc = "send"
  /\ pc' = "idle"
  /\ reply' = NoReply
  /\ UNCHANGED <<phase, storage, file, queued, second, last, parity>>

\* Mutant of Store: the counter that was read is stored, not the one sent.
StoreRead ==
  /\ pc = "store"
  /\ pc' = "idle"
  /\ reply' = NoReply
  /\ putDown(reply.dev, reply.fcnt - 1)
  /\ UNCHANGED <<phase, file, queued, second, last, parity>>

\* putDown() for the device that the item came from: for a control frame
\* that is the sender, not the device the reply went to.
Store ==
  /\ pc = "store"
  /\ pc' = "idle"
  /\ reply' = NoReply
  /\ putDown(reply.dev, reply.fcnt)
  /\ UNCHANGED <<phase, file, queued, second, last, parity>>

(***************************************************************************)
(* The process.                                                            *)
(***************************************************************************)
\* SIGINT: the handler interrupts the listener thread for good, waits in
\* PacketQueue::stop() for the other one and then saves; opening the file
\* truncates it.
Shutdown ==
  /\ phase = "up"
  /\ pc = "idle"
  /\ phase' = "saving"
  /\ file' = Nothing
  /\ queued' = <<>>
  /\ second' = {}
  /\ UNCHANGED <<storage, pc, reply, last, parity>>

save ==
  /\ phase = "saving"
  /\ file' = storage
  /\ storage' = Nothing
  /\ phase' = "down"
  /\ UNCHANGED <<queued, second, pc, reply, last, parity>>

Crash ==
  /\ Crashing
  /\ phase # "down"
  /\ phase' = "down"
  /\ queued' = <<>>
  /\ second' = {}
  /\ pc' = "idle"
  /\ reply' = NoReply
  /\ storage' = Nothing
  /\ UNCHANGED <<file, last, parity>>

Restart ==
  /\ phase = "down"
  /\ load
  /\ phase' = "up"
  /\ UNCHANGED <<file, queued, second, pc, reply, last, parity>>

Init ==
  /\ phase = "up"
  /\ storage = Nothing
  /\ file = Nothing
  /\ queued = <<>>
  /\ second = {}
  /\ pc = "idle"
  /\ reply = NoReply
  /\ last = [d \in Addrs |-> 0]
  /\ parity = 0

Next ==
  \/ \E a \in Addrs, c \in UpCnts : ReceiveData(a, c)
  \/ \E a \in Masters, to \in Keys : ReceiveControl(a, to)
  \/ \E a \in Joiners : Join(a) \/ JoinSecond(a)
  \/ Begin \/ GiveUp \/ Sent \/ SendFailed \/ Store
  \/ Shutdown \/ save \/ Crash \/ Restart

Spec == Init /\ [][Next]_vars
-----------------------------------------------------------------------------
\* Every variable holds a value of the C++ type it models; counters are
\* unsigned.
TypeOK ==
  /\ phase \in {"up", "saving", "down"}
  /\ DOMAIN storage \subseteq Keys
  /\ storage \in [DOMAIN storage -> Entry]
  /\ DOMAIN file \subseteq Keys
  /\ file \in [DOMAIN file -> Entry]
  /\ queued \in Seq(Item)
  /\ second \in SUBSET Joiners
  /\ pc \in {"idle", "send", "store"}
  /\ reply \in [mode : Kinds, dev : Keys, to : Keys, fcnt : Nat]
  /\ last \in [Addrs -> Nat]
  /\ parity \in {0, 1}

\* "fcntdown: Last frame count sent by network service": between two replies
\* the stored counter of a device is not behind the last frame sent to it,
\* whatever the listener thread did between the read and the store.
CountersCoverSent ==
  phase = "up" /\ pc = "idle" => \A d \in Addrs : last[d] <= get(d).down

\* replyJoinRequest() answers ERR_CODE_NO_FCNT_DOWN when the device has no
\* entry; enqueueJoinResponse() has created it before the item is queued.
JoinHasHistory ==
  \A i \in 1 .. Len(queued) :
    queued[i].mode = "JOIN" => Receivers(queued[i]) \cap DOMAIN storage # {}

\* Whatever is killed and when, the counter of a device (that does not send
\* control frames) never falls behind the one in the file: load() restores it
\* and no interleaving of the two threads takes it back.
NeverBehindFile ==
  phase = "up" => \A d \in DOMAIN file \ ({Zero} \cup Masters) :
                    file[d].down <= get(d).down

\* The frames sent to a device carry increasing counters: refinement of
\* FrameCounters.
Frames == INSTANCE FrameCounters

CountersIncrease == Frames!Spec
=============================================================================
