---------------------------- MODULE PacketQueue ----------------------------
(***************************************************************************)
(* class PacketQueue (packet-queue.h, packet-queue.cpp): the replies that  *)
(* wait for their moment.  The listener thread calls push(); the thread    *)
(* runner() sleeps in select(), takes every reply that is due with         *)
(* getFirstExpired() and asks getNextTimeout() how long to sleep next.     *)
(*                                                                         *)
(* `packets' maps a device address to a vector of items, `addrs' is the    *)
(* deque of device addresses in the order in which items were stored.  A   *)
(* vector is modelled by the set of its items: field `at', the global      *)
(* storage number of the item, is its place.  Of the metadata of an item   *)
(* (one entry per gateway that heard the frame) the queue only uses the    *)
(* gateway with the best signal, so the item carries that gateway and its  *)
(* signal.                                                                 *)
(***************************************************************************)
EXTENDS Integers, Sequences, FiniteSets

CONSTANTS
  Devices,     \* device addresses, the keys of `packets'
  FPorts,      \* FPort values
  FCnts,       \* frame counter values
  Gateways,    \* gateway identifiers (never 0)
  Signals,     \* signal to noise ratios
  Modes,       \* ITEM_PROCESS_MODE values handed to push()
  Delay,       \* Delay[m]: time2send minus receive time for mode m
  JoinDelay2,  \* the same for the second window of a Join Accept
  Uplinks,     \* the [dev, port, mode] combinations the handler pushes
  Lead,        \* TIME_LEAD_MICROSECONDS
  DefTimeout,  \* DEF_TIMEOUT_MS
  MaxPush,     \* bound: number of stored items
  LastPush,    \* bound: instant of the last arrival
  MaxTime      \* bound: last instant of the clock

ASSUME QueueAssumption ==
  /\ Signals \subseteq Int
  /\ "JOIN" \in Modes
  /\ Delay \in [Modes -> Nat]
  /\ JoinDelay2 \in Nat
  /\ Uplinks \subseteq [dev : Devices, port : FPorts, mode : Modes]
  /\ Lead \in Nat
  /\ DefTimeout \in Nat \ {0}
  /\ MaxPush \in Nat
  /\ LastPush \in Nat
  /\ MaxTime \in Nat

VARIABLES
  now,         \* the wall clock
  packets,     \* std::map<DEVADDRINT, SemtechUDPPacketItems> packets
  addrs,       \* std::deque<DEVADDRINT> addrs
  stored,      \* number of items stored so far: the `at' of the last one
  second,      \* the second push of the enqueueJoinResponse() under way
  pc,          \* where runner() is
  t,           \* runner(): t, the time of the current round
  item,        \* runner(): items returned by the last getFirstExpired()
  timeout,     \* runner(): timeoutMicroSeconds
  wakeAt       \* when the current select() times out

vars == <<now, packets, addrs, stored, second, pc, t, item, timeout, wakeAt>>

runnerVars == <<pc, t, item, timeout, wakeAt>>

(***************************************************************************)
(* SemtechUDPPacketItem                                                    *)
(***************************************************************************)
Item ==
  [at : Nat, port : FPorts, cnt : FCnts, mode : Modes, due : Nat,
   gw : Gateways, snr : Signals]

Has(a) == a \in DOMAIN packets

(***************************************************************************)
(* The vector of a device: its first item, the item just before x, the     *)
(* items with the frame counter of the first one, and the first of these   *)
(* (the very first item excluded) with the strongest signal.               *)
(***************************************************************************)
First(b) == CHOOSE x \in b : \A y \in b : x.at <= y.at

Before(b, x) ==
  CHOOSE y \in b : /\ y.at < x.at
                   /\ \A z \in b : z.at < x.at => z.at <= y.at

SameCnt(b) == {x \in b : x.cnt = First(b).cnt}

Strongest(b) ==
  LET others == SameCnt(b) \ {First(b)}
  IN  CHOOSE x \in others :
        \A y \in others : \/ y.snr < x.snr
                          \/ y.snr = x.snr /\ x.at <= y.at

(***************************************************************************)
(* The item getFirstExpired() returns.  The loop that looks for the best   *)
(* signal starts at the second item but numbers it 0, so packets[idx] is   *)
(* the item stored just before the one it selected.                        *)
(***************************************************************************)
Returned(b) ==
  IF SameCnt(b) = {First(b)} THEN First(b) ELSE Before(b, Strongest(b))

\* Mutant of Diff: a time that has passed is not clamped to 0.
DiffUnclamped(t1, t2) == t2 - t1

\* diffMicroSeconds(t1, t2) for instants that are close together.
Diff(t1, t2) == IF t2 < t1 THEN 0 ELSE t2 - t1

(***************************************************************************)
(* push(): the same frame heard by another gateway (same FPort and FCnt)   *)
(* only adds metadata to the item that is already there; anything else is  *)
(* stored as a new item, with one more entry in addrs.                     *)
(***************************************************************************)
\* Mutant of Twin: only the item stored last is compared.
TwinOfLast(x, port, cnt) == x.port = port /\ x.cnt = cnt /\ x.at = stored

Twin(x, port, cnt) == x.port = port /\ x.cnt = cnt

Heard(x, gw, snr) ==
  IF snr > x.snr THEN [x EXCEPT !.gw = gw, !.snr = snr] ELSE x

PushMerge(a, port, cnt, gw, snr) ==
  /\ Has(a)
  /\ \E x \in packets[a] :
       /\ Twin(x, port, cnt)
       /\ packets' = [packets EXCEPT ![a] = (@ \ {x}) \cup {Heard(x, gw, snr)}]
  /\ UNCHANGED <<addrs, stored>>

\* Mutant of Scheduled: a device that already has items gets no new entry.
ScheduledOnce(a) == IF Has(a) THEN addrs ELSE Append(addrs, a)

\* Mutant of Scheduled: push_front() for push_back().
ScheduledInFront(a) == <<a>> \o addrs

\* addrs after storing an item of device a.
Scheduled(a) ==
  IF Has(a) /\ packets[a] = {} THEN addrs ELSE Append(addrs, a)

PushStore(a, port, cnt, mode, due, gw, snr) ==
  LET new == [at |-> stored + 1, port |-> port, cnt |-> cnt, mode |-> mode,
              due |-> due, gw |-> gw, snr |-> snr]
  IN  /\ stored < MaxPush
      /\ ~ \E x \in (IF Has(a) THEN packets[a] ELSE {}) : Twin(x, port, cnt)
      /\ packets' = [d \in DOMAIN packets \cup {a} |->
                       IF d # a THEN packets[d]
                       ELSE IF Has(a) THEN packets[a] \cup {new} ELSE {new}]
      /\ addrs' = Scheduled(a)
      /\ stored' = stored + 1

Push(a, port, cnt, mode, due, gw, snr) ==
  \/ PushMerge(a, port, cnt, gw, snr)
  \/ PushStore(a, port, cnt, mode, due, gw, snr)

(***************************************************************************)
(* The listener thread: enqueueMAC() and enqueueControl() push one item,   *)
(* enqueueJoinResponse() pushes one for each window, one after the other.  *)
(* A Join item carries the downlink counter of the device as its FCnt.     *)
(* (MaxPush leaves room for both windows.)                                 *)
(***************************************************************************)
Enqueue ==
  /\ now <= LastPush
  /\ second = {}
  /\ \E u \in Uplinks, cnt \in FCnts, gw \in Gateways, snr \in Signals :
       /\ u.mode = "JOIN" => stored + 1 < MaxPush
       /\ Push(u.dev, u.port, cnt, u.mode, now + Delay[u.mode], gw, snr)
       /\ second' = IF u.mode = "JOIN"
                    THEN {[dev |-> u.dev, port |-> u.port, gw |-> gw,
                           snr |-> snr, due |-> now + JoinDelay2]}
                    ELSE {}
  /\ UNCHANGED <<now, runnerVars>>

EnqueueSecond ==
  /\ \E w \in second, cnt \in FCnts :
       Push(w.dev, w.port, cnt, "JOIN", w.due, w.gw, w.snr)
  /\ second' = {}
  /\ UNCHANGED <<now, runnerVars>>

(***************************************************************************)
(* getFirstExpired(): only the vector of the first address is looked at.   *)
(***************************************************************************)
\* Mutant of Expired: the time of the first item is not looked at.
ExpiredAtOnce(time) ==
  addrs # <<>> /\ Has(Head(addrs)) /\ packets[Head(addrs)] # {}

Expired(time) ==
  /\ addrs # <<>>
  /\ Has(Head(addrs))
  /\ packets[Head(addrs)] # {}
  /\ Diff(time, First(packets[Head(addrs)]).due) <= Lead

\* Mutant of Dequeued: the entry of the map is never erased.
DequeuedKeepKey(a) == [packets EXCEPT ![a] = @ \ SameCnt(@)]

\* The map without the items of a that have the FCnt of the first one.
Dequeued(a) ==
  LET rest == packets[a] \ SameCnt(packets[a])
  IN  IF rest # {} THEN [packets EXCEPT ![a] = rest]
                   ELSE [d \in DOMAIN packets \ {a} |-> packets[d]]

getFirstExpired ==
  /\ Expired(t)
  /\ item' = {Returned(packets[Head(addrs)])}
  /\ packets' = Dequeued(Head(addrs))
  /\ addrs' = Tail(addrs)

(***************************************************************************)
(* getNextTimeout().  It calls addrs.front() without asking whether the    *)
(* deque is empty: the address it then reads is arbitrary.                 *)
(***************************************************************************)
FrontAddr == IF addrs = <<>> THEN Devices ELSE {Head(addrs)}

TimeoutFor(a) ==
  IF Has(a) /\ packets[a] # {} THEN Diff(now, First(packets[a]).due)
                               ELSE DefTimeout

(***************************************************************************)
(* runner()                                                                *)
(***************************************************************************)
\* select() times out.  With an empty queue the loop sleeps again with the
\* timeout it had, otherwise it starts a round at the current time.
Wake ==
  /\ pc = "select"
  /\ now >= wakeAt
  /\ IF DOMAIN packets = {}
     THEN /\ wakeAt' = now + timeout
          /\ UNCHANGED <<pc, t>>
     ELSE /\ pc' = "drain"
          /\ t' = now
          /\ UNCHANGED wakeAt
  /\ UNCHANGED <<now, packets, addrs, stored, second, item, timeout>>

\* One turn of the inner loop: a reply is taken and dispatched.
Take ==
  /\ pc = "drain"
  /\ getFirstExpired
  /\ UNCHANGED <<now, stored, second, pc, t, timeout, wakeAt>>

\* Nothing (more) to take: compute the timeout and go back to sleep.
Sleep ==
  /\ pc = "drain"
  /\ ~Expired(t)
  /\ \E a \in FrontAddr : timeout' = TimeoutFor(a)
  /\ wakeAt' = now + timeout'
  /\ pc' = "select"
  /\ UNCHANGED <<now, packets, addrs, stored, second, t, item>>

(***************************************************************************)
(* The clock.  In Spec it runs freely, also while the runner works; only   *)
(* at LastPush it waits for the second window of the last Join Accept.     *)
(***************************************************************************)
Tick ==
  /\ now < MaxTime
  /\ now >= LastPush => second = {}
  /\ now' = now + 1
  /\ UNCHANGED <<packets, addrs, stored, second, runnerVars>>

Init ==
  /\ now = 0
  /\ packets = [d \in {} |-> {}]
  /\ addrs = <<>>
  /\ stored = 0
  /\ second = {}
  /\ pc = "select"
  /\ t = 0
  /\ item = {}
  /\ timeout = DefTimeout
  /\ wakeAt = DefTimeout

Next == Enqueue \/ EnqueueSecond \/ Wake \/ Take \/ Sleep \/ Tick

Spec == Init /\ [][Next]_vars

(***************************************************************************)
(* Both threads are scheduled and time diverges whatever the gateways send *)
(* (hence strong fairness of Tick); nothing obliges a device to send.      *)
(***************************************************************************)
Fairness ==
  /\ WF_vars(EnqueueSecond)
  /\ WF_vars(Wake)
  /\ WF_vars(Take)
  /\ WF_vars(Sleep)
  /\ SF_vars(Tick)

FairSpec == Spec /\ Fairness

-----------------------------------------------------------------------------
(***************************************************************************)
(* Invariants.                                                             *)
(***************************************************************************)

\* Every variable holds a value of the C++ type it models; in particular the
\* timeout handed to select() is never negative.
TypeOK ==
  /\ now \in Nat
  /\ DOMAIN packets \subseteq Devices
  /\ packets \in [DOMAIN packets -> SUBSET Item]
  /\ addrs \in Seq(Devices)
  /\ stored \in Nat
  /\ second \subseteq [dev : Devices, port : FPorts, gw : Gateways,
                       snr : Signals, due : Nat]
  /\ pc \in {"select", "drain"}
  /\ t \in Nat
  /\ item \subseteq Item
  /\ timeout \in Nat
  /\ wakeAt \in Nat

\* The comment "always keep at least 1 item" of getFirstExpired() and
\* getNextTimeout(): no device is left in the map with an empty vector, so
\* the early returns for an empty vector are never taken and the queue is
\* empty exactly when count() is 0.
NoEmptyVector == \A a \in DOMAIN packets : packets[a] # {}

\* push() merges the copies of a frame heard by several gateways: a vector
\* never holds two items with the same FPort and FCnt.
OneItemPerFrame ==
  \A a \in DOMAIN packets : \A x, y \in packets[a] :
    (x.port = y.port /\ x.cnt = y.cnt) => x = y

\* The places of device a in a deque s of addresses.
Places(s, a) == {i \in 1 .. Len(s) : s[i] = a}

\* No reply is stranded: addrs holds at least as many entries for a device
\* as the device has items.  push() adds both together and
\* getFirstExpired() removes one entry with at least one item; an item
\* without an entry would never be looked at.
EveryItemScheduled ==
  \A a \in DOMAIN packets :
    Cardinality(packets[a]) <= Cardinality(Places(addrs, a))

\* getNextTimeout() reads addrs.front() of an empty deque only when the map
\* is empty too, so that whatever it reads it answers DEF_TIMEOUT_MS.
EmptyTogether == addrs = <<>> => DOMAIN packets = {}

\* The vectors are finite, an item's place is its storage number and is taken
\* by no other item of the vector.  With the invariants above this is
\* inductive.
VectorOK ==
  \A a \in DOMAIN packets :
    /\ IsFiniteSet(packets[a])
    /\ \A x \in packets[a] : x.at <= stored
    /\ \A x, y \in packets[a] : x.at = y.at => x = y

IInv ==
  /\ TypeOK
  /\ VectorOK
  /\ NoEmptyVector
  /\ OneItemPerFrame
  /\ EveryItemScheduled

(***************************************************************************)
(* Action properties: what getFirstExpired() may hand to the runner.       *)
(***************************************************************************)

\* "return packet ... remove packet from the queue": the packet that
\* getFirstExpired() returns is one of those it removes.
ReturnedPacketIsRemoved ==
  [][Take => \A x \in item' : \A a \in DOMAIN packets' : x \notin packets'[a]]_vars

\* Replies leave the queue in the order in which they were stored, across
\* all devices, each of them once.
Fifo ==
  [][Take => \A x \in item' : \A a \in DOMAIN packets' :
               \A y \in packets'[a] : x.at < y.at]_vars

\* No reply leaves more than TIME_LEAD_MICROSECONDS before its time2send.
NeverEarly == [][Take => \A x \in item' : Diff(t, x.due) <= Lead]_vars

(***************************************************************************)
(* Liveness.                                                               *)
(***************************************************************************)
Queued(n) == \E a \in DOMAIN packets : \E x \in packets[a] : x.at = n

\* Every stored reply leaves the queue.
EventuallyServed == \A n \in 1 .. MaxPush : Queued(n) ~> ~Queued(n)
=============================================================================
