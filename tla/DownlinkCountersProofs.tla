----------------------- MODULE DownlinkCountersProofs -----------------------
(***************************************************************************)
(* Proofs about DownlinkCounters, for any number of devices and any bound. *)
(*                                                                         *)
(* TypeCorrect holds without condition.  The counters are only safe when   *)
(* the process is not killed and nobody sends control frames (see the run  *)
(* of MCDownlinkCounters_control): Quiet says so, and under Quiet the      *)
(* invariant CounterInv carries both CountersCoverSent and the refinement  *)
(* of FrameCounters.                                                       *)
(***************************************************************************)
EXTENDS DownlinkCounters, TLAPS

Quiet == ~Crashing /\ "CONTROL" \notin Replies

(***************************************************************************)
(* The operations of the history service.                                  *)
(***************************************************************************)

\* storage[a] = v of a std::map changes what get() returns for a only, and
\* keeps the map a map from addresses to entries.
LEMMA PutGet ==
  ASSUME NEW a \in Keys, NEW v \in Entry, put(a, v),
         DOMAIN storage \subseteq Keys, storage \in [DOMAIN storage -> Entry]
  PROVE  /\ DOMAIN storage' \subseteq Keys
         /\ storage' \in [DOMAIN storage' -> Entry]
         /\ \A k \in Keys : get(k)' = IF k = a THEN v ELSE get(k)
         /\ DOMAIN storage' = DOMAIN storage \cup {a}
BY DEF put, get

\* get() returns an entry, also for an address that is not in the map.
LEMMA GetType ==
  ASSUME NEW k \in Keys, storage \in [DOMAIN storage -> Entry]
  PROVE  get(k) \in Entry /\ get(k).down \in Nat /\ get(k).up \in Nat
BY DEF get, Entry

\* Enqueued() keeps the queue a sequence of items.
LEMMA EnqueuedType ==
  ASSUME NEW m \in Kinds, NEW a \in Keys, NEW b \in Keys, queued \in Seq(Item)
  PROVE  Enqueued(m, a, b) \in Seq(Item)
<1>1. [mode |-> m, dev |-> a, to |-> b] \in Item
  BY DEF Item
<1> QED
  BY <1>1 DEF Enqueued

(***************************************************************************)
(* The type invariant.                                                     *)
(***************************************************************************)

\* TypeOK holds in every state: counters stay unsigned, every map is keyed by
\* addresses, and the queue holds replies of the configured kinds.
THEOREM TypeCorrect == Spec => []TypeOK
<1> USE CounterAssumption DEF Keys
<1>1. Init => TypeOK
  BY DEF Init, TypeOK, Nothing, NoReply, Entry, Kinds
<1>2. TypeOK /\ [Next]_vars => TypeOK'
  <2> SUFFICES ASSUME TypeOK, [Next]_vars PROVE TypeOK'
    OBVIOUS
  <2>1. ASSUME NEW a \in Addrs, NEW c \in UpCnts, ReceiveData(a, c)
        PROVE  TypeOK'
    <3>1. get(a) \in Entry
      BY GetType DEF TypeOK
    <3>2. [get(a) EXCEPT !.up = c] \in Entry
      BY <3>1 DEF Entry
    <3>3. DOMAIN storage' \subseteq Keys /\ storage' \in [DOMAIN storage' -> Entry]
      BY <2>1, <3>2, PutGet DEF ReceiveData, putUp, TypeOK
    <3>4. queued' \in Seq(Item)
      BY <2>1, EnqueuedType, SMTT(30) DEF ReceiveData, TypeOK, Kinds
    <3> QED
      BY <2>1, <3>3, <3>4 DEF ReceiveData, TypeOK
  <2>2. ASSUME NEW a \in Masters, NEW to \in Keys, ReceiveControl(a, to)
        PROVE  TypeOK'
    <3>1. queued' \in Seq(Item)
      BY <2>2, EnqueuedType DEF ReceiveControl, TypeOK, Kinds
    <3> QED
      BY <2>2, <3>1 DEF ReceiveControl, TypeOK
  <2>3. ASSUME NEW a \in Joiners, incrementDown(a)
        PROVE  DOMAIN storage' \subseteq Keys /\ storage' \in [DOMAIN storage' -> Entry]
    <3>1. get(a) \in Entry /\ get(a).down \in Nat
      BY GetType DEF TypeOK
    <3>2. [get(a) EXCEPT !.down = get(a).down + 1] \in Entry
      BY <3>1 DEF Entry
    <3> QED
      BY <2>3, <3>2, PutGet DEF incrementDown, putDown, TypeOK
  <2>4. ASSUME NEW a \in Joiners, Join(a) \/ JoinSecond(a)
        PROVE  TypeOK'
    <3>2. incrementDown(a)
      BY <2>4 DEF Join, JoinSecond
    <3>3. Enqueued("JOIN", a, a) \in Seq(Item)
      BY EnqueuedType DEF TypeOK, Kinds
    <3>4. queued' = Enqueued("JOIN", a, a)
      BY <2>4 DEF Join, JoinSecond
    <3>5. second' \in SUBSET Joiners
      BY <2>4 DEF Join, JoinSecond
    <3> QED
      BY <2>3, <2>4, <3>2, <3>3, <3>4, <3>5 DEF Join, JoinSecond, TypeOK
  <2>5. CASE Begin
    <3>1. queued # <<>> /\ queued \in Seq(Item)
      BY <2>5 DEF Begin, TypeOK, Item
    <3>2. Head(queued) \in Item /\ Tail(queued) \in Seq(Item)
      BY <3>1
    <3>3. PICK a \in Receivers(Head(queued)) :
            reply' = [mode |-> Head(queued).mode,
                      dev |-> IF Head(queued).mode = "JOIN" THEN a ELSE Head(queued).dev,
                      to |-> a, fcnt |-> FcntFor(Head(queued).mode, a)]
      BY <2>5 DEF Begin
    <3>4. a \in Keys
      BY <3>2, <3>3 DEF Receivers, Item
    <3>5. FcntFor(Head(queued).mode, a) \in Nat
      BY <3>4, GetType DEF FcntFor, TypeOK
    <3> QED
      BY <2>5, <3>2, <3>3, <3>4, <3>5 DEF Begin, TypeOK, Item
  <2>6. CASE GiveUp
    <3>1. queued # <<>> /\ queued \in Seq(Item)
      BY <2>6 DEF GiveUp, TypeOK
    <3>2. Tail(queued) \in Seq(Item)
      BY <3>1
    <3> QED
      BY <2>6, <3>2 DEF GiveUp, TypeOK
  <2>7. CASE Sent
    BY <2>7 DEF Sent, TypeOK
  <2>8. CASE SendFailed
    BY <2>8 DEF SendFailed, TypeOK, NoReply, Kinds
  <2>9. CASE Store
    <3>1. get(reply.dev) \in Entry
      BY GetType DEF TypeOK
    <3>2. [get(reply.dev) EXCEPT !.down = reply.fcnt] \in Entry
      BY <3>1 DEF Entry, TypeOK
    <3>3. DOMAIN storage' \subseteq Keys /\ storage' \in [DOMAIN storage' -> Entry]
      BY <2>9, <3>2, PutGet DEF Store, putDown, TypeOK
    <3> QED
      BY <2>9, <3>3 DEF Store, TypeOK, NoReply, Kinds
  <2>10. CASE Shutdown
    BY <2>10 DEF Shutdown, TypeOK, Nothing
  <2>14. CASE save
    BY <2>14 DEF save, TypeOK, Nothing
  <2>11. CASE Crash
    BY <2>11 DEF Crash, TypeOK, Nothing, NoReply, Kinds
  <2>12. CASE Restart
    BY <2>12 DEF Restart, load, TypeOK
  <2>13. CASE UNCHANGED vars
    BY <2>13 DEF vars, TypeOK
  <2> QED
    BY <2>1, <2>2, <2>4, <2>5, <2>6, <2>7, <2>8, <2>9, <2>10, <2>11, <2>12,
       <2>13, <2>14 DEF Next
<1> QED
  BY <1>1, <1>2, PTL DEF Spec

(***************************************************************************)
(* The counters, under Quiet.                                              *)
(*                                                                         *)
(* CountersCoverSent is not inductive: it says nothing of the counter that *)
(* a reply under way has read, which Store writes back over whatever the   *)
(* listener thread stored in the meantime.  CounterInv adds that           *)
(*   - a reply goes to the device it came from,                            *)
(*   - the counter in hand is greater than the last one sent (not smaller, *)
(*     for a Join Accept, which sends none),                               *)
(*   - a device may be behind only while that counter waits to be stored,  *)
(*   - the file covers the counters while the server is down.              *)
(***************************************************************************)
FileDown(d) == IF d \in DOMAIN file THEN file[d].down ELSE 0

SameDevice ==
  /\ \A i \in 1 .. Len(queued) :
       queued[i].mode # "CONTROL" /\ queued[i].dev = queued[i].to
  /\ pc # "idle" => reply.mode # "CONTROL" /\ reply.dev = reply.to

InHand ==
  pc # "idle" /\ reply.to \in Addrs =>
    /\ last[reply.to] <= reply.fcnt
    /\ pc = "send" /\ reply.mode = "MAC" => last[reply.to] < reply.fcnt

Covered ==
  phase # "down" => \A d \in Addrs :
    last[d] <= get(d).down \/ (pc = "store" /\ reply.to = d)

Saved ==
  /\ phase # "up" => pc = "idle"
  /\ phase = "down" => \A d \in Addrs : last[d] <= FileDown(d)

CounterInv == TypeOK /\ SameDevice /\ InHand /\ Covered /\ Saved

\* CounterInv is preserved by every step when there are neither crashes nor
\* control frames.
LEMMA CounterStep ==
  ASSUME Quiet, CounterInv, TypeOK', [Next]_vars
  PROVE  CounterInv'
<1> USE CounterAssumption DEF Keys
<1>1. ASSUME NEW a \in Addrs, NEW c \in UpCnts, ReceiveData(a, c)
      PROVE  CounterInv'
  <2>1. get(a) \in Entry
    BY GetType DEF CounterInv, TypeOK
  <2>2. /\ [get(a) EXCEPT !.up = c] \in Entry
        /\ [get(a) EXCEPT !.up = c].down = get(a).down
    BY <2>1 DEF Entry
  <2>3. \A k \in Keys : get(k)' = IF k = a THEN [get(a) EXCEPT !.up = c] ELSE get(k)
    BY <1>1, <2>2, PutGet DEF ReceiveData, putUp, CounterInv, TypeOK
  <2>4. \A d \in Addrs : get(d)'.down = get(d).down
    BY <2>2, <2>3
  <2>5. SameDevice'
    <3>1. CASE UNCHANGED queued
      BY <1>1, <3>1 DEF ReceiveData, CounterInv, SameDevice
    <3>2. CASE queued' = Enqueued("MAC", a, a)
      BY <1>1, <3>2 DEF ReceiveData, CounterInv, SameDevice, Enqueued, TypeOK
    <3> QED
      BY <1>1, <3>1, <3>2 DEF ReceiveData
  <2>6. InHand' /\ Saved'
    BY <1>1 DEF ReceiveData, CounterInv, InHand, Saved, FileDown
  <2>7. Covered'
    BY <1>1, <2>4 DEF ReceiveData, CounterInv, Covered
  <2> QED
    BY <2>5, <2>6, <2>7 DEF CounterInv
<1>2. ASSUME NEW a \in Joiners, Join(a) \/ JoinSecond(a)
      PROVE  CounterInv'
  <2>1. get(a) \in Entry /\ get(a).down \in Nat
    BY GetType DEF CounterInv, TypeOK
  <2>2. /\ [get(a) EXCEPT !.down = get(a).down + 1] \in Entry
        /\ [get(a) EXCEPT !.down = get(a).down + 1].down = get(a).down + 1
    BY <2>1 DEF Entry
  <2>3. put(a, [get(a) EXCEPT !.down = get(a).down + 1])
    BY <1>2 DEF Join, JoinSecond, incrementDown, putDown
  <2>4. \A k \in Keys :
          get(k)' = IF k = a THEN [get(a) EXCEPT !.down = get(a).down + 1] ELSE get(k)
    BY <2>2, <2>3, PutGet DEF CounterInv, TypeOK
  <2>5. \A d \in Addrs : get(d).down \in Nat
    BY GetType DEF CounterInv, TypeOK
  <2>6. ASSUME NEW d \in Addrs
        PROVE  get(d).down <= get(d)'.down /\ get(d)'.down \in Nat
    <3>1. CASE d = a
      <4>1. get(a)' = [get(a) EXCEPT !.down = get(a).down + 1]
        BY <2>4, <3>1
      <4>2. get(a)'.down = get(a).down + 1
        BY <2>2, <4>1
      <4> QED
        BY <2>1, <3>1, <4>2
    <3>2. CASE d # a
      <4>1. get(d)' = get(d)
        BY <2>4, <3>2
      <4> QED
        BY <2>5, <4>1
    <3> QED
      BY <3>1, <3>2
  <2>8. queued' = Enqueued("JOIN", a, a)
    BY <1>2 DEF Join, JoinSecond
  <2>9. SameDevice'
    BY <1>2, <2>8 DEF Join, JoinSecond, CounterInv, SameDevice, Enqueued, TypeOK
  <2>10. InHand' /\ Saved'
    BY <1>2 DEF Join, JoinSecond, CounterInv, InHand, Saved, FileDown
  <2>11. Covered'
    BY <1>2, <2>5, <2>6 DEF Join, JoinSecond, CounterInv, Covered, TypeOK
  <2> QED
    BY <2>9, <2>10, <2>11 DEF CounterInv
<1>3. CASE Begin
  <2>1. queued \in Seq(Item) /\ queued # <<>>
    BY <1>3 DEF Begin, CounterInv, TypeOK
  <2>2. /\ Head(queued) \in Item
        /\ Head(queued) = queued[1]
        /\ Len(Tail(queued)) = Len(queued) - 1
        /\ \A i \in 1 .. Len(Tail(queued)) : Tail(queued)[i] = queued[i + 1]
        /\ Len(queued) \in Nat /\ 1 \in 1 .. Len(queued)
    BY <2>1
  <2>3. Head(queued).mode # "CONTROL" /\ Head(queued).dev = Head(queued).to
    BY <2>2 DEF CounterInv, SameDevice
  <2>4. PICK a \in Receivers(Head(queued)) :
          reply' = [mode |-> Head(queued).mode,
                    dev |-> IF Head(queued).mode = "JOIN" THEN a ELSE Head(queued).dev,
                    to |-> a, fcnt |-> FcntFor(Head(queued).mode, a)]
    BY <1>3 DEF Begin
  <2>5. a \in Keys /\ (Head(queued).mode = "MAC" => a = Head(queued).to)
    BY <2>2, <2>4 DEF Receivers, Item
  <2>6. get(a).down \in Nat
    BY <2>5, GetType DEF CounterInv, TypeOK
  <2>7. a \in Addrs => last[a] <= get(a).down /\ last[a] \in Nat
    BY <1>3 DEF Begin, CounterInv, Covered, TypeOK
  <2>8. Head(queued).mode \in {"MAC", "JOIN"}
    BY <2>2, <2>3 DEF Item, Kinds
  <2>9. \A i \in 1 .. Len(queued') :
          queued'[i].mode # "CONTROL" /\ queued'[i].dev = queued'[i].to
    BY <1>3, <2>2 DEF Begin, CounterInv, SameDevice
  <2>10. SameDevice'
    BY <1>3, <2>3, <2>4, <2>5, <2>8, <2>9 DEF Begin, SameDevice
  <2>11. InHand'
    BY <1>3, <2>4, <2>6, <2>7 DEF Begin, InHand, FcntFor
  <2>12. Covered' /\ Saved'
    BY <1>3 DEF Begin, CounterInv, Covered, Saved, get, FileDown
  <2> QED
    BY <2>10, <2>11, <2>12 DEF CounterInv
<1>4. CASE GiveUp
  <2>1. queued \in Seq(Item) /\ queued # <<>>
    BY <1>4 DEF GiveUp, CounterInv, TypeOK
  <2>2. /\ Len(Tail(queued)) = Len(queued) - 1
        /\ \A i \in 1 .. Len(Tail(queued)) : Tail(queued)[i] = queued[i + 1]
        /\ Len(queued) \in Nat
    BY <2>1
  <2>3. SameDevice'
    BY <1>4, <2>2 DEF GiveUp, CounterInv, SameDevice
  <2>4. InHand' /\ Covered' /\ Saved'
    BY <1>4 DEF GiveUp, CounterInv, InHand, Covered, Saved, get, FileDown
  <2> QED
    BY <2>3, <2>4 DEF CounterInv
<1>5. CASE Sent
  <2>1. SameDevice'
    BY <1>5 DEF Sent, CounterInv, SameDevice
  <2>2. InHand'
    BY <1>5 DEF Sent, CounterInv, InHand, TypeOK
  <2>3. Covered'
    BY <1>5 DEF Sent, CounterInv, Covered, get, TypeOK
  <2>4. Saved'
    BY <1>5 DEF Sent, CounterInv, Saved
  <2> QED
    BY <2>1, <2>2, <2>3, <2>4 DEF CounterInv
<1>6. CASE SendFailed
  <2>1. SameDevice' /\ InHand'
    BY <1>6 DEF SendFailed, CounterInv, SameDevice, InHand
  <2>2. Covered' /\ Saved'
    BY <1>6 DEF SendFailed, CounterInv, Covered, Saved, get, FileDown
  <2> QED
    BY <2>1, <2>2 DEF CounterInv
<1>7. CASE Store
  <2>1. reply.dev = reply.to /\ reply.dev \in Keys /\ reply.fcnt \in Nat
    BY <1>7 DEF Store, CounterInv, SameDevice, TypeOK
  <2>2. get(reply.dev) \in Entry
    BY <2>1, GetType DEF CounterInv, TypeOK
  <2>3. /\ [get(reply.dev) EXCEPT !.down = reply.fcnt] \in Entry
        /\ [get(reply.dev) EXCEPT !.down = reply.fcnt].down = reply.fcnt
    BY <2>1, <2>2 DEF Entry
  <2>4. put(reply.dev, [get(reply.dev) EXCEPT !.down = reply.fcnt])
    BY <1>7 DEF Store, putDown
  <2>5. \A k \in Keys :
          get(k)' = IF k = reply.dev THEN [get(reply.dev) EXCEPT !.down = reply.fcnt]
                    ELSE get(k)
    BY <2>1, <2>3, <2>4, PutGet DEF CounterInv, TypeOK
  <2>6. Covered'
    BY <1>7, <2>1, <2>3, <2>5 DEF Store, CounterInv, Covered, InHand
  <2>7. SameDevice' /\ InHand' /\ Saved'
    BY <1>7 DEF Store, CounterInv, SameDevice, InHand, Saved, FileDown
  <2> QED
    BY <2>6, <2>7 DEF CounterInv
<1>8. CASE Shutdown
  BY <1>8 DEF Shutdown, CounterInv, SameDevice, InHand, Covered, Saved, get
<1>9. CASE save
  <2>1. \A d \in Addrs : last[d] <= get(d).down
    BY <1>9 DEF save, CounterInv, Covered, Saved
  <2>2. Saved'
    BY <1>9, <2>1 DEF save, CounterInv, Saved, FileDown, get
  <2>3. SameDevice' /\ InHand' /\ Covered'
    BY <1>9 DEF save, CounterInv, SameDevice, InHand, Covered
  <2> QED
    BY <2>2, <2>3 DEF CounterInv
<1>10. CASE Restart
  <2>1. \A d \in Addrs : get(d)'.down = FileDown(d)
    BY <1>10 DEF Restart, load, get, FileDown
  <2>2. Covered'
    BY <1>10, <2>1 DEF Restart, CounterInv, Covered, Saved
  <2>3. SameDevice' /\ InHand' /\ Saved'
    BY <1>10 DEF Restart, CounterInv, SameDevice, InHand, Saved
  <2> QED
    BY <2>2, <2>3 DEF CounterInv
<1>11. CASE UNCHANGED vars
  BY <1>11 DEF vars, CounterInv, SameDevice, InHand, Covered, Saved, get, FileDown
<1>12. ~Crash /\ \A a, to : ~ReceiveControl(a, to)
  BY DEF Quiet, Crash, ReceiveControl
<1> QED
  BY <1>1, <1>2, <1>3, <1>4, <1>5, <1>6, <1>7, <1>8, <1>9, <1>10, <1>11, <1>12
  DEF Next

\* Without crashes and control frames, the stored counter of a device covers
\* the last frame sent to it between any two replies: no interleaving of the
\* listener thread with the read, the send and the store of a reply takes a
\* counter back, and a clean restart keeps them all.
THEOREM StoredCountersCover == Quiet => (Spec => []CountersCoverSent)
<1> SUFFICES ASSUME Quiet PROVE Spec => []CountersCoverSent
  OBVIOUS
<1>1. Init => CounterInv
  <2> USE CounterAssumption DEF Keys
  <2> SUFFICES ASSUME Init PROVE CounterInv
    OBVIOUS
  <2>1. TypeOK
    BY DEF Init, TypeOK, Nothing, NoReply, Entry, Kinds
  <2> QED
    BY <2>1 DEF Init, CounterInv, SameDevice, InHand, Covered, Saved, get, Nothing
<1>2. CounterInv /\ TypeOK' /\ [Next]_vars => CounterInv'
  BY CounterStep
<1>3. CounterInv => CountersCoverSent
  BY DEF CounterInv, Covered, CountersCoverSent
<1> QED
  BY <1>1, <1>2, <1>3, TypeCorrect, PTL DEF Spec

\* Without crashes and control frames, the frames sent to a device carry
\* strictly increasing counters: DownlinkCounters implements FrameCounters.
THEOREM CountersNeverRepeat == Quiet => (Spec => CountersIncrease)
<1> SUFFICES ASSUME Quiet PROVE Spec => Frames!Spec
  BY DEF CountersIncrease
<1>1. Init => CounterInv /\ Frames!Init
  <2> USE CounterAssumption DEF Keys
  <2> SUFFICES ASSUME Init PROVE CounterInv /\ Frames!Init
    OBVIOUS
  <2>1. TypeOK
    BY DEF Init, TypeOK, Nothing, NoReply, Entry, Kinds
  <2>2. CounterInv
    BY <2>1 DEF Init, CounterInv, SameDevice, InHand, Covered, Saved, get, Nothing
  <2> QED
    BY <2>2 DEF Init, Frames!Init
<1>2. CounterInv /\ TypeOK' /\ [Next]_vars => CounterInv'
  BY CounterStep
<1>3. CounterInv /\ [Next]_vars => [Frames!Next]_(Frames!fvars)
  <2> SUFFICES ASSUME CounterInv, [Next]_vars PROVE [Frames!Next]_(Frames!fvars)
    OBVIOUS
  <2>1. CASE Sent
    <3>1. CASE reply.mode = "JOIN" \/ reply.to \notin Addrs
      BY <2>1, <3>1 DEF Sent, Frames!fvars
    <3>2. CASE reply.mode # "JOIN" /\ reply.to \in Addrs
      <4>1. reply.mode = "MAC" /\ reply.fcnt \in Nat /\ last \in [Addrs -> Nat]
        BY <2>1, <3>2 DEF Sent, CounterInv, SameDevice, TypeOK, Kinds
      <4>2. last[reply.to] < reply.fcnt
        BY <2>1, <3>2, <4>1 DEF Sent, CounterInv, InHand
      <4>3. last' = [last EXCEPT ![reply.to] = reply.fcnt] /\ parity' = 1 - parity
        BY <2>1, <3>2 DEF Sent
      <4>4. Frames!Send(reply.to)
        BY <3>2, <4>1, <4>2, <4>3 DEF Frames!Send
      <4> QED
        BY <3>2, <4>4 DEF Frames!Next
    <3> QED
      BY <3>1, <3>2
  <2>2. CASE ~Sent
    <3>1. UNCHANGED <<last, parity>>
      BY <2>2 DEF Next, ReceiveData, ReceiveControl, Join, JoinSecond, Begin, GiveUp,
                  SendFailed, Store, Shutdown, save, Crash, Restart, vars
    <3> QED
      BY <3>1 DEF Frames!fvars
  <2> QED
    BY <2>1, <2>2
<1> QED
  BY <1>1, <1>2, <1>3, TypeCorrect, PTL DEF Spec, Frames!Spec

(***************************************************************************)
(* Join Accepts, with crashes and control frames.                          *)
(***************************************************************************)
JoinInv ==
  /\ phase # "up" => queued = <<>>
  /\ \A i \in 1 .. Len(queued) :
       queued[i].mode = "JOIN" => queued[i].to \in DOMAIN storage \ {Zero}

\* When every device that joins has an address, the history entry that
\* replyJoinRequest() insists on is there for every queued Join Accept,
\* through crashes, restarts and all interleavings: the entry is created
\* before the item is queued, and entries vanish only with the queue.
THEOREM JoinsHaveHistory == Zero \notin Joiners => (Spec => []JoinHasHistory)
<1> SUFFICES ASSUME Zero \notin Joiners PROVE Spec => []JoinHasHistory
  OBVIOUS
<1>1. Init => JoinInv
  BY DEF Init, JoinInv
<1>2. TypeOK /\ JoinInv /\ [Next]_vars => JoinInv'
  <2> SUFFICES ASSUME TypeOK, JoinInv, [Next]_vars PROVE JoinInv'
    OBVIOUS
  <2>1. ASSUME NEW a \in Addrs, NEW c \in UpCnts, ReceiveData(a, c)
        PROVE  JoinInv'
    <3>1. DOMAIN storage' = DOMAIN storage \cup {a}
      BY <2>1 DEF ReceiveData, putUp, put
    <3>2. CASE UNCHANGED queued
      BY <2>1, <3>1, <3>2 DEF ReceiveData, JoinInv
    <3>3. CASE queued' = Enqueued("MAC", a, a)
      BY <2>1, <3>1, <3>3 DEF ReceiveData, JoinInv, Enqueued, TypeOK
    <3> QED
      BY <2>1, <3>2, <3>3 DEF ReceiveData
  <2>2. ASSUME NEW a \in Masters, NEW to \in Keys, ReceiveControl(a, to)
        PROVE  JoinInv'
    BY <2>2 DEF ReceiveControl, JoinInv, Enqueued, TypeOK
  <2>3. ASSUME NEW a \in Joiners, Join(a) \/ JoinSecond(a)
        PROVE  JoinInv'
    <3>1. DOMAIN storage' = DOMAIN storage \cup {a}
      BY <2>3 DEF Join, JoinSecond, incrementDown, putDown, put
    <3>2. queued' = Enqueued("JOIN", a, a) /\ phase' = "up"
      BY <2>3 DEF Join, JoinSecond
    <3> QED
      BY <3>1, <3>2 DEF JoinInv, Enqueued, TypeOK
  <2>4. CASE Begin \/ GiveUp
    <3>1. queued \in Seq(Item) /\ queued # <<>>
      BY <2>4 DEF Begin, GiveUp, TypeOK
    <3>2. /\ Len(Tail(queued)) = Len(queued) - 1
          /\ \A i \in 1 .. Len(Tail(queued)) : Tail(queued)[i] = queued[i + 1]
          /\ Len(queued) \in Nat
      BY <3>1
    <3>3. queued' = Tail(queued) /\ phase' = "up" /\ UNCHANGED storage
      BY <2>4 DEF Begin, GiveUp
    <3> QED
      BY <3>2, <3>3 DEF JoinInv
  <2>5. CASE Sent \/ SendFailed
    BY <2>5 DEF Sent, SendFailed, JoinInv
  <2>6. CASE Store
    <3>1. DOMAIN storage' = DOMAIN storage \cup {reply.dev}
      BY <2>6 DEF Store, putDown, put
    <3> QED
      BY <2>6, <3>1 DEF Store, JoinInv
  <2>7. CASE Shutdown \/ Crash
    BY <2>7 DEF Shutdown, Crash, JoinInv
  <2>8. CASE save \/ Restart
    BY <2>8 DEF save, Restart, JoinInv
  <2>9. CASE UNCHANGED vars
    BY <2>9 DEF vars, JoinInv
  <2> QED
    BY <2>1, <2>2, <2>3, <2>4, <2>5, <2>6, <2>7, <2>8, <2>9 DEF Next
<1>3. JoinInv => JoinHasHistory
  BY DEF JoinInv, JoinHasHistory, Receivers
<1> QED
  BY <1>1, <1>2, <1>3, TypeCorrect, PTL DEF Spec

(***************************************************************************)
(* The counters and the file, with crashes and control frames.             *)
(*                                                                         *)
(* NeverBehindFile is not inductive: Store writes back the counter that    *)
(* Begin has read.  FileInv adds that this counter is not behind the file  *)
(* either, unless it is another device's, read for a control frame, in     *)
(* which case it is stored for a master.                                   *)
(***************************************************************************)
Ordinary == Keys \ ({Zero} \cup Masters)

FromMaster(r) == IF r.mode = "CONTROL" THEN r.dev \in Masters ELSE r.dev = r.to

FileInv ==
  /\ pc # "idle" => phase = "up"
  /\ \A i \in 1 .. Len(queued) : FromMaster(queued[i])
  /\ phase = "up" => \A d \in DOMAIN file \cap Ordinary : file[d].down <= get(d).down
  /\ pc # "idle" /\ reply.dev \in DOMAIN file \cap Ordinary => file[reply.dev].down <= reply.fcnt

\* A step that changes neither the file nor what a reply has in hand, and takes
\* no counter back.
LEMMA FileAhead ==
  ASSUME TypeOK, FileInv, UNCHANGED <<phase, file, pc, reply>>,
         \A i \in 1 .. Len(queued') : FromMaster(queued'[i]),
         \A d \in Keys : get(d).down <= get(d)'.down /\ get(d)'.down \in Nat
  PROVE  FileInv'
<1>1. \A d \in DOMAIN file \cap Ordinary :
        file[d].down \in Nat /\ get(d).down \in Nat /\ d \in Keys
  BY GetType DEF TypeOK, Entry, Ordinary
<1>2. ASSUME phase = "up", NEW d \in DOMAIN file \cap Ordinary PROVE file[d].down <= get(d)'.down
  <2>1. file[d].down <= get(d).down
    BY <1>2 DEF FileInv
  <2> QED
    BY <1>1, <2>1
<1> QED
  BY <1>2 DEF FileInv

LEMMA FileStep ==
  ASSUME TypeOK, FileInv, [Next]_vars
  PROVE  FileInv'
<1> USE CounterAssumption DEF Keys
<1>1. ASSUME NEW a \in Addrs, NEW c \in UpCnts, ReceiveData(a, c)
      PROVE  FileInv'
  <2>1. get(a) \in Entry
    BY GetType DEF TypeOK
  <2>2. /\ [get(a) EXCEPT !.up = c] \in Entry
        /\ [get(a) EXCEPT !.up = c].down = get(a).down
    BY <2>1 DEF Entry
  <2>3. \A k \in Keys : get(k)' = IF k = a THEN [get(a) EXCEPT !.up = c] ELSE get(k)
    BY <1>1, <2>2, PutGet DEF ReceiveData, putUp, TypeOK
  <2>4. \A d \in Keys : get(d).down <= get(d)'.down /\ get(d)'.down \in Nat
    <3>1. \A d \in Keys : get(d).down \in Nat /\ get(d)'.down = get(d).down
      BY <2>2, <2>3, GetType DEF TypeOK
    <3> QED
      BY <3>1
  <2>5. \A i \in 1 .. Len(queued') : FromMaster(queued'[i])
    <3>1. CASE UNCHANGED queued
      BY <3>1 DEF FileInv
    <3>2. CASE queued' = Enqueued("MAC", a, a)
      BY <3>2 DEF FileInv, FromMaster, Enqueued, TypeOK
    <3> QED
      BY <1>1, <3>1, <3>2 DEF ReceiveData
  <2> QED
    BY <1>1, <2>4, <2>5, FileAhead DEF ReceiveData
<1>2. ASSUME NEW a \in Masters, NEW to \in Keys, ReceiveControl(a, to)
      PROVE  FileInv'
  <2>1. \A i \in 1 .. Len(queued') : FromMaster(queued'[i])
    BY <1>2 DEF ReceiveControl, FileInv, FromMaster, Enqueued, TypeOK
  <2>2. \A d \in Keys : get(d)' = get(d) /\ get(d).down \in Nat
    BY <1>2, GetType DEF ReceiveControl, TypeOK, get
  <2>3. \A d \in Keys : get(d).down <= get(d)'.down /\ get(d)'.down \in Nat
    BY <2>2
  <2> QED
    BY <1>2, <2>1, <2>3, FileAhead DEF ReceiveControl
<1>3. ASSUME NEW a \in Joiners, Join(a) \/ JoinSecond(a)
      PROVE  FileInv'
  <2>1. get(a) \in Entry /\ get(a).down \in Nat
    BY GetType DEF TypeOK
  <2>2. /\ [get(a) EXCEPT !.down = get(a).down + 1] \in Entry
        /\ [get(a) EXCEPT !.down = get(a).down + 1].down = get(a).down + 1
    BY <2>1 DEF Entry
  <2>3. put(a, [get(a) EXCEPT !.down = get(a).down + 1])
    BY <1>3 DEF Join, JoinSecond, incrementDown, putDown
  <2>4. \A k \in Keys :
          get(k)' = IF k = a THEN [get(a) EXCEPT !.down = get(a).down + 1] ELSE get(k)
    <3> DEFINE v == [get(a) EXCEPT !.down = get(a).down + 1]
    <3>1. v \in Entry /\ put(a, v) /\ a \in Keys
      BY <2>2, <2>3
    <3> HIDE DEF v
    <3>2. \A k \in Keys : get(k)' = IF k = a THEN v ELSE get(k)
      BY <3>1, PutGet DEF TypeOK
    <3> QED
      BY <3>2 DEF v
  <2>5. ASSUME NEW d \in Keys PROVE get(d).down <= get(d)'.down /\ get(d)'.down \in Nat
    <3>1. CASE d = a
      <4>1. get(a)'.down = get(a).down + 1
        BY <2>2, <2>4
      <4> QED
        BY <2>1, <3>1, <4>1
    <3>2. CASE d # a
      <4>1. get(d)'.down = get(d).down /\ get(d).down \in Nat
        BY <2>4, <3>2, GetType DEF TypeOK
      <4> QED
        BY <4>1
    <3> QED
      BY <3>1, <3>2
  <2>6. queued' = Enqueued("JOIN", a, a)
    BY <1>3 DEF Join, JoinSecond
  <2>7. \A i \in 1 .. Len(queued') : FromMaster(queued'[i])
    BY <2>6 DEF FileInv, FromMaster, Enqueued, TypeOK
  <2> QED
    BY <1>3, <2>5, <2>7, FileAhead DEF Join, JoinSecond
<1>4. CASE Begin
  <2>1. queued \in Seq(Item) /\ queued # <<>>
    BY <1>4 DEF Begin, TypeOK
  <2>2. /\ Head(queued) \in Item
        /\ Head(queued) = queued[1]
        /\ Len(Tail(queued)) = Len(queued) - 1
        /\ \A i \in 1 .. Len(Tail(queued)) : Tail(queued)[i] = queued[i + 1]
        /\ Len(queued) \in Nat /\ 1 \in 1 .. Len(queued)
    BY <2>1
  <2>3. FromMaster(Head(queued))
    BY <2>2 DEF FileInv
  <2>4. PICK a \in Receivers(Head(queued)) :
          reply' = [mode |-> Head(queued).mode,
                    dev |-> IF Head(queued).mode = "JOIN" THEN a ELSE Head(queued).dev,
                    to |-> a, fcnt |-> FcntFor(Head(queued).mode, a)]
    BY <1>4 DEF Begin
  <2>5. a \in Keys /\ (Head(queued).mode # "JOIN" => a = Head(queued).to)
    BY <2>2, <2>4 DEF Receivers, Item
  <2>6. get(a).down \in Nat
    BY <2>5, GetType DEF TypeOK
  <2>7. get(a).down <= FcntFor(Head(queued).mode, a) /\ FcntFor(Head(queued).mode, a) \in Nat
    BY <2>6 DEF FcntFor
  <2>8. reply'.dev \in Ordinary => reply'.dev = a
    BY <2>3, <2>4, <2>5 DEF FromMaster, Ordinary
  <2>9. phase = "up" /\ UNCHANGED <<phase, file, storage>> /\ queued' = Tail(queued)
    BY <1>4 DEF Begin
  <2>10. ASSUME reply'.dev \in DOMAIN file \cap Ordinary PROVE file[reply'.dev].down <= reply'.fcnt
    <3>1. reply'.dev = a /\ reply'.fcnt = FcntFor(Head(queued).mode, a)
      BY <2>4, <2>8, <2>10
    <3>2. file[a].down <= get(a).down /\ file[a].down \in Nat
      BY <2>9, <2>10, <3>1 DEF FileInv, TypeOK, Entry
    <3> QED
      BY <2>6, <2>7, <3>1, <3>2
  <2>11. \A i \in 1 .. Len(queued') : FromMaster(queued'[i])
    BY <2>2, <2>9 DEF FileInv
  <2> QED
    BY <2>9, <2>10, <2>11 DEF FileInv, get
<1>5. CASE GiveUp
  <2>1. queued \in Seq(Item) /\ queued # <<>>
    BY <1>5 DEF GiveUp, TypeOK
  <2>2. /\ Len(Tail(queued)) = Len(queued) - 1
        /\ \A i \in 1 .. Len(Tail(queued)) : Tail(queued)[i] = queued[i + 1]
        /\ Len(queued) \in Nat
    BY <2>1
  <2>3. \A i \in 1 .. Len(queued') : FromMaster(queued'[i])
    BY <1>5, <2>2 DEF GiveUp, FileInv
  <2> QED
    BY <1>5, <2>3 DEF GiveUp, FileInv, get
<1>6. CASE Sent \/ SendFailed
  BY <1>6 DEF Sent, SendFailed, FileInv, get
<1>7. CASE Store
  <2>1. reply.dev \in Keys /\ reply.fcnt \in Nat
    BY <1>7 DEF TypeOK
  <2>2. get(reply.dev) \in Entry
    BY <2>1, GetType DEF TypeOK
  <2>3. /\ [get(reply.dev) EXCEPT !.down = reply.fcnt] \in Entry
        /\ [get(reply.dev) EXCEPT !.down = reply.fcnt].down = reply.fcnt
    BY <2>1, <2>2 DEF Entry
  <2>4. put(reply.dev, [get(reply.dev) EXCEPT !.down = reply.fcnt])
    BY <1>7 DEF Store, putDown
  <2>5. \A k \in Keys :
          get(k)' = IF k = reply.dev THEN [get(reply.dev) EXCEPT !.down = reply.fcnt]
                    ELSE get(k)
    BY <2>1, <2>3, <2>4, PutGet DEF TypeOK
  <2>6. pc = "store" /\ pc' = "idle" /\ UNCHANGED <<phase, file, queued>> /\ phase = "up"
    BY <1>7 DEF Store, FileInv
  <2>7. ASSUME NEW d \in DOMAIN file \cap Ordinary PROVE file[d].down <= get(d)'.down
    <3>1. CASE d = reply.dev
      <4>1. get(d)'.down = reply.fcnt
        BY <2>3, <2>5, <3>1 DEF Ordinary
      <4>2. file[d].down <= reply.fcnt
        BY <2>6, <2>7, <3>1 DEF FileInv
      <4> QED
        BY <4>1, <4>2
    <3>2. CASE d # reply.dev
      <4>1. get(d)'.down = get(d).down
        BY <2>5, <3>2 DEF Ordinary
      <4>2. file[d].down <= get(d).down
        BY <2>6, <2>7 DEF FileInv
      <4> QED
        BY <4>1, <4>2
    <3> QED
      BY <3>1, <3>2
  <2> QED
    BY <2>6, <2>7 DEF FileInv
<1>8. CASE Shutdown \/ Crash
  BY <1>8 DEF Shutdown, Crash, FileInv, Nothing
<1>9. CASE save
  BY <1>9 DEF save, FileInv
<1>10. CASE Restart
  <2>1. \A d \in DOMAIN file \cap Ordinary : get(d)'.down = file[d].down /\ file[d].down \in Nat
    BY <1>10 DEF Restart, load, get, Ordinary, TypeOK, Entry
  <2>2. \A d \in DOMAIN file \cap Ordinary : file[d].down <= get(d)'.down
    BY <2>1
  <2> QED
    BY <1>10, <2>2 DEF Restart, FileInv
<1>11. CASE UNCHANGED vars
  BY <1>11 DEF vars, FileInv, get
<1> QED
  BY <1>1, <1>2, <1>3, <1>4, <1>5, <1>6, <1>7, <1>8, <1>9, <1>10, <1>11 DEF Next

\* Through crashes, restarts and control frames, the downlink counter of a
\* device that is not a master never falls behind the one that load() read from
\* the file: what Store writes over the counter was read after the restart.
THEOREM CountersNeverBehindFile == Spec => []NeverBehindFile
<1>1. Init => FileInv
  BY DEF Init, FileInv, Nothing
<1>2. TypeOK /\ FileInv /\ [Next]_vars => FileInv'
  BY FileStep
<1>3. TypeOK /\ FileInv => NeverBehindFile
  BY DEF TypeOK, FileInv, NeverBehindFile, Ordinary
<1> QED
  BY <1>1, <1>2, <1>3, TypeCorrect, PTL DEF Spec
=============================================================================
