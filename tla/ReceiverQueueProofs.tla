------------------------- MODULE ReceiverQueueProofs -------------------------
(***************************************************************************)
(* Proofs about ReceiverQueue, for any number of databases, devices and    *)
(* payloads: the type invariant, and that the map shared by the databases  *)
(* implements a queue for each of them (PayloadDelivery) as long as the    *)
(* clock is not set back.                                                  *)
(*                                                                         *)
(* The refinement rests on HeadStays: between the peek of an entry and its *)
(* pop the entry remains the first one of the map, because the entries     *)
(* pushed in between have greater keys (InOrder).                          *)
(***************************************************************************)
EXTENDS ReceiverQueue, FiniteSetTheorems, TLAPS

Working == pc \in {"peek", "insert", "pop"}

Finite == IsFiniteSet(storage) /\ IsFiniteSet(file)

Rounds == Working => left >= 1

Base == TypeOK /\ Finite /\ Rounds

InOrder ==
  /\ \A e \in storage : e.key = e.id /\ e.id <= pushed
  /\ \A x, y \in storage : x.id = y.id => x = y

HeadStays ==
  pc \in {"insert", "pop"} =>
    \E e \in storage : entry = {e} /\ IsFirst(e) /\ DbSeq[j] \in e.dbids

Quiescent == pc = "down" => storage = {}

RInv == Base /\ InOrder /\ HeadStays /\ Quiescent

(***************************************************************************)
(* Facts about the operators.                                              *)
(***************************************************************************)

\* popDbId() on an entry of the map leaves a finite map of entries.
LEMMA PoppedType ==
  ASSUME NEW e \in storage, NEW d, storage \subseteq Entries, IsFiniteSet(storage)
  PROVE  Popped(e, d) \subseteq Entries /\ IsFiniteSet(Popped(e, d))
<1> DEFINE rest == [e EXCEPT !.dbids = @ \ {d}]
<1>1. e \in Entries
  OBVIOUS
<1>2. rest \in Entries
  BY <1>1 DEF Entries
<1>3. IsFiniteSet(storage \ {e}) /\ storage \ {e} \subseteq Entries
  BY FS_RemoveElement
<1> HIDE DEF rest
<1>4. IsFiniteSet((storage \ {e}) \cup {rest})
  BY <1>3, FS_AddElement
<1>5. Popped(e, d) \in {storage \ {e}, (storage \ {e}) \cup {rest}}
  BY DEF Popped, rest
<1> QED
  BY <1>2, <1>3, <1>4, <1>5

\* NextTurn stays within the databases and within the rounds of the step.
LEMMA NextTurnType ==
  ASSUME Base, NextTurn, Working
  PROVE  /\ entry' = {}
         /\ j' \in 1 .. Len(DbSeq)
         /\ left' \in Nat
         /\ pc' \in {"peek", "select"}
         /\ pc' = "peek" => left' >= 1
         /\ prepared' \in BOOLEAN
<1>1. Len(DbSeq) \in Nat /\ Len(DbSeq) > 0
  BY ReceiverAssumption
<1>2. j \in 1 .. Len(DbSeq) /\ left \in Nat /\ left >= 1
  BY DEF Base, TypeOK, Rounds
<1>3. prepared \in BOOLEAN
  BY DEF Base, TypeOK
<1>4. prepared' = prepared \/ prepared' = FALSE
  BY DEF NextTurn
<1>5. prepared' \in BOOLEAN
  BY <1>3, <1>4, Zenon
<1> QED
  BY <1>1, <1>2, <1>5 DEF NextTurn

\* clearFcnts() and the recording of a counter give a map of counters.
LEMMA FcntsType ==
  ASSUME NEW dev \in Devs, NEW c \in FCnts, DOMAIN fcnts \subseteq Devs,
         fcnts \in [DOMAIN fcnts -> FCnts],
         fcnts' \in Cleared(Recorded(dev, c)) \/ fcnts' = Recorded(dev, c)
  PROVE  DOMAIN fcnts' \subseteq Devs /\ fcnts' \in [DOMAIN fcnts' -> FCnts]
<1> DEFINE r == Recorded(dev, c)
<1>1. DOMAIN r \subseteq Devs /\ r \in [DOMAIN r -> FCnts]
  BY DEF Recorded
<1>2. CASE fcnts' = r
  BY <1>1, <1>2
<1>3. CASE fcnts' \in Cleared(r)
  <2> HIDE DEF r
  <2>1. PICK D \in SUBSET DOMAIN r : fcnts' = [x \in D |-> r[x]]
    BY <1>3 DEF Cleared
  <2> QED
    BY <1>1, <2>1
<1> QED
  BY <1>2, <1>3

\* load() restores nothing: the level it looks for is odd, the level at the
\* end of an entry is even.
LEMMA LoadsNothing == ASSUME load, IsFiniteSet(file) PROVE storage' = {}
<1>1. ASSUME NEW e \in file PROVE LevelAtEnd(e) # 1
  <2> DEFINE before == {x \in file : x.key <= e.key}
  <2>1. IsFiniteSet(before)
    BY FS_Subset
  <2>2. Cardinality(before) \in Nat
    BY <2>1, FS_CardinalityType
  <2>3. LevelAtEnd(e) = 2 * Cardinality(before)
    BY DEF LevelAtEnd
  <2> HIDE DEF before
  <2> QED
    BY <2>2, <2>3
<1> QED
  BY <1>1 DEF load

(***************************************************************************)
(* The type invariant.                                                     *)
(***************************************************************************)
\* The type invariant with finiteness and the count of rounds holds initially.
LEMMA BaseInit == ASSUME Init PROVE Base
<1>1. Len(DbSeq) \in Nat /\ Len(DbSeq) > 0
  BY ReceiverAssumption
<1>2. TypeOK
  <2>1. prepared \in BOOLEAN
    BY Zenon DEF Init
  <2> QED
    BY <1>1, <2>1 DEF Init, TypeOK
<1>3. Finite
  BY FS_EmptySet DEF Init, Finite
<1>4. Rounds
  BY DEF Init, Rounds, Working
<1> QED
  BY <1>2, <1>3, <1>4 DEF Base

\* ... and is preserved by every step.
LEMMA BaseStep == ASSUME Base, [Next]_vars PROVE Base'
<1> USE ReceiverAssumption
<1>1. ASSUME NEW dev \in Devs, NEW c \in FCnts, Push(dev, c)
      PROVE  Base'
  <2>1. DOMAIN fcnts' \subseteq Devs /\ fcnts' \in [DOMAIN fcnts' -> FCnts]
    <3>1. fcnts' \in Cleared(Recorded(dev, c)) \/ fcnts' = Recorded(dev, c)
      BY <1>1 DEF Push
    <3> QED
      BY <3>1, FcntsType DEF Base, TypeOK
  <2>2. PICK k \in {pushed + 1} \cup (IF ClockSteps THEN {-(pushed + 1)} ELSE {}) :
          Enters(dev, c, k)
    BY <1>1 DEF Push
  <2>3. k \in Int /\ pushed + 1 \in Nat
    BY <2>2 DEF Base, TypeOK
  <2> DEFINE new == [key |-> k, id |-> pushed + 1, dev |-> dev, cnt |-> c,
                     dbids |-> Dbs]
  <2>4. new \in Entries
    BY <2>3 DEF Entries
  <2>5. storage' = storage \cup {new}
    BY <2>2 DEF Enters
  <2> HIDE DEF new
  <2>6. storage' \subseteq Entries /\ IsFiniteSet(storage')
    BY <2>4, <2>5, FS_AddElement DEF Base, TypeOK, Finite
  <2>7. TypeOK'
    BY <1>1, <2>1, <2>6 DEF Push, procVars, Base, TypeOK
  <2>8. Finite' /\ Rounds'
    BY <1>1, <2>6 DEF Push, procVars, Base, Finite, Rounds, Working
  <2> QED
    BY <2>7, <2>8 DEF Base
<1>2. CASE processQueue
  <2>1. Cardinality(storage) \in Nat /\ Cardinality(storage) # 0
    BY <1>2, FS_CardinalityType, FS_EmptySet DEF processQueue, Base, Finite
  <2>2. left' \in Nat /\ left' >= 1
    BY <1>2, <2>1 DEF processQueue
  <2> QED
    BY <1>2, <2>2 DEF processQueue, Base, TypeOK, Finite, Rounds, Working
<1>3. CASE Peek
  <2>1. entry' \subseteq Entries
    BY <1>3 DEF Peek, Base, TypeOK
  <2> QED
    BY <1>3, <2>1 DEF Peek, Base, TypeOK, Finite, Rounds, Working
<1>4. CASE PeekNothing \/ OpenFailed
  <2>1. Working /\ NextTurn
    BY <1>4 DEF PeekNothing, OpenFailed, Working
  <2> QED
    BY <1>4, <2>1, NextTurnType
    DEF PeekNothing, OpenFailed, Base, TypeOK, Finite, Rounds, Working
<1>5. CASE Insert
  <2>1. DbSeq[j] \in Dbs
    BY DEF Base, TypeOK, Dbs
  <2>2. PICK e \in entry : rows' = [rows EXCEPT ![DbSeq[j]] = Append(@, e.id)]
    BY <1>5 DEF Insert
  <2>3. e.id \in Nat /\ rows[DbSeq[j]] \in Seq(Nat)
    BY <2>1, <2>2 DEF Base, TypeOK, Entries
  <2>4. Append(rows[DbSeq[j]], e.id) \in Seq(Nat)
    BY <2>3
  <2>5. rows' \in [Dbs -> Seq(Nat)]
    BY <2>1, <2>2, <2>4 DEF Base, TypeOK
  <2>6. prepared' \in BOOLEAN
    BY <1>5, Zenon DEF Insert
  <2> QED
    BY <1>5, <2>5, <2>6 DEF Insert, Base, TypeOK, Finite, Rounds, Working
<1>6. CASE InsertFailed
  <2>1. PICK e \in entry : plugins' \in {{}, Held(e)}
    BY <1>6 DEF InsertFailed
  <2>2. e.id \in Nat /\ plugins \subseteq Nat
    BY <2>1 DEF Base, TypeOK, Entries
  <2>3. plugins' \subseteq Nat
    BY <2>1, <2>2 DEF Held
  <2>4. prepared' \in BOOLEAN
    BY <1>6, Zenon DEF InsertFailed
  <2> QED
    BY <1>6, <2>3, <2>4 DEF InsertFailed, Base, TypeOK, Finite, Rounds, Working
<1>7. CASE Pop
  <2>1. Working /\ NextTurn
    BY <1>7 DEF Pop, Working
  <2>2. storage' \subseteq Entries /\ IsFiniteSet(storage')
    BY <1>7, PoppedType DEF Pop, Base, TypeOK, Finite
  <2> QED
    BY <1>7, <2>1, <2>2, NextTurnType
    DEF Pop, Base, TypeOK, Finite, Rounds, Working
<1>8. CASE Stop
  BY <1>8, FS_EmptySet DEF Stop, Base, TypeOK, Finite, Rounds, Working
<1>9. CASE Start
  <2>1. storage' = {}
    BY <1>9, LoadsNothing DEF Start, Base, Finite
  <2> QED
    BY <1>9, <2>1, FS_EmptySet DEF Start, Base, TypeOK, Finite, Rounds, Working
<1>10. CASE UNCHANGED vars
  BY <1>10 DEF vars, procVars, Base, TypeOK, Finite, Rounds, Working
<1> QED
  BY <1>1, <1>2, <1>3, <1>4, <1>5, <1>6, <1>7, <1>8, <1>9, <1>10 DEF Next

\* TypeOK holds in every state: in particular the index of the database stays
\* within the configured ones and the number of rounds never underflows.
THEOREM TypeCorrect == Spec => []TypeOK
<1>1. Init => Base
  BY BaseInit
<1>2. Base /\ [Next]_vars => Base'
  BY BaseStep
<1>3. Base => TypeOK
  BY DEF Base
<1> QED
  BY <1>1, <1>2, <1>3, PTL DEF Spec

(***************************************************************************)
(* The queue of each database.                                             *)
(***************************************************************************)

\* What belongs to Pending[d].
LEMMA PendingMember ==
  ASSUME NEW d \in Dbs, NEW n
  PROVE  n \in Pending[d] <=> \E e \in storage : Open(e, d) /\ e.id = n
BY DEF Pending

\* When the keys are in order there is one first entry.
LEMMA FirstUnique ==
  ASSUME InOrder, storage \subseteq Entries, NEW x, NEW y, IsFirst(x), IsFirst(y)
  PROVE  x = y
BY DEF InOrder, IsFirst, Entries

\* RInv is preserved by every step as long as the clock is not set back.
LEMMA RInvStep ==
  ASSUME ~ClockSteps, RInv, Base', [Next]_vars
  PROVE  RInv'
<1> USE ReceiverAssumption
<1>0. TypeOK /\ storage \subseteq Entries /\ pushed \in Nat
  BY DEF RInv, Base, TypeOK
<1>1. ASSUME NEW dev \in Devs, NEW c \in FCnts, Push(dev, c)
      PROVE  RInv'
  <2> DEFINE new == [key |-> pushed + 1, id |-> pushed + 1, dev |-> dev, cnt |-> c,
                     dbids |-> Dbs]
  <2>1. storage' = storage \cup {new} /\ pushed' = pushed + 1
    BY <1>1 DEF Push, Enters
  <2>2. new.key = pushed + 1 /\ new.id = pushed + 1
    OBVIOUS
  <2> HIDE DEF new
  <2>3. \A e \in storage : e.key = e.id /\ e.id <= pushed /\ e.id \in Nat
    BY <1>0 DEF RInv, InOrder, Entries
  <2>4. InOrder'
    BY <1>0, <2>1, <2>2, <2>3 DEF RInv, InOrder
  <2>5. HeadStays'
    <3> SUFFICES ASSUME pc \in {"insert", "pop"}
                 PROVE  \E e \in storage' : entry' = {e} /\ IsFirst(e)' /\ DbSeq[j'] \in e.dbids
      BY <1>1 DEF Push, procVars, HeadStays
    <3>1. PICK e \in storage : entry = {e} /\ IsFirst(e) /\ DbSeq[j] \in e.dbids
      BY DEF RInv, HeadStays
    <3>2. e.key <= new.key
      BY <1>0, <2>2, <2>3, <3>1
    <3>3. IsFirst(e)'
      BY <2>1, <3>1, <3>2 DEF IsFirst
    <3> QED
      BY <1>1, <2>1, <3>1, <3>3 DEF Push, procVars
  <2>6. Quiescent'
    BY <1>1 DEF Push, procVars, Quiescent
  <2> QED
    BY <2>4, <2>5, <2>6 DEF RInv
<1>2. CASE processQueue
  BY <1>2 DEF processQueue, RInv, InOrder, HeadStays, Quiescent
<1>3. CASE Peek
  <2>1. PICK e \in storage : IsFirst(e) /\ DbSeq[j] \in e.dbids /\ entry' = {e}
    BY <1>3 DEF Peek
  <2>2. HeadStays'
    BY <1>3, <2>1 DEF Peek, HeadStays, IsFirst
  <2>3. InOrder' /\ Quiescent'
    BY <1>3 DEF Peek, RInv, InOrder, Quiescent
  <2> QED
    BY <2>2, <2>3 DEF RInv
<1>4. CASE PeekNothing \/ OpenFailed
  <2>1. pc' \in {"peek", "select"}
    BY <1>4, NextTurnType DEF PeekNothing, OpenFailed, Working, RInv
  <2> QED
    BY <1>4, <2>1 DEF PeekNothing, OpenFailed, RInv, InOrder, HeadStays, Quiescent
<1>5. CASE Insert \/ InsertFailed
  <2>1. HeadStays'
    BY <1>5 DEF Insert, InsertFailed, RInv, HeadStays, IsFirst
  <2> QED
    BY <1>5, <2>1 DEF Insert, InsertFailed, RInv, InOrder, Quiescent
<1>6. CASE Pop
  <2>1. pc' \in {"peek", "select"}
    BY <1>6, NextTurnType DEF Pop, Working, RInv
  <2>2. PICK e \in storage : storage' = Popped(e, DbSeq[j])
    BY <1>6 DEF Pop
  <2> DEFINE rest == [e EXCEPT !.dbids = @ \ {DbSeq[j]}]
  <2>3. rest.id = e.id /\ rest.key = e.key
    BY <1>0 DEF Entries
  <2>4. storage' \subseteq (storage \ {e}) \cup {rest}
    BY <2>2 DEF Popped
  <2> HIDE DEF rest
  <2>5. InOrder'
    BY <1>6, <2>3, <2>4 DEF Pop, RInv, InOrder
  <2> QED
    BY <1>6, <2>1, <2>5 DEF RInv, HeadStays, Quiescent
<1>7. CASE Stop
  BY <1>7 DEF Stop, RInv, InOrder, HeadStays, Quiescent
<1>8. CASE Start
  <2>1. storage' = {}
    BY <1>8, LoadsNothing DEF Start, RInv, Base, Finite
  <2> QED
    BY <1>8, <2>1 DEF Start, RInv, InOrder, HeadStays, Quiescent
<1>9. CASE UNCHANGED vars
  BY <1>9 DEF vars, procVars, RInv, InOrder, HeadStays, Quiescent, IsFirst
<1> QED
  BY <1>1, <1>2, <1>3, <1>4, <1>5, <1>6, <1>7, <1>8, <1>9 DEF Next

\* Handing the first entry to the database of this turn is the Deliver step of
\* that database: the entry has the least number of all it has yet to get.
LEMMA HandedOver ==
  ASSUME RInv, pc # "pop", pc' = "pop", UNCHANGED <<storage, j, pushed>>,
         NEW e \in storage, IsFirst(e), DbSeq[j] \in e.dbids, entry' = {e},
         rows' \in {rows, [rows EXCEPT ![DbSeq[j]] = Append(@, e.id)]}
  PROVE  Delivery!Deliver(DbSeq[j])
<1> USE ReceiverAssumption
<1>1. j \in 1 .. Len(DbSeq) /\ DbSeq[j] \in Dbs /\ storage \subseteq Entries
  BY DEF RInv, Base, TypeOK, Dbs
<1>2. e.id \in Pending[DbSeq[j]]
  BY <1>1, PendingMember DEF Open
<1>3. \A m \in Pending[DbSeq[j]] : e.id <= m
  BY <1>1, PendingMember DEF IsFirst, RInv, InOrder
<1>4. Pending' = [Pending EXCEPT ![DbSeq[j]] = @ \ {e.id}]
  <2>1. ASSUME NEW d \in Dbs, d # DbSeq[j]
        PROVE  Pending'[d] = Pending[d]
    <3>1. \A x \in storage : Open(x, d)' <=> Open(x, d)
      BY <2>1 DEF Open
    <3> QED
      BY <3>1 DEF Pending
  <2>2. Pending'[DbSeq[j]] = Pending[DbSeq[j]] \ {e.id}
    <3>1. \A x \in storage :
            Open(x, DbSeq[j])' <=> Open(x, DbSeq[j]) /\ x # e
      BY DEF Open
    <3>2. \A x \in storage : x # e <=> x.id # e.id
      BY DEF RInv, InOrder
    <3> QED
      BY <1>1, <3>1, <3>2 DEF Pending
  <2> QED
    BY <1>1, <2>1, <2>2 DEF Pending
<1> QED
  BY <1>2, <1>3, <1>4 DEF Delivery!Deliver

\* Every step of the receiver queue is a step of PayloadDelivery or changes
\* nothing that PayloadDelivery speaks of.
LEMMA RefinesStep ==
  ASSUME ~ClockSteps, RInv, [Next]_vars
  PROVE  [Delivery!Next]_(Delivery!dvars)
<1> USE ReceiverAssumption
<1>0. /\ storage \subseteq Entries
      /\ pushed \in Nat
      /\ DbSeq[j] \in Dbs
  BY DEF RInv, Base, TypeOK, Dbs
<1>1. ASSUME NEW dev \in Devs, NEW c \in FCnts, Push(dev, c)
      PROVE  Delivery!Accept
  <2>1. PICK new : /\ new = [key |-> pushed + 1, id |-> pushed + 1, dev |-> dev,
                             cnt |-> c, dbids |-> Dbs]
                   /\ storage' = storage \cup {new}
                   /\ pushed' = pushed + 1
    BY <1>1 DEF Push, Enters
  <2>2. new.id = pushed + 1 /\ new.dbids = Dbs
    BY <2>1
  <2>3. new \notin entry \/ pc # "pop"
    <3> SUFFICES ASSUME pc = "pop" PROVE new \notin entry
      OBVIOUS
    <3>1. PICK e \in storage : entry = {e}
      BY DEF RInv, HeadStays
    <3>2. e.id <= pushed
      BY DEF RInv, InOrder
    <3> QED
      BY <1>0, <2>2, <3>1, <3>2
  <2>4. ASSUME NEW d \in Dbs
        PROVE  Pending'[d] = Pending[d] \cup {pushed + 1}
    <3>1. \A x \in storage : Open(x, d)' <=> Open(x, d)
      BY <1>1 DEF Push, procVars, Open
    <3>2. Open(new, d)'
      BY <1>1, <2>2, <2>3 DEF Push, procVars, Open
    <3>3. storage' = storage \cup {new}
      BY <2>1
    <3> QED
      BY <2>2, <3>1, <3>2, <3>3 DEF Pending
  <2>5. Pending' = [d \in Dbs |-> Pending[d] \cup {pushed + 1}]
    BY <2>4 DEF Pending
  <2>6. pushed' = pushed + 1
    BY <2>1
  <2> QED
    BY <1>1, <2>5, <2>6 DEF Push, Delivery!Accept
<1>2. CASE processQueue \/ PeekNothing \/ OpenFailed
  <2>1. pc # "pop" /\ pc' # "pop" /\ UNCHANGED <<storage, rows, pushed>>
    BY <1>2, NextTurnType DEF processQueue, PeekNothing, OpenFailed, Working, RInv
  <2>2. UNCHANGED Pending
    BY <2>1 DEF Pending, Open
  <2> QED
    BY <2>1, <2>2 DEF Delivery!dvars
<1>3. CASE Peek
  <2>1. PICK e \in storage : IsFirst(e) /\ DbSeq[j] \in e.dbids /\ entry' = {e}
    BY <1>3 DEF Peek
  <2>2. CASE DbSeq[j] \in Active
    <3>1. pc # "pop" /\ pc' # "pop" /\ UNCHANGED <<storage, rows, pushed>>
      BY <1>3, <2>2 DEF Peek
    <3>2. UNCHANGED Pending
      BY <3>1 DEF Pending, Open
    <3> QED
      BY <3>1, <3>2 DEF Delivery!dvars
  <2>3. CASE DbSeq[j] \notin Active
    <3>1. Delivery!Deliver(DbSeq[j])
      BY <1>3, <2>1, <2>3, HandedOver DEF Peek
    <3> QED
      BY <1>0, <3>1 DEF Delivery!Next
  <2> QED
    BY <2>2, <2>3
<1>4. CASE Insert \/ InsertFailed
  <2>1. PICK e \in storage : entry = {e} /\ IsFirst(e) /\ DbSeq[j] \in e.dbids
    BY <1>4 DEF Insert, InsertFailed, RInv, HeadStays
  <2>2. rows' \in {rows, [rows EXCEPT ![DbSeq[j]] = Append(@, e.id)]}
    BY <1>4, <2>1 DEF Insert, InsertFailed
  <2>3. Delivery!Deliver(DbSeq[j])
    BY <1>4, <2>1, <2>2, HandedOver DEF Insert, InsertFailed
  <2> QED
    BY <1>0, <2>3 DEF Delivery!Next
<1>5. CASE Pop
  <2>1. PICK e \in storage : entry = {e} /\ IsFirst(e) /\ DbSeq[j] \in e.dbids
    BY <1>5 DEF Pop, RInv, HeadStays
  <2>2. storage' = Popped(e, DbSeq[j])
    <3>1. PICK x \in storage : IsFirst(x) /\ storage' = Popped(x, DbSeq[j])
      BY <1>5 DEF Pop
    <3>2. x = e
      BY <1>0, <2>1, <3>1, FirstUnique DEF RInv
    <3> QED
      BY <3>1, <3>2
  <2> DEFINE rest == [e EXCEPT !.dbids = @ \ {DbSeq[j]}]
  <2>3. rest.id = e.id /\ rest.dbids = e.dbids \ {DbSeq[j]}
    BY <1>0 DEF Entries
  <2>4. storage' = IF rest.dbids = {} THEN storage \ {e} ELSE (storage \ {e}) \cup {rest}
    BY <2>2 DEF Popped
  <2>5. pc = "pop" /\ pc' # "pop" /\ UNCHANGED <<rows, pushed>>
    BY <1>5, NextTurnType DEF Pop, Working, RInv
  <2> HIDE DEF rest
  <2>6. ASSUME NEW d \in Dbs
        PROVE  Pending'[d] = Pending[d]
    <3>1. \A x : Open(x, d)' <=> d \in x.dbids
      BY <2>5 DEF Open
    <3>2. \A x : Open(x, d) <=> d \in x.dbids /\ ~ (DbSeq[j] = d /\ x = e)
      BY <2>1, <2>5 DEF Open
    <3>3. ASSUME NEW n \in Pending'[d] PROVE n \in Pending[d]
      <4>1. PICK x \in storage' : d \in x.dbids /\ x.id = n
        BY <3>1, <3>3 DEF Pending
      <4>2. CASE x = rest
        <5>1. Open(e, d) /\ e.id = n
          BY <2>3, <3>2, <4>1, <4>2
        <5> QED
          BY <5>1, PendingMember
      <4>3. CASE x # rest
        <5>1. x \in storage /\ x # e
          BY <2>4, <4>1, <4>3
        <5>2. Open(x, d)
          BY <3>2, <4>1, <5>1
        <5> QED
          BY <4>1, <5>1, <5>2, PendingMember
      <4> QED
        BY <4>2, <4>3
    <3>4. ASSUME NEW n \in Pending[d] PROVE n \in Pending'[d]
      <4>1. PICK x \in storage : Open(x, d) /\ x.id = n
        BY <3>4, PendingMember
      <4>2. \E y \in storage' : d \in y.dbids /\ y.id = n
        <5>1. CASE x = e
          BY <2>3, <2>4, <3>2, <4>1, <5>1
        <5>2. CASE x # e
          BY <2>4, <3>2, <4>1, <5>2
        <5> QED
          BY <5>1, <5>2
      <4> QED
        BY <3>1, <4>2 DEF Pending
    <3> QED
      BY <3>3, <3>4
  <2>7. UNCHANGED Pending
    BY <2>6 DEF Pending
  <2> QED
    BY <2>5, <2>7 DEF Delivery!dvars
<1>6. CASE Stop
  <2>1. Pending' = [d \in Dbs |-> {}]
    BY <1>6 DEF Stop, Pending
  <2> QED
    BY <1>6, <2>1 DEF Stop, Delivery!Lose, Delivery!Next
<1>7. CASE Start
  <2>1. storage' = {} /\ storage = {}
    BY <1>7, LoadsNothing DEF Start, RInv, Base, Finite, Quiescent
  <2>2. UNCHANGED Pending
    BY <2>1 DEF Pending
  <2> QED
    BY <1>7, <2>2 DEF Start, Delivery!dvars
<1>8. CASE UNCHANGED vars
  <2>1. UNCHANGED Pending
    BY <1>8 DEF vars, procVars, Pending, Open
  <2> QED
    BY <1>8, <2>1 DEF vars, procVars, Delivery!dvars
<1> QED
  BY <1>1, <1>2, <1>3, <1>4, <1>5, <1>6, <1>7, <1>8 DEF Next, Delivery!Next

\* As long as the clock is not set back, the one map implements a first-in
\* first-out queue for every database: each payload is handed once to each
\* database and in order, and nothing but a restart loses one before.
THEOREM EachDatabaseHasAQueue == ~ClockSteps => (Spec => DeliversToEach)
<1> SUFFICES ASSUME ~ClockSteps PROVE Spec => Delivery!Spec
  BY DEF DeliversToEach
<1>1. Init => RInv /\ Delivery!Init
  <2> SUFFICES ASSUME Init PROVE RInv /\ Delivery!Init
    OBVIOUS
  <2>1. RInv
    BY BaseInit DEF Init, RInv, InOrder, HeadStays, Quiescent
  <2>2. Pending = [d \in Dbs |-> {}]
    BY DEF Init, Pending
  <2> QED
    BY <2>1, <2>2 DEF Init, Delivery!Init
<1>2. RInv /\ [Next]_vars => RInv'
  <2>1. RInv /\ [Next]_vars => Base'
    BY BaseStep DEF RInv
  <2> QED
    BY <2>1, RInvStep
<1>3. RInv /\ [Next]_vars => [Delivery!Next]_(Delivery!dvars)
  BY RefinesStep
<1> QED
  BY <1>1, <1>2, <1>3, PTL DEF Spec, Delivery!Spec
=============================================================================
