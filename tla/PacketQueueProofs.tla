------------------------- MODULE PacketQueueProofs -------------------------
(***************************************************************************)
(* The invariants of PacketQueue for any number of devices, ports,         *)
(* counters, gateways, any delays and any bounds.                          *)
(***************************************************************************)
EXTENDS PacketQueue, OrderLemmas

(***************************************************************************)
(* The items of one vector.                                                *)
(***************************************************************************)

\* A vector as VectorOK describes it.
Vector(b) ==
  /\ b \subseteq Item
  /\ IsFiniteSet(b)
  /\ \A x, y \in b : x.at = y.at => x = y

\* packets[0] exists and is stored before every other item of the vector.
LEMMA FirstProperties ==
  ASSUME NEW b, Vector(b), b # {}
  PROVE  First(b) \in b /\ \A y \in b : First(b).at <= y.at
<1> DEFINE R == {p \in b \X b : p[1].at < p[2].at}
<1>1. \A x, y \in b : <<x, y>> \in R <=> x.at < y.at
  OBVIOUS
<1>2. \A x \in b : x.at \in Nat
  BY DEF Vector, Item
<1>3. \E x \in b : \A y \in b : <<y, x>> \notin R
  <2>1. \A x \in b : <<x, x>> \notin R
    BY <1>1, <1>2
  <2>2. \A x, y, z \in b : <<x, y>> \in R /\ <<y, z>> \in R => <<x, z>> \in R
    <3> HIDE DEF R
    <3> QED BY <1>1, <1>2
  <2> HIDE DEF R
  <2>3. QED
    BY <2>1, <2>2, FiniteMinimal DEF Vector
<1>4. \E x \in b : \A y \in b : x.at <= y.at
  <2> HIDE DEF R
  <2>1. PICK x \in b : \A y \in b : <<y, x>> \notin R
    BY <1>3
  <2>2. ASSUME NEW y \in b
        PROVE  x.at <= y.at
    <3>1. ~ (y.at < x.at)
      BY <1>1, <2>1
    <3>2. QED
      BY <1>2, <3>1
  <2>3. QED
    BY <2>2
<1>5. QED
  BY <1>4 DEF First

\* The signal search selects an item of the group of the first one.
LEMMA StrongestProperties ==
  ASSUME NEW b, Vector(b), b # {}, SameCnt(b) # {First(b)}
  PROVE  Strongest(b) \in b /\ Strongest(b) # First(b)
<1> DEFINE others == SameCnt(b) \ {First(b)}
           better(x, y) == y.snr < x.snr \/ (y.snr = x.snr /\ x.at < y.at)
           R == {p \in others \X others : better(p[1], p[2])}
<1>1. First(b) \in SameCnt(b)
  BY FirstProperties DEF SameCnt
<1>2. others # {} /\ others \subseteq b
  BY <1>1 DEF SameCnt
<1>3. IsFiniteSet(others)
  BY <1>2, FS_Subset DEF Vector
<1>4. \A x \in others : x.at \in Nat /\ x.snr \in Int
  BY <1>2, QueueAssumption DEF Vector, Item
<1>5. \A x, y \in others : <<x, y>> \in R <=> better(x, y)
  OBVIOUS
<1>6. \E x \in others : \A y \in others : <<y, x>> \notin R
  <2>1. \A x \in others : <<x, x>> \notin R
    <3> HIDE DEF R, others
    <3> QED BY <1>4, <1>5
  <2>2. \A x, y, z \in others :
          <<x, y>> \in R /\ <<y, z>> \in R => <<x, z>> \in R
    <3> HIDE DEF R, others
    <3> QED BY <1>4, <1>5
  <2> HIDE DEF R, others
  <2>3. QED
    BY <1>2, <1>3, <2>1, <2>2, FiniteMinimal
<1>7. \E x \in others : \A y \in others :
        \/ y.snr < x.snr
        \/ y.snr = x.snr /\ x.at <= y.at
  <2>1. PICK x \in others : \A y \in others : <<y, x>> \notin R
    BY <1>6
  <2>2. ASSUME NEW y \in others
        PROVE  \/ y.snr < x.snr
               \/ y.snr = x.snr /\ x.at <= y.at
    <3>1. ~ better(y, x)
      BY <1>5, <2>1
    <3> HIDE DEF R, others
    <3>2. QED
      BY <1>4, <3>1
  <2> HIDE DEF R, others
  <2>3. QED
    BY <2>2
<1>8. Strongest(b) \in others
  <2>1. Strongest(b) = CHOOSE x \in others :
          \A y \in others : \/ y.snr < x.snr
                            \/ y.snr = x.snr /\ x.at <= y.at
    BY DEF Strongest
  <2> HIDE DEF others
  <2>2. QED
    BY <1>7, <2>1
<1>9. QED
  BY <1>2, <1>8

\* getFirstExpired() returns an item of the vector it looks at, the index
\* that is one too low included.
LEMMA ReturnedInVector ==
  ASSUME NEW b, Vector(b), b # {}
  PROVE  Returned(b) \in b
<1>1. CASE SameCnt(b) = {First(b)}
  BY <1>1, FirstProperties DEF Returned
<1>2. CASE SameCnt(b) # {First(b)}
  <2> DEFINE s == Strongest(b)
             earlier == {y \in b : y.at < s.at}
             R == {p \in earlier \X earlier : p[2].at < p[1].at}
  <2>1. s \in b /\ s # First(b)
    BY <1>2, StrongestProperties
  <2>2. \A x \in b : x.at \in Nat
    BY DEF Vector, Item
  <2>3. First(b) \in earlier
    <3> HIDE DEF s
    <3>1. First(b) \in b /\ First(b).at <= s.at
      BY <2>1, FirstProperties
    <3>2. First(b).at # s.at
      BY <2>1, <3>1 DEF Vector
    <3>3. QED
      BY <2>1, <2>2, <3>1, <3>2
  <2>4. IsFiniteSet(earlier)
    <3>1. earlier \in SUBSET b
      OBVIOUS
    <3>2. QED
      BY <3>1, FS_Subset DEF Vector
  <2>5. \A x, y \in earlier : <<x, y>> \in R <=> y.at < x.at
    OBVIOUS
  <2>6. \A x \in earlier : x \in b /\ x.at \in Nat
    BY <2>2
  <2>7. \E x \in earlier : \A y \in earlier : <<y, x>> \notin R
    <3> HIDE DEF R, earlier
    <3>1. \A x \in earlier : <<x, x>> \notin R
      BY <2>5, <2>6
    <3>2. \A x, y, z \in earlier :
            <<x, y>> \in R /\ <<y, z>> \in R => <<x, z>> \in R
      BY <2>5, <2>6
    <3>3. QED
      BY <2>3, <2>4, <3>1, <3>2, FiniteMinimal
  <2>8. \E y \in b : /\ y.at < s.at
                     /\ \A z \in b : z.at < s.at => z.at <= y.at
    <3>1. PICK x \in earlier : \A y \in earlier : <<y, x>> \notin R
      BY <2>7
    <3>2. \A y \in earlier : y.at <= x.at
      <4> HIDE DEF R, earlier
      <4>1. ASSUME NEW y \in earlier
            PROVE  y.at <= x.at
        <5>1. ~ (x.at < y.at)
          BY <2>5, <3>1
        <5>2. QED
          BY <2>6, <5>1
      <4>2. QED
        BY <4>1
    <3> HIDE DEF s, R
    <3>3. QED
      BY <3>1, <3>2
  <2>9. Before(b, s) \in b
    <3> HIDE DEF s
    <3> QED BY <2>8 DEF Before
  <2>10. QED
    BY <1>2, <2>9 DEF Returned
<1>3. QED
  BY <1>1, <1>2

(***************************************************************************)
(* What the steps do to a vector and to the deque.                         *)
(***************************************************************************)

\* An item of which another copy was heard keeps everything but the gateway
\* and the signal.
LEMMA HeardProperties ==
  ASSUME NEW x \in Item, NEW gw \in Gateways, NEW snr \in Signals
  PROVE  /\ Heard(x, gw, snr) \in Item
         /\ Heard(x, gw, snr).at = x.at
         /\ Heard(x, gw, snr).port = x.port
         /\ Heard(x, gw, snr).cnt = x.cnt
  BY DEF Heard, Item

\* Replacing an element of a finite set does not make the set larger.
LEMMA ReplaceCardinality ==
  ASSUME NEW b, IsFiniteSet(b), NEW x \in b, NEW y
  PROVE  /\ IsFiniteSet((b \ {x}) \cup {y})
         /\ Cardinality((b \ {x}) \cup {y}) <= Cardinality(b)
<1>1. /\ IsFiniteSet(b \ {x})
      /\ Cardinality(b \ {x}) = Cardinality(b) - 1
  BY FS_RemoveElement
<1>2. Cardinality(b) \in Nat
  BY FS_CardinalityType
<1>3. /\ IsFiniteSet((b \ {x}) \cup {y})
      /\ Cardinality((b \ {x}) \cup {y}) = IF y \in b \ {x}
                                          THEN Cardinality(b \ {x})
                                          ELSE Cardinality(b \ {x}) + 1
  BY <1>1, FS_AddElement
<1>4. QED
  BY <1>1, <1>2, <1>3

\* Removing the group of the first item removes at least one item.
LEMMA RemoveGroupCardinality ==
  ASSUME NEW b, Vector(b), b # {}
  PROVE  /\ IsFiniteSet(b \ SameCnt(b))
         /\ Cardinality(b \ SameCnt(b)) <= Cardinality(b) - 1
<1>1. First(b) \in b /\ First(b) \in SameCnt(b)
  BY FirstProperties DEF SameCnt
<1>2. b \ SameCnt(b) \in SUBSET (b \ {First(b)})
  BY <1>1
<1>3. /\ IsFiniteSet(b \ {First(b)})
      /\ Cardinality(b \ {First(b)}) = Cardinality(b) - 1
  BY <1>1, FS_RemoveElement DEF Vector
<1>4. QED
  BY <1>2, <1>3, FS_Subset

LEMMA PlacesAreSame ==
  \A s, a : Places(s, a) = PlacesOf(s, a)
  BY DEF Places, PlacesOf

(***************************************************************************)
(* The part of the invariant that push() and getFirstExpired() disturb.    *)
(***************************************************************************)
MapOK ==
  /\ DOMAIN packets \subseteq Devices
  /\ packets \in [DOMAIN packets -> SUBSET Item]
  /\ addrs \in Seq(Devices)
  /\ stored \in Nat

QueueInv ==
  /\ MapOK
  /\ VectorOK
  /\ NoEmptyVector
  /\ OneItemPerFrame
  /\ EveryItemScheduled

\* Another copy of a queued frame: one item of one vector is replaced.
LEMMA PushMergeInv ==
  ASSUME QueueInv, NEW a \in Devices, NEW port, NEW cnt,
         NEW gw \in Gateways, NEW snr \in Signals,
         PushMerge(a, port, cnt, gw, snr)
  PROVE  QueueInv'
<1>1. a \in DOMAIN packets /\ addrs' = addrs /\ stored' = stored
  BY DEF PushMerge, Has
<1>2. PICK x \in packets[a] :
        packets' = [packets EXCEPT ![a] = (@ \ {x}) \cup {Heard(x, gw, snr)}]
  BY DEF PushMerge
<1> DEFINE y == Heard(x, gw, snr)
           b == packets[a]
           c == (b \ {x}) \cup {y}
<1>3. /\ DOMAIN packets' = DOMAIN packets
      /\ packets'[a] = c
      /\ \A d \in DOMAIN packets : d # a => packets'[d] = packets[d]
  BY <1>1, <1>2 DEF QueueInv, MapOK
<1>4. b \subseteq Item /\ x \in b
  BY <1>1 DEF QueueInv, MapOK
<1>5. y \in Item /\ y.at = x.at /\ y.port = x.port /\ y.cnt = x.cnt
  BY <1>4, HeardProperties
<1>6. IsFiniteSet(c) /\ Cardinality(c) <= Cardinality(b)
  BY <1>1, <1>4, ReplaceCardinality DEF QueueInv, VectorOK
<1> HIDE DEF y
<1>7. MapOK'
  BY <1>1, <1>2, <1>4, <1>5 DEF QueueInv, MapOK, y
<1>8. VectorOK'
  <2>1. /\ \A z \in b : z.at <= stored
        /\ \A u, v \in b : u.at = v.at => u = v
    BY <1>1 DEF QueueInv, VectorOK
  <2>2. \A z \in c : z.at <= stored
    BY <1>4, <1>5, <2>1
  <2>3. \A u, v \in c : u.at = v.at => u = v
    BY <1>4, <1>5, <2>1
  <2> HIDE DEF b, c
  <2>4. QED
    BY <1>1, <1>3, <1>6, <2>2, <2>3 DEF QueueInv, VectorOK
<1>9. NoEmptyVector'
  BY <1>3 DEF QueueInv, NoEmptyVector
<1>10. OneItemPerFrame'
  <2>1. \A u, v \in b : (u.port = v.port /\ u.cnt = v.cnt) => u = v
    BY <1>1 DEF QueueInv, OneItemPerFrame
  <2>2. \A u, v \in c : (u.port = v.port /\ u.cnt = v.cnt) => u = v
    BY <1>4, <1>5, <2>1
  <2> HIDE DEF b, c
  <2>3. QED
    BY <1>3, <2>2 DEF QueueInv, OneItemPerFrame
<1>11. EveryItemScheduled'
  <2>1. Cardinality(b) <= Cardinality(Places(addrs, a))
    BY <1>1 DEF QueueInv, EveryItemScheduled
  <2>2. Cardinality(c) \in Nat /\ Cardinality(b) \in Nat
    BY <1>1, <1>6, FS_CardinalityType DEF QueueInv, VectorOK
  <2>3. Cardinality(Places(addrs, a)) \in Nat
    BY PlacesFinite, PlacesAreSame DEF QueueInv, MapOK
  <2> HIDE DEF b, c
  <2>4. Cardinality(c) <= Cardinality(Places(addrs, a))
    BY <1>6, <2>1, <2>2, <2>3
  <2>5. QED
    BY <1>1, <1>3, <2>4 DEF QueueInv, EveryItemScheduled
<1>12. QED
  BY <1>7, <1>8, <1>9, <1>10, <1>11 DEF QueueInv

\* A new frame: one item and one entry of addrs are added.
LEMMA PushStoreInv ==
  ASSUME QueueInv, NEW a \in Devices, NEW port \in FPorts, NEW cnt \in FCnts,
         NEW mode \in Modes, NEW due \in Nat,
         NEW gw \in Gateways, NEW snr \in Signals,
         PushStore(a, port, cnt, mode, due, gw, snr)
  PROVE  QueueInv'
<1> DEFINE new == [at |-> stored + 1, port |-> port, cnt |-> cnt, mode |-> mode,
                   due |-> due, gw |-> gw, snr |-> snr]
           b == IF Has(a) THEN packets[a] ELSE {}
           c == b \cup {new}
<1>1. /\ DOMAIN packets' = DOMAIN packets \cup {a}
      /\ packets'[a] = c
      /\ \A d \in DOMAIN packets : d # a => packets'[d] = packets[d]
      /\ packets' \in [DOMAIN packets \cup {a} -> {c} \cup {packets[d] : d \in DOMAIN packets}]
      /\ stored' = stored + 1
  BY DEF PushStore, Has
<1>2. addrs' = Append(addrs, a)
  BY DEF PushStore, Scheduled, Has, QueueInv, NoEmptyVector
<1>3. \A x \in b : ~ (x.port = port /\ x.cnt = cnt)
  BY DEF PushStore, Twin
<1>4. new \in Item
  BY DEF Item, QueueInv, MapOK
<1>5. /\ b \subseteq Item
      /\ IsFiniteSet(b)
      /\ \A x \in b : x.at <= stored /\ x.at \in Nat
      /\ \A x, y \in b : x.at = y.at => x = y
      /\ \A x, y \in b : (x.port = y.port /\ x.cnt = y.cnt) => x = y
      /\ Cardinality(b) <= Cardinality(Places(addrs, a))
  <2>1. CASE Has(a)
    BY <2>1 DEF Has, Item, QueueInv, MapOK, VectorOK, OneItemPerFrame,
                EveryItemScheduled
  <2>2. CASE ~Has(a)
    <3>1. b = {}
      BY <2>2
    <3>2. Cardinality(Places(addrs, a)) \in Nat
      BY PlacesFinite, PlacesAreSame DEF QueueInv, MapOK
    <3> HIDE DEF b
    <3>3. QED
      BY <3>1, <3>2, FS_EmptySet
  <2>3. QED
    BY <2>1, <2>2
<1>6. new.at = stored + 1 /\ new.port = port /\ new.cnt = cnt /\ stored \in Nat
  BY DEF QueueInv, MapOK
<1> HIDE DEF new, b
<1>7. /\ IsFiniteSet(c)
      /\ Cardinality(c) <= Cardinality(b) + 1
      /\ Cardinality(b) \in Nat
      /\ Cardinality(c) \in Nat
  <2>1. IsFiniteSet(b) /\ Cardinality(b) \in Nat
    BY <1>5, FS_CardinalityType
  <2>2. /\ IsFiniteSet(c)
        /\ Cardinality(c) = IF new \in b THEN Cardinality(b)
                                        ELSE Cardinality(b) + 1
    BY <2>1, FS_AddElement
  <2> HIDE DEF c
  <2>3. QED
    BY <2>1, <2>2
<1>8. MapOK'
  <2>1. c \in SUBSET Item
    BY <1>4, <1>5
  <2>2. packets' \in [DOMAIN packets' -> SUBSET Item]
    <3> HIDE DEF c
    <3> QED BY <1>1, <2>1 DEF QueueInv, MapOK
  <2>3. addrs' \in Seq(Devices)
    BY <1>2, AppendProperties DEF QueueInv, MapOK
  <2>4. QED
    BY <1>1, <2>2, <2>3 DEF QueueInv, MapOK
<1>9. VectorOK'
  <2>1. \A x \in c : x.at <= stored + 1
    BY <1>5, <1>6
  <2>2. \A x, y \in c : x.at = y.at => x = y
    BY <1>5, <1>6
  <2>3. \A d \in DOMAIN packets : \A x \in packets[d] : x.at <= stored + 1
    BY DEF QueueInv, VectorOK, MapOK, Item
  <2> HIDE DEF c
  <2>4. QED
    BY <1>1, <1>7, <2>1, <2>2, <2>3 DEF QueueInv, VectorOK
<1>10. NoEmptyVector'
  <2>1. c # {}
    OBVIOUS
  <2> HIDE DEF c
  <2>2. QED
    BY <1>1, <2>1 DEF QueueInv, NoEmptyVector
<1>11. OneItemPerFrame'
  <2>1. \A x, y \in c : (x.port = y.port /\ x.cnt = y.cnt) => x = y
    BY <1>3, <1>5, <1>6
  <2> HIDE DEF c
  <2>2. QED
    BY <1>1, <2>1 DEF QueueInv, OneItemPerFrame
<1>12. EveryItemScheduled'
  <2>1. \A d \in Devices : /\ Cardinality(Places(addrs, d)) \in Nat
                           /\ Cardinality(Places(addrs', d)) =
                                Cardinality(Places(addrs, d))
                                  + (IF d = a THEN 1 ELSE 0)
    BY <1>2, PlacesAppend, PlacesFinite, PlacesAreSame DEF QueueInv, MapOK
  <2> HIDE DEF c
  <2>2. Cardinality(c) <= Cardinality(Places(addrs', a))
    BY <1>5, <1>7, <2>1
  <2>3. \A d \in DOMAIN packets : d # a =>
          Cardinality(packets'[d]) <= Cardinality(Places(addrs', d))
    BY <1>1, <2>1 DEF QueueInv, EveryItemScheduled, MapOK
  <2>4. QED
    BY <1>1, <2>2, <2>3 DEF EveryItemScheduled
<1>13. QED
  BY <1>8, <1>9, <1>10, <1>11, <1>12 DEF QueueInv

\* getFirstExpired(): one entry of addrs and at least one item are removed.
LEMMA GetFirstExpiredInv ==
  ASSUME QueueInv, getFirstExpired, stored' = stored
  PROVE  QueueInv' /\ item' \subseteq Item
<1> DEFINE a == Head(addrs)
           b == packets[a]
           c == b \ SameCnt(b)
<1>1. addrs # <<>> /\ a \in DOMAIN packets /\ b # {}
  BY DEF getFirstExpired, Expired, Has
<1>2. Vector(b)
  BY <1>1 DEF Vector, QueueInv, MapOK, VectorOK
<1>3. IsFiniteSet(c) /\ Cardinality(c) <= Cardinality(b) - 1
  BY <1>1, <1>2, RemoveGroupCardinality
<1>4. c \subseteq b /\ b \subseteq Item
  BY <1>2 DEF Vector
<1>5. addrs' = Tail(addrs) /\ item' = {Returned(b)}
  BY DEF getFirstExpired
<1>6. packets' = IF c # {} THEN [packets EXCEPT ![a] = c]
                 ELSE [d \in DOMAIN packets \ {a} |-> packets[d]]
  BY DEF getFirstExpired, Dequeued
<1> HIDE DEF b, c
<1>7. /\ DOMAIN packets' \subseteq DOMAIN packets
      /\ packets' \in [DOMAIN packets' -> SUBSET Item]
      /\ \A d \in DOMAIN packets' : \/ d # a /\ packets'[d] = packets[d]
                                    \/ d = a /\ c # {} /\ packets'[d] = c
  <2> HIDE DEF a
  <2>1. CASE c # {}
    BY <1>1, <1>4, <1>6, <2>1 DEF QueueInv, MapOK
  <2>2. CASE c = {}
    BY <1>6, <2>2 DEF QueueInv, MapOK
  <2>3. QED
    BY <2>1, <2>2
<1>8. MapOK'
  BY <1>1, <1>5, <1>7, HeadTailProperties DEF QueueInv, MapOK
<1>9. VectorOK'
  <2>1. /\ \A x \in c : x.at <= stored
        /\ \A x, y \in c : x.at = y.at => x = y
    BY <1>1, <1>4 DEF QueueInv, VectorOK, b
  <2> HIDE DEF a
  <2>2. QED
    BY <1>3, <1>7, <2>1 DEF QueueInv, VectorOK
<1>10. NoEmptyVector'
  <2> HIDE DEF a
  <2> QED BY <1>7 DEF QueueInv, NoEmptyVector
<1>11. OneItemPerFrame'
  <2>1. \A x, y \in c : (x.port = y.port /\ x.cnt = y.cnt) => x = y
    BY <1>1, <1>4 DEF QueueInv, OneItemPerFrame, b
  <2> HIDE DEF a
  <2>2. QED
    BY <1>7, <2>1 DEF QueueInv, OneItemPerFrame
<1>12. EveryItemScheduled'
  <2>1. \A d \in Devices : /\ Cardinality(Places(addrs, d)) \in Nat
                           /\ Cardinality(Places(addrs', d)) =
                                Cardinality(Places(addrs, d))
                                  - (IF d = a THEN 1 ELSE 0)
    BY <1>1, <1>5, PlacesTail, PlacesFinite, PlacesAreSame DEF QueueInv, MapOK
  <2>2. Cardinality(b) <= Cardinality(Places(addrs, a))
    BY <1>1 DEF QueueInv, EveryItemScheduled, b
  <2>3. Cardinality(b) \in Nat /\ Cardinality(c) \in Nat
    BY <1>2, <1>3, FS_CardinalityType DEF Vector
  <2> HIDE DEF a
  <2>4. Cardinality(c) <= Cardinality(Places(addrs', a))
    BY <1>1, <1>3, <2>1, <2>2, <2>3 DEF QueueInv, MapOK
  <2>5. \A d \in DOMAIN packets : d # a =>
          Cardinality(packets[d]) <= Cardinality(Places(addrs', d))
    BY <2>1 DEF QueueInv, EveryItemScheduled, MapOK
  <2>6. QED
    BY <1>7, <2>4, <2>5 DEF EveryItemScheduled
<1>13. item' \subseteq Item
  BY <1>1, <1>2, <1>4, <1>5, ReturnedInVector
<1>14. QED
  BY <1>8, <1>9, <1>10, <1>11, <1>12, <1>13 DEF QueueInv

(***************************************************************************)
(* The theorems.                                                           *)
(***************************************************************************)
LEMMA DiffNat == \A t1, t2 \in Nat : Diff(t1, t2) \in Nat
  BY DEF Diff

LEMMA IInvSplit ==
  IInv <=> /\ QueueInv
           /\ now \in Nat
           /\ second \subseteq [dev : Devices, port : FPorts, gw : Gateways,
                                snr : Signals, due : Nat]
           /\ pc \in {"select", "drain"}
           /\ t \in Nat
           /\ item \subseteq Item
           /\ timeout \in Nat
           /\ wakeAt \in Nat
  BY DEF IInv, TypeOK, QueueInv, MapOK

LEMMA InitIInv == Init => IInv
<1> SUFFICES ASSUME Init
             PROVE  IInv
  OBVIOUS
<1>1. TypeOK
  BY QueueAssumption DEF Init, TypeOK
<1>2. VectorOK /\ NoEmptyVector /\ OneItemPerFrame /\ EveryItemScheduled
  BY DEF Init, VectorOK, NoEmptyVector, OneItemPerFrame, EveryItemScheduled
<1>3. QED
  BY <1>1, <1>2 DEF IInv

LEMMA PushInv ==
  ASSUME QueueInv, NEW a \in Devices, NEW port \in FPorts, NEW cnt \in FCnts,
         NEW mode \in Modes, NEW due \in Nat,
         NEW gw \in Gateways, NEW snr \in Signals,
         Push(a, port, cnt, mode, due, gw, snr)
  PROVE  QueueInv'
  BY PushMergeInv, PushStoreInv DEF Push

LEMMA NextIInv == IInv /\ [Next]_vars => IInv'
<1> SUFFICES ASSUME IInv, [Next]_vars
             PROVE  IInv'
  OBVIOUS
<1>1. CASE Enqueue
  <2>1. PICK u \in Uplinks, cnt \in FCnts, gw \in Gateways, snr \in Signals :
          /\ Push(u.dev, u.port, cnt, u.mode, now + Delay[u.mode], gw, snr)
          /\ second' = IF u.mode = "JOIN"
                       THEN {[dev |-> u.dev, port |-> u.port, gw |-> gw,
                              snr |-> snr, due |-> now + JoinDelay2]}
                       ELSE {}
    BY <1>1 DEF Enqueue
  <2>2. /\ u.dev \in Devices
        /\ u.port \in FPorts
        /\ u.mode \in Modes
        /\ now + Delay[u.mode] \in Nat
        /\ now + JoinDelay2 \in Nat
    BY QueueAssumption, IInvSplit
  <2>3. QueueInv'
    BY <2>1, <2>2, PushInv, IInvSplit
  <2>4. second' \subseteq [dev : Devices, port : FPorts, gw : Gateways,
                          snr : Signals, due : Nat]
    BY <2>1, <2>2
  <2>5. UNCHANGED <<now, pc, t, item, timeout, wakeAt>>
    BY <1>1 DEF Enqueue, runnerVars
  <2>6. QED
    BY <2>3, <2>4, <2>5, IInvSplit DEF IInv, TypeOK, QueueInv, MapOK
<1>2. CASE EnqueueSecond
  <2>1. PICK w \in second, cnt \in FCnts :
          Push(w.dev, w.port, cnt, "JOIN", w.due, w.gw, w.snr)
    BY <1>2 DEF EnqueueSecond
  <2>2. /\ w.dev \in Devices
        /\ w.port \in FPorts
        /\ w.due \in Nat
        /\ w.gw \in Gateways
        /\ w.snr \in Signals
    BY IInvSplit
  <2>3. QueueInv'
    BY <2>1, <2>2, PushInv, IInvSplit, QueueAssumption
  <2>4. second' = {} /\ UNCHANGED <<now, pc, t, item, timeout, wakeAt>>
    BY <1>2 DEF EnqueueSecond, runnerVars
  <2>5. QED
    BY <2>3, <2>4, IInvSplit DEF IInv, TypeOK, QueueInv, MapOK
<1>3. CASE Wake
  BY <1>3 DEF Wake, IInv, TypeOK, VectorOK, NoEmptyVector, OneItemPerFrame,
              EveryItemScheduled
<1>4. CASE Take
  <2>1. QueueInv' /\ item' \subseteq Item
    BY <1>4, GetFirstExpiredInv, IInvSplit DEF Take
  <2>2. UNCHANGED <<now, second, pc, t, timeout, wakeAt>>
    BY <1>4 DEF Take
  <2>3. QED
    BY <2>1, <2>2, IInvSplit DEF IInv, TypeOK, QueueInv, MapOK
<1>5. CASE Sleep
  <2>1. \A a : TimeoutFor(a) \in Nat
    <3> SUFFICES ASSUME NEW a, Has(a), packets[a] # {}
                 PROVE  Diff(now, First(packets[a]).due) \in Nat
      BY QueueAssumption DEF TimeoutFor
    <3>1. Vector(packets[a])
      BY DEF Has, Vector, IInv, TypeOK, VectorOK
    <3>2. First(packets[a]).due \in Nat
      BY <3>1, FirstProperties DEF Vector, Item
    <3>3. QED
      BY <3>2, DiffNat DEF IInv, TypeOK
  <2>2. timeout' \in Nat /\ wakeAt' \in Nat
    BY <1>5, <2>1 DEF Sleep, IInv, TypeOK
  <2>3. QED
    BY <1>5, <2>2 DEF Sleep, IInv, TypeOK, VectorOK, NoEmptyVector,
                      OneItemPerFrame, EveryItemScheduled
<1>6. CASE Tick
  BY <1>6 DEF Tick, runnerVars, IInv, TypeOK, VectorOK, NoEmptyVector,
              OneItemPerFrame, EveryItemScheduled
<1>7. CASE UNCHANGED vars
  BY <1>7 DEF vars, IInv, TypeOK, VectorOK, NoEmptyVector, OneItemPerFrame,
              EveryItemScheduled
<1>8. QED
  BY <1>1, <1>2, <1>3, <1>4, <1>5, <1>6, <1>7 DEF Next

\* The inductive invariant of the packet queue holds in every state.
THEOREM QueueInvariant == Spec => []IInv
  BY InitIInv, NextIInv, PTL DEF Spec

\* Every variable keeps its type; the timeout of select() is never negative.
THEOREM TypeCorrect == Spec => []TypeOK
<1>1. IInv => TypeOK
  BY DEF IInv
<1>2. QED
  BY <1>1, QueueInvariant, PTL

\* "always keep at least 1 item": no vector in the map is ever empty.
THEOREM VectorsNeverEmpty == Spec => []NoEmptyVector
<1>1. IInv => NoEmptyVector
  BY DEF IInv
<1>2. QED
  BY <1>1, QueueInvariant, PTL

\* push() never stores a second item for a frame that is queued.
THEOREM FramesNeverDuplicated == Spec => []OneItemPerFrame
<1>1. IInv => OneItemPerFrame
  BY DEF IInv
<1>2. QED
  BY <1>1, QueueInvariant, PTL

\* addrs always holds an entry for every queued item: whatever the order of
\* arrivals and rounds, no reply is stranded.
THEOREM NoReplyStranded == Spec => []EveryItemScheduled
<1>1. IInv => EveryItemScheduled
  BY DEF IInv
<1>2. QED
  BY <1>1, QueueInvariant, PTL

\* When the deque is empty the map is empty, so the address getNextTimeout()
\* reads from an empty deque cannot name a device that has a reply.
THEOREM DequeAndMapEmptyTogether == Spec => []EmptyTogether
<1>1. IInv => EmptyTogether
  <2> SUFFICES ASSUME IInv, addrs = <<>>, NEW a \in DOMAIN packets
               PROVE  FALSE
    BY DEF EmptyTogether
  <2>1. Places(addrs, a) = {}
    BY DEF Places
  <2>2. IsFiniteSet(packets[a]) /\ Cardinality(packets[a]) <= 0
    BY <2>1, FS_EmptySet DEF IInv, VectorOK, EveryItemScheduled
  <2>3. packets[a] = {}
    BY <2>2, FS_EmptySet, FS_CardinalityType
  <2>4. QED
    BY <2>3 DEF IInv, NoEmptyVector
<1>2. QED
  BY <1>1, QueueInvariant, PTL

(***************************************************************************)
(* The order of the replies.                                               *)
(*                                                                         *)
(* addrs holds addresses, not items: which item an entry stands for is     *)
(* nowhere written.  OrderInv says that there is an assignment of storage  *)
(* numbers to the entries, increasing along the deque, in which every      *)
(* entry stands for an item of its device and every item has its entry.    *)
(* It holds as long as getFirstExpired() takes one item with one entry,    *)
(* that is, as long as a frame counter is not queued on two ports of one   *)
(* device.                                                                 *)
(***************************************************************************)
OnePort == \A u, v \in Uplinks : u.dev = v.dev => u.port = v.port

PortsInv ==
  /\ \A a \in DOMAIN packets : \A x \in packets[a] : \E u \in Uplinks : u.dev = a /\ u.port = x.port
  /\ \A w \in second : \E u \in Uplinks : u.dev = w.dev /\ u.port = w.port

StandsFor(s, q, m) ==
  /\ s \in [1 .. Len(q) -> Nat]
  /\ \A i, j \in 1 .. Len(q) : i < j => s[i] < s[j]
  /\ \A i \in 1 .. Len(q) : q[i] \in DOMAIN m /\ \E x \in m[q[i]] : x.at = s[i]
  /\ \A a \in DOMAIN m : \A x \in m[a] :
       \E i \in 1 .. Len(q) : q[i] = a /\ s[i] = x.at

OrderInv == \E s : StandsFor(s, addrs, packets)

\* The first entry stands for the first item of its device, which is the oldest
\* item of the queue, and no other item has its frame counter.
LEMMA HeadIsOldest ==
  ASSUME OnePort, QueueInv, PortsInv, NEW s, StandsFor(s, addrs, packets), getFirstExpired
  PROVE  /\ addrs # <<>> /\ Head(addrs) \in DOMAIN packets
         /\ 1 \in 1 .. Len(addrs) /\ Head(addrs) = addrs[1]
         /\ First(packets[Head(addrs)]) \in packets[Head(addrs)]
         /\ First(packets[Head(addrs)]).at = s[1]
         /\ SameCnt(packets[Head(addrs)]) = {First(packets[Head(addrs)])}
<1> DEFINE a == Head(addrs)
           b == packets[a]
<1>1. addrs # <<>> /\ a \in DOMAIN packets /\ b # {}
  BY DEF getFirstExpired, Expired, Has
<1>2. addrs \in Seq(Devices) /\ a = addrs[1] /\ Len(addrs) \in Nat /\ 1 \in 1 .. Len(addrs)
  BY <1>1 DEF QueueInv, MapOK
<1>3. Vector(b)
  BY <1>1 DEF Vector, QueueInv, MapOK, VectorOK
<1>4. First(b) \in b /\ \A y \in b : First(b).at <= y.at
  BY <1>1, <1>3, FirstProperties
<1> HIDE DEF a
<1>5. First(b).at = s[1]
  <2>1. PICK x \in b : x.at = s[1]
    BY <1>2 DEF StandsFor
  <2>2. PICK i \in 1 .. Len(addrs) : s[i] = First(b).at
    BY <1>1, <1>4 DEF StandsFor
  <2>3. s[i] \in Nat /\ s[1] \in Nat /\ (1 < i => s[1] < s[i])
    BY <1>2 DEF StandsFor
  <2>4. First(b).at <= s[1]
    BY <1>4, <2>1
  <2> HIDE DEF b
  <2> QED
    BY <1>2, <2>2, <2>3, <2>4
<1>6. \A x, y \in b : x.port = y.port
  <2> SUFFICES ASSUME NEW x \in b, NEW y \in b PROVE x.port = y.port
    OBVIOUS
  <2>1. PICK u \in Uplinks : u.dev = a /\ u.port = x.port
    BY <1>1 DEF PortsInv
  <2>2. PICK v \in Uplinks : v.dev = a /\ v.port = y.port
    BY <1>1 DEF PortsInv
  <2> QED
    BY <2>1, <2>2 DEF OnePort
<1>7. SameCnt(b) = {First(b)}
  <2>1. \A x \in SameCnt(b) : x \in b /\ x.cnt = First(b).cnt
    BY DEF SameCnt
  <2>2. \A x \in SameCnt(b) : x = First(b)
    BY <1>1, <1>4, <1>6, <2>1 DEF QueueInv, OneItemPerFrame
  <2>3. First(b) \in SameCnt(b)
    BY <1>4 DEF SameCnt
  <2> QED
    BY <2>2, <2>3
<1> QED
  BY <1>1, <1>2, <1>4, <1>5, <1>7 DEF a

\* What is left after getFirstExpired() was stored after what it returns.
LEMMA RestIsYounger ==
  ASSUME OnePort, QueueInv, PortsInv, NEW s, StandsFor(s, addrs, packets), getFirstExpired
  PROVE  /\ item' = {First(packets[Head(addrs)])}
         /\ \A d \in DOMAIN packets' : d \in DOMAIN packets /\ packets'[d] \subseteq packets[d]
         /\ \A d \in DOMAIN packets : \A x \in packets[d] :
              x # First(packets[Head(addrs)]) \/ d # Head(addrs) =>
                d \in DOMAIN packets' /\ x \in packets'[d]
         /\ \A d \in DOMAIN packets' : \A y \in packets'[d] :
              \E i \in 2 .. Len(addrs) : addrs[i] = d /\ s[i] = y.at
<1> DEFINE a == Head(addrs)
           b == packets[a]
           c == b \ {First(b)}
<1>1. /\ addrs # <<>> /\ a \in DOMAIN packets /\ 1 \in 1 .. Len(addrs) /\ a = addrs[1]
      /\ First(b) \in b /\ First(b).at = s[1] /\ SameCnt(b) = {First(b)}
  BY HeadIsOldest
<1>2. item' = {First(b)}
  BY <1>1 DEF getFirstExpired, Returned
<1>3. packets' = IF c # {} THEN [packets EXCEPT ![a] = c]
                 ELSE [d \in DOMAIN packets \ {a} |-> packets[d]]
  BY <1>1 DEF getFirstExpired, Dequeued
<1> HIDE DEF a
<1>4. /\ \A d \in DOMAIN packets' : d \in DOMAIN packets
      /\ \A d \in DOMAIN packets' : \/ d # a /\ packets'[d] = packets[d]
                                    \/ d = a /\ packets'[d] = c
      /\ \A d \in DOMAIN packets : d # a \/ c # {} => d \in DOMAIN packets'
  <2> HIDE DEF c
  <2>1. CASE c # {}
    BY <1>1, <1>3, <2>1 DEF QueueInv, MapOK
  <2>2. CASE c = {}
    BY <1>3, <2>2 DEF QueueInv, MapOK
  <2> QED
    BY <2>1, <2>2
<1>5. \A d \in DOMAIN packets' : d \in DOMAIN packets /\ packets'[d] \subseteq packets[d]
  BY <1>4
<1>6. ASSUME NEW d \in DOMAIN packets, NEW x \in packets[d], x # First(b) \/ d # a
      PROVE  d \in DOMAIN packets' /\ x \in packets'[d]
  BY <1>4, <1>6
<1>7. ASSUME NEW d \in DOMAIN packets', NEW y \in packets'[d]
      PROVE  \E i \in 2 .. Len(addrs) : addrs[i] = d /\ s[i] = y.at
  <2>1. d \in DOMAIN packets /\ y \in packets[d]
    BY <1>5
  <2>2. PICK i \in 1 .. Len(addrs) : addrs[i] = d /\ s[i] = y.at
    BY <2>1 DEF StandsFor
  <2>3. i # 1
    <3> SUFFICES ASSUME i = 1 PROVE FALSE
      OBVIOUS
    <3>1. d = a /\ y.at = First(b).at /\ y \in b /\ y # First(b)
      BY <1>1, <1>4, <2>1, <2>2
    <3> QED
      BY <1>1, <3>1 DEF QueueInv, VectorOK
  <2>4. Len(addrs) \in Nat
    BY DEF QueueInv, MapOK
  <2> QED
    BY <2>2, <2>3, <2>4
<1> QED
  BY <1>2, <1>5, <1>6, <1>7 DEF a

LEMMA TakeOrder ==
  ASSUME OnePort, QueueInv, PortsInv, OrderInv, getFirstExpired
  PROVE  OrderInv'
<1>1. PICK s : StandsFor(s, addrs, packets)
  BY DEF OrderInv
<1> DEFINE a == Head(addrs)
           n == Len(addrs)
           r == [i \in 1 .. n - 1 |-> s[i + 1]]
<1>2. /\ addrs \in Seq(Devices) /\ n \in Nat /\ 1 \in 1 .. n /\ a = addrs[1] /\ a \in DOMAIN packets
      /\ First(packets[a]) \in packets[a] /\ First(packets[a]).at = s[1]
  BY <1>1, HeadIsOldest DEF QueueInv, MapOK
<1>3. addrs' = Tail(addrs) /\ addrs # <<>>
  BY <1>1, HeadIsOldest DEF getFirstExpired
<1>4. Len(addrs') = n - 1 /\ \A i \in 1 .. n - 1 : addrs'[i] = addrs[i + 1]
  BY <1>2, <1>3
<1>5. /\ \A d \in DOMAIN packets : \A x \in packets[d] :
           x # First(packets[a]) \/ d # a => d \in DOMAIN packets' /\ x \in packets'[d]
      /\ \A d \in DOMAIN packets' : \A y \in packets'[d] :
           \E i \in 2 .. n : addrs[i] = d /\ s[i] = y.at
  BY <1>1, RestIsYounger
<1> HIDE DEF n, a
<1>6. /\ s \in [1 .. n -> Nat]
      /\ \A i, j \in 1 .. n : i < j => s[i] < s[j]
      /\ \A i \in 1 .. n : addrs[i] \in DOMAIN packets /\ \E x \in packets[addrs[i]] : x.at = s[i]
  BY <1>1 DEF StandsFor, n
<1>7. \A i \in 1 .. n - 1 : i + 1 \in 1 .. n /\ 1 < i + 1 /\ r[i] = s[i + 1]
  BY <1>2
<1>8. r \in [1 .. n - 1 -> Nat]
  BY <1>6, <1>7
<1>9. \A i, j \in 1 .. n - 1 : i < j => r[i] < r[j]
  BY <1>2, <1>6, <1>7
<1> HIDE DEF r
<1>10. ASSUME NEW i \in 1 .. n - 1
       PROVE  addrs'[i] \in DOMAIN packets' /\ \E x \in packets'[addrs'[i]] : x.at = r[i]
  <2>1. addrs'[i] = addrs[i + 1] /\ r[i] = s[i + 1] /\ s[1] < s[i + 1]
    BY <1>2, <1>4, <1>6, <1>7
  <2>2. PICK x \in packets[addrs[i + 1]] : x.at = s[i + 1]
    BY <1>6, <1>7
  <2>3. x # First(packets[a])
    <3>1. s[1] # s[i + 1]
      BY <1>2, <1>6, <1>7, <2>1
    <3> QED
      BY <1>2, <2>2, <3>1
  <2>4. addrs[i + 1] \in DOMAIN packets
    BY <1>6, <1>7
  <2> QED
    BY <1>5, <2>1, <2>2, <2>3, <2>4
<1>11. ASSUME NEW d \in DOMAIN packets', NEW y \in packets'[d]
       PROVE  \E i \in 1 .. n - 1 : addrs'[i] = d /\ r[i] = y.at
  <2>1. PICK i \in 2 .. n : addrs[i] = d /\ s[i] = y.at
    BY <1>5
  <2>2. i - 1 \in 1 .. n - 1 /\ (i - 1) + 1 = i
    BY <1>2
  <2>3. addrs'[i - 1] = addrs[i] /\ r[i - 1] = s[i]
    BY <1>4, <1>7, <2>2
  <2> QED
    BY <2>1, <2>2, <2>3
<1>12. StandsFor(r, addrs', packets')
  <2> DEFINE l == n - 1
  <2>1. /\ Len(addrs') = l
        /\ r \in [1 .. l -> Nat]
        /\ \A i, j \in 1 .. l : i < j => r[i] < r[j]
    BY <1>4, <1>8, <1>9
  <2>2. \A i \in 1 .. l : addrs'[i] \in DOMAIN packets' /\ \E x \in packets'[addrs'[i]] : x.at = r[i]
    BY <1>10
  <2>3. \A d \in DOMAIN packets' : \A y \in packets'[d] : \E i \in 1 .. l : addrs'[i] = d /\ r[i] = y.at
    BY <1>11
  <2> HIDE DEF l
  <2> QED
    BY ONLY <2>1, <2>2, <2>3 DEF StandsFor
<1> QED
  BY <1>12 DEF OrderInv

\* Another copy of a queued frame changes no storage number.
LEMMA MergeOrder ==
  ASSUME QueueInv, PortsInv, OrderInv, NEW a \in Devices, NEW port, NEW cnt,
         NEW gw \in Gateways, NEW snr \in Signals,
         PushMerge(a, port, cnt, gw, snr)
  PROVE  /\ OrderInv'
         /\ \A d \in DOMAIN packets' : \A x \in packets'[d] :
              d \in DOMAIN packets /\ \E y \in packets[d] : y.port = x.port
<1>1. a \in DOMAIN packets /\ addrs' = addrs
  BY DEF PushMerge, Has
<1>2. PICK x \in packets[a] :
        packets' = [packets EXCEPT ![a] = (@ \ {x}) \cup {Heard(x, gw, snr)}]
  BY DEF PushMerge
<1> DEFINE y == Heard(x, gw, snr)
<1>3. y.at = x.at /\ y.port = x.port
  BY <1>1, HeardProperties DEF QueueInv, MapOK
<1>4. /\ DOMAIN packets' = DOMAIN packets
      /\ packets'[a] = (packets[a] \ {x}) \cup {y}
      /\ \A d \in DOMAIN packets : d # a => packets'[d] = packets[d]
  BY <1>1, <1>2 DEF QueueInv, MapOK
<1> HIDE DEF y
<1>5. \A d \in DOMAIN packets : \A z \in packets'[d] :
        \E w \in packets[d] : w.at = z.at /\ w.port = z.port
  BY <1>1, <1>2, <1>3, <1>4
<1>6. \A d \in DOMAIN packets : \A w \in packets[d] : \E z \in packets'[d] : w.at = z.at
  BY <1>1, <1>2, <1>3, <1>4
<1>7. PICK s : StandsFor(s, addrs, packets)
  BY DEF OrderInv
<1>8. StandsFor(s, addrs', packets')
  <2>1. ASSUME NEW i \in 1 .. Len(addrs)
        PROVE  addrs[i] \in DOMAIN packets /\ \E z \in packets'[addrs[i]] : z.at = s[i]
    <3>1. PICK w \in packets[addrs[i]] : w.at = s[i] /\ addrs[i] \in DOMAIN packets
      BY <1>7 DEF StandsFor
    <3> QED
      BY <1>6, <3>1
  <2>2. ASSUME NEW d \in DOMAIN packets, NEW z \in packets'[d]
        PROVE  \E i \in 1 .. Len(addrs) : addrs[i] = d /\ s[i] = z.at
    <3>1. PICK w \in packets[d] : w.at = z.at
      BY <1>5
    <3> QED
      BY <1>7, <3>1 DEF StandsFor
  <2> QED
    BY <1>1, <1>4, <1>7, <2>1, <2>2 DEF StandsFor
<1> QED
  BY <1>4, <1>5, <1>8 DEF OrderInv

\* A new item is the youngest, and its entry the last.
LEMMA StoreOrder ==
  ASSUME QueueInv, OrderInv, NEW a \in Devices, NEW port \in FPorts, NEW cnt \in FCnts,
         NEW mode \in Modes, NEW due \in Nat,
         NEW gw \in Gateways, NEW snr \in Signals,
         PushStore(a, port, cnt, mode, due, gw, snr)
  PROVE  /\ OrderInv'
         /\ \A d \in DOMAIN packets' : \A x \in packets'[d] :
              \/ d = a /\ x.port = port
              \/ d \in DOMAIN packets /\ x \in packets[d]
<1> DEFINE new == [at |-> stored + 1, port |-> port, cnt |-> cnt, mode |-> mode,
                   due |-> due, gw |-> gw, snr |-> snr]
           n == Len(addrs)
<1>1. /\ DOMAIN packets' = DOMAIN packets \cup {a}
      /\ packets'[a] = (IF Has(a) THEN packets[a] ELSE {}) \cup {new}
      /\ \A d \in DOMAIN packets : d # a => packets'[d] = packets[d]
  BY DEF PushStore, Has
<1>2. addrs' = Append(addrs, a)
  BY DEF PushStore, Scheduled, Has, QueueInv, NoEmptyVector
<1>3. new.at = stored + 1 /\ new.port = port /\ stored \in Nat /\ n \in Nat
  BY DEF QueueInv, MapOK
<1> HIDE DEF new
<1>4. /\ \A d \in DOMAIN packets : \A x \in packets[d] : x \in packets'[d]
      /\ \A d \in DOMAIN packets' : \A x \in packets'[d] :
           \/ d = a /\ x = new
           \/ d \in DOMAIN packets /\ x \in packets[d]
      /\ new \in packets'[a]
  BY <1>1 DEF Has
<1>5. /\ Len(addrs') = n + 1 /\ addrs'[n + 1] = a
      /\ \A i \in 1 .. n : addrs'[i] = addrs[i]
  BY <1>2 DEF QueueInv, MapOK
<1>6. PICK s : StandsFor(s, addrs, packets)
  BY DEF OrderInv
<1> DEFINE r == [i \in 1 .. n + 1 |-> IF i = n + 1 THEN stored + 1 ELSE s[i]]
<1>7. /\ s \in [1 .. n -> Nat]
      /\ \A i, j \in 1 .. n : i < j => s[i] < s[j]
      /\ \A i \in 1 .. n : addrs[i] \in DOMAIN packets /\ \E x \in packets[addrs[i]] : x.at = s[i]
      /\ \A d \in DOMAIN packets : \A x \in packets[d] : \E i \in 1 .. n : addrs[i] = d /\ s[i] = x.at
  BY <1>6 DEF StandsFor
<1>8. \A i \in 1 .. n : s[i] < stored + 1
  <2> SUFFICES ASSUME NEW i \in 1 .. n PROVE s[i] < stored + 1
    OBVIOUS
  <2>1. PICK x \in packets[addrs[i]] : x.at = s[i] /\ addrs[i] \in DOMAIN packets
    BY <1>7
  <2>2. s[i] <= stored /\ s[i] \in Nat
    BY <1>7, <2>1 DEF QueueInv, VectorOK
  <2> QED
    BY <1>3, <2>2
<1> HIDE DEF n
<1>9. /\ \A i \in 1 .. n : i \in 1 .. n + 1 /\ i # n + 1
      /\ n + 1 \in 1 .. n + 1
      /\ \A i \in 1 .. n + 1 : i = n + 1 \/ i \in 1 .. n
  BY <1>3
<1>10. /\ r[n + 1] = stored + 1 /\ \A i \in 1 .. n : r[i] = s[i]
       /\ r \in [1 .. n + 1 -> Nat]
  BY <1>3, <1>7, <1>9
<1> HIDE DEF r
<1>11. ASSUME NEW i \in 1 .. n + 1, NEW j \in 1 .. n + 1, i < j PROVE r[i] < r[j]
  <2>1. i \in 1 .. n
    BY <1>3, <1>11
  <2>2. CASE j = n + 1
    BY <1>8, <1>10, <2>1, <2>2
  <2>3. CASE j \in 1 .. n
    BY <1>7, <1>10, <1>11, <2>1, <2>3
  <2> QED
    BY <1>9, <2>2, <2>3
<1>12. ASSUME NEW i \in 1 .. n + 1
       PROVE  addrs'[i] \in DOMAIN packets' /\ \E x \in packets'[addrs'[i]] : x.at = r[i]
  <2>1. CASE i = n + 1
    BY <1>1, <1>3, <1>4, <1>5, <1>10, <2>1
  <2>2. CASE i \in 1 .. n
    <3>1. PICK x \in packets[addrs[i]] : x.at = s[i] /\ addrs[i] \in DOMAIN packets
      BY <1>7, <2>2
    <3>2. x \in packets'[addrs[i]] /\ addrs[i] \in DOMAIN packets' /\ addrs'[i] = addrs[i] /\ r[i] = s[i]
      BY <1>1, <1>4, <1>5, <1>10, <2>2, <3>1
    <3> QED
      BY <3>1, <3>2
  <2> QED
    BY <1>9, <2>1, <2>2
<1>13. ASSUME NEW d \in DOMAIN packets', NEW x \in packets'[d]
       PROVE  \E i \in 1 .. n + 1 : addrs'[i] = d /\ r[i] = x.at
  <2>1. CASE d = a /\ x = new
    BY <1>3, <1>5, <1>9, <1>10, <2>1
  <2>2. CASE d \in DOMAIN packets /\ x \in packets[d]
    <3>1. PICK i \in 1 .. n : addrs[i] = d /\ s[i] = x.at
      BY <1>7, <2>2
    <3> QED
      BY <1>5, <1>9, <1>10, <3>1
  <2> QED
    BY <1>4, <2>1, <2>2
<1>14. StandsFor(r, addrs', packets')
  <2> DEFINE k == Len(addrs')
  <2>1. k = n + 1
    BY <1>5
  <2> HIDE DEF k
  <2>2. r \in [1 .. k -> Nat] /\ \A i, j \in 1 .. k : i < j => r[i] < r[j]
    BY <1>10, <1>11, <2>1
  <2>3. \A i \in 1 .. k : addrs'[i] \in DOMAIN packets' /\ \E x \in packets'[addrs'[i]] : x.at = r[i]
    BY <1>12, <2>1
  <2>4. \A d \in DOMAIN packets' : \A x \in packets'[d] :
          \E i \in 1 .. k : addrs'[i] = d /\ r[i] = x.at
    BY <1>13, <2>1
  <2> QED
    BY <2>2, <2>3, <2>4 DEF StandsFor, k
<1> QED
  BY <1>3, <1>4, <1>14 DEF OrderInv

\* push() of the reply to a frame of a device and port that the handler knows.
LEMMA PushOrder ==
  ASSUME QueueInv, PortsInv, OrderInv, NEW u \in Uplinks, NEW cnt \in FCnts,
         NEW mode \in Modes, NEW due \in Nat, NEW gw \in Gateways, NEW snr \in Signals,
         Push(u.dev, u.port, cnt, mode, due, gw, snr)
  PROVE  /\ OrderInv'
         /\ \A a \in DOMAIN packets' : \A x \in packets'[a] :
              \E v \in Uplinks : v.dev = a /\ v.port = x.port
<1>1. u.dev \in Devices /\ u.port \in FPorts
  BY QueueAssumption
<1>2. CASE PushMerge(u.dev, u.port, cnt, gw, snr)
  <2>1. /\ OrderInv'
        /\ \A d \in DOMAIN packets' : \A x \in packets'[d] :
             d \in DOMAIN packets /\ \E y \in packets[d] : y.port = x.port
    BY <1>1, <1>2, MergeOrder
  <2>2. \A d \in DOMAIN packets : \A y \in packets[d] : \E v \in Uplinks : v.dev = d /\ v.port = y.port
    BY DEF PortsInv
  <2> QED
    BY <2>1, <2>2
<1>3. CASE PushStore(u.dev, u.port, cnt, mode, due, gw, snr)
  <2>1. /\ OrderInv'
        /\ \A d \in DOMAIN packets' : \A x \in packets'[d] :
             \/ d = u.dev /\ x.port = u.port
             \/ d \in DOMAIN packets /\ x \in packets[d]
    BY <1>1, <1>3, StoreOrder
  <2>2. \A d \in DOMAIN packets : \A y \in packets[d] : \E v \in Uplinks : v.dev = d /\ v.port = y.port
    BY DEF PortsInv
  <2> QED
    BY <2>1, <2>2
<1> QED
  BY <1>2, <1>3 DEF Push

FifoInv == IInv /\ PortsInv /\ OrderInv

LEMMA InitFifo == Init => FifoInv
<1> SUFFICES ASSUME Init PROVE PortsInv /\ OrderInv
  BY InitIInv DEF FifoInv
<1>1. DOMAIN packets = {} /\ Len(addrs) = 0 /\ second = {}
  BY DEF Init
<1> DEFINE s == [i \in 1 .. 0 |-> 0]
<1>2. s \in [1 .. 0 -> Nat]
  OBVIOUS
<1> HIDE DEF s
<1>3. StandsFor(s, addrs, packets)
  BY <1>1, <1>2 DEF StandsFor
<1> QED
  BY <1>1, <1>3 DEF PortsInv, OrderInv

LEMMA NextFifo == OnePort /\ FifoInv /\ [Next]_vars => FifoInv'
<1> SUFFICES ASSUME OnePort, FifoInv, [Next]_vars PROVE PortsInv' /\ OrderInv'
  BY NextIInv DEF FifoInv
<1>1. IInv /\ QueueInv /\ PortsInv /\ OrderInv
  BY IInvSplit DEF FifoInv
<1>2. CASE Enqueue
  <2>1. PICK u \in Uplinks, cnt \in FCnts, gw \in Gateways, snr \in Signals :
          /\ Push(u.dev, u.port, cnt, u.mode, now + Delay[u.mode], gw, snr)
          /\ second' = IF u.mode = "JOIN"
                       THEN {[dev |-> u.dev, port |-> u.port, gw |-> gw,
                              snr |-> snr, due |-> now + JoinDelay2]}
                       ELSE {}
    BY <1>2 DEF Enqueue
  <2>2. u.mode \in Modes /\ now + Delay[u.mode] \in Nat
    BY <1>1, QueueAssumption DEF IInv, TypeOK
  <2>3. /\ OrderInv'
        /\ \A a \in DOMAIN packets' : \A x \in packets'[a] :
             \E v \in Uplinks : v.dev = a /\ v.port = x.port
    BY <1>1, <2>1, <2>2, PushOrder
  <2>4. \A w \in second' : \E v \in Uplinks : v.dev = w.dev /\ v.port = w.port
    BY <2>1
  <2> QED
    BY <2>3, <2>4 DEF PortsInv
<1>3. CASE EnqueueSecond
  <2>1. PICK w \in second, cnt \in FCnts :
          Push(w.dev, w.port, cnt, "JOIN", w.due, w.gw, w.snr)
    BY <1>3 DEF EnqueueSecond
  <2>2. PICK u \in Uplinks : u.dev = w.dev /\ u.port = w.port
    BY <1>1 DEF PortsInv
  <2>3. "JOIN" \in Modes /\ w.due \in Nat /\ w.gw \in Gateways /\ w.snr \in Signals
    BY <1>1, QueueAssumption DEF IInv, TypeOK
  <2>4. Push(u.dev, u.port, cnt, "JOIN", w.due, w.gw, w.snr)
    BY <2>1, <2>2
  <2>5. /\ OrderInv'
        /\ \A a \in DOMAIN packets' : \A x \in packets'[a] :
             \E v \in Uplinks : v.dev = a /\ v.port = x.port
    BY <1>1, <2>3, <2>4, PushOrder
  <2> QED
    BY <1>3, <2>5 DEF EnqueueSecond, PortsInv
<1>4. CASE Take
  <2>1. getFirstExpired /\ second' = second
    BY <1>4 DEF Take
  <2>2. OrderInv'
    BY <1>1, <2>1, TakeOrder
  <2>3. PICK s : StandsFor(s, addrs, packets)
    BY <1>1 DEF OrderInv
  <2>4. \A d \in DOMAIN packets' : d \in DOMAIN packets /\ packets'[d] \subseteq packets[d]
    BY <1>1, <2>1, <2>3, RestIsYounger
  <2> QED
    BY <1>1, <2>1, <2>2, <2>4 DEF PortsInv
<1>5. CASE Wake \/ Sleep \/ Tick \/ UNCHANGED vars
  <2>1. UNCHANGED <<packets, addrs, second>>
    BY <1>5 DEF Wake, Sleep, Tick, vars
  <2> QED
    BY <1>1, <2>1 DEF PortsInv, OrderInv
<1> QED
  BY <1>2, <1>3, <1>4, <1>5 DEF Next

\* getFirstExpired() answers the replies in the order in which push() stored
\* them, over all devices, each once: when no device is answered on two ports.
\* (Otherwise one entry of addrs takes several items away with it.)
THEOREM RepliesInOrder == OnePort => (Spec => Fifo)
<1> SUFFICES ASSUME OnePort PROVE Spec => Fifo
  OBVIOUS
<1>1. FifoInv /\ [Next]_vars => FifoInv'
  BY NextFifo
<1>2. ASSUME FifoInv, [Next]_vars, Take
      PROVE  \A x \in item' : \A a \in DOMAIN packets' : \A y \in packets'[a] : x.at < y.at
  <2>1. QueueInv /\ PortsInv /\ OrderInv /\ getFirstExpired
    BY <1>2, IInvSplit DEF FifoInv, Take
  <2>2. PICK s : StandsFor(s, addrs, packets)
    BY <2>1 DEF OrderInv
  <2>3. /\ item' = {First(packets[Head(addrs)])} /\ First(packets[Head(addrs)]).at = s[1]
        /\ 1 \in 1 .. Len(addrs)
    BY <2>1, <2>2, HeadIsOldest, RestIsYounger
  <2>4. ASSUME NEW a \in DOMAIN packets', NEW y \in packets'[a] PROVE s[1] < y.at
    <3>1. PICK i \in 2 .. Len(addrs) : s[i] = y.at
      BY <2>1, <2>2, RestIsYounger
    <3>2. i \in 1 .. Len(addrs) /\ 1 < i
      BY <2>1 DEF QueueInv, MapOK
    <3> QED
      BY <2>2, <2>3, <3>1, <3>2 DEF StandsFor
  <2> QED
    BY <2>3, <2>4
<1>3. FifoInv /\ [Next]_vars =>
        [Take => \A x \in item' : \A a \in DOMAIN packets' : \A y \in packets'[a] : x.at < y.at]_vars
  BY <1>2
<1> QED
  BY InitFifo, <1>1, <1>3, PTL DEF Spec, Fifo

\* Under the same condition no reply leaves the queue more than
\* TIME_LEAD_MICROSECONDS before its time: the item getFirstExpired() returns
\* is the one whose time it has looked at.
THEOREM RepliesNeverEarly == OnePort => (Spec => NeverEarly)
<1> SUFFICES ASSUME OnePort PROVE Spec => NeverEarly
  OBVIOUS
<1>1. FifoInv /\ [Next]_vars => FifoInv'
  BY NextFifo
<1>2. ASSUME FifoInv, [Next]_vars, Take PROVE \A x \in item' : Diff(t, x.due) <= Lead
  <2>1. QueueInv /\ PortsInv /\ OrderInv /\ getFirstExpired
    BY <1>2, IInvSplit DEF FifoInv, Take
  <2>2. PICK s : StandsFor(s, addrs, packets)
    BY <2>1 DEF OrderInv
  <2>3. item' = {First(packets[Head(addrs)])}
    BY <2>1, <2>2, RestIsYounger
  <2> QED
    BY <2>1, <2>3 DEF getFirstExpired, Expired
<1>3. FifoInv /\ [Next]_vars => [Take => \A x \in item' : Diff(t, x.due) <= Lead]_vars
  BY <1>2
<1> QED
  BY InitFifo, <1>1, <1>3, PTL DEF Spec, NeverEarly
=============================================================================
