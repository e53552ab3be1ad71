---------------------------- MODULE FormatProofs ----------------------------
(***************************************************************************)
(* Proofs about formats that one piece of code writes and another reads:   *)
(* addresses of devices, for all 32-bit words, whatever memory held before *)
(* and any number of moves; the metadata of a reception and of the reply   *)
(* to it, for all frequencies, counters of the gateway and their widths;   *)
(* frames of any length, with any options; the settings of a USB gateway,  *)
(* for files with any numbers in them.                                     *)
(***************************************************************************)
EXTENDS DevAddr, RadioMetadata, FrameExchange, GatewayConfig, OrderLemmas

(***************************************************************************)
(* The address of type t with w bits of number: the prefix, the network    *)
(* identifier and the number, and no other bit.                            *)
(***************************************************************************)
Width(minor, t) == NwkAddrBits(minor)[t + 1]
Word(t, w, id, addr) == ((32 - t) .. 31) \cup {b + w : b \in id} \cup addr

\* In the layouts of the sound types the getters and the setters agree where
\* the number ends and the network identifier begins.
LEMMA SoundLayout ==
  ASSUME NEW minor \in {0, 1}, NEW t \in SoundTypes(minor)
  PROVE  /\ t \in 0 .. 7 /\ Width(minor, t) \in 7 .. 25 /\ Width(minor, t) <= 30 - t
         /\ NwkIdBits(minor)[t + 1] = 31 - t - Width(minor, t)
         /\ ClearFrom(minor)[t + 1] = Width(minor, t)
         /\ NwkIdShift[t + 1] = Width(minor, t)
         /\ ~(t = 4 /\ minor = 1)
<1>1. CASE minor = 1
  <2>1. t \in {0, 1, 2, 6, 7}
    BY <1>1 DEF SoundTypes
  <2> QED
    BY <1>1, <2>1 DEF Width, NwkIdBits, NwkAddrBits, ClearFrom, NwkIdShift
<1>2. CASE minor = 0
  <2>1. t \in {0, 1, 2, 3, 4, 6, 7}
    BY <1>2 DEF SoundTypes, DaTypes
  <2> QED
    BY <1>2, <2>1 DEF Width, NwkIdBits, NwkAddrBits, ClearFrom, NwkIdShift
<1> QED
  BY <1>1, <1>2

\* The leading ones tell the type.
LEMMA TypeIs ==
  ASSUME NEW a, NEW t \in 0 .. 7, 31 - t \notin a, \A b \in (32 - t) .. 31 : b \in a
  PROVE  getNetIdType(a) = t
<1> DEFINE P(u) == 31 - u \notin a /\ \A b \in (32 - u) .. 31 : b \in a
<1>1. ~((24 .. 31) \subseteq a)
  BY 31 - t \in 24 .. 31
<1>2. \A u \in 0 .. 7 : P(u) => u = t
  <2> SUFFICES ASSUME NEW u \in 0 .. 7, P(u) PROVE u = t
    OBVIOUS
  <2>1. ~(u < t)
    <3>1. u < t => 31 - u \in (32 - t) .. 31
      OBVIOUS
    <3> QED
      BY <3>1
  <2>2. ~(t < u)
    <3>1. t < u => 31 - t \in (32 - u) .. 31
      OBVIOUS
    <3> QED
      BY <3>1
  <2> QED
    BY <2>1, <2>2
<1>3. P(t)
  OBVIOUS
<1>4. getNetIdType(a) = CHOOSE u \in 0 .. 7 : P(u)
  BY <1>1 DEF getNetIdType, DaTypes
<1> HIDE DEF P
<1> QED
  BY <1>2, <1>3, <1>4

\* What the getters read from such a word.
LEMMA WordReads ==
  ASSUME NEW t \in 0 .. 7, NEW w \in 7 .. 25, w <= 30 - t,
         NEW id \in SUBSET (0 .. 30 - t - w), NEW addr \in SUBSET (0 .. w - 1)
  PROVE  /\ getNetIdType(Word(t, w, id, addr)) = t
         /\ Slice(Word(t, w, id, addr), w, 30 - t) = id
         /\ Slice(Word(t, w, id, addr), 0, w - 1) = addr
<1> DEFINE a == Word(t, w, id, addr)
<1>1. \A b : b \in a <=> b \in (32 - t) .. 31 \/ (\E c \in id : b = c + w) \/ b \in addr
  BY DEF Word
<1> HIDE DEF a
<1>2. getNetIdType(a) = t
  <2>1. 31 - t \notin a
    BY <1>1
  <2>2. \A b \in (32 - t) .. 31 : b \in a
    BY <1>1
  <2> QED
    BY <2>1, <2>2, TypeIs
<1>3. Slice(a, w, 30 - t) = id
  <2>1. \A c \in id : c + w \in a \cap (w .. 30 - t) /\ (c + w) - w = c
    BY <1>1
  <2>2. \A b \in a \cap (w .. 30 - t) : b - w \in id
    BY <1>1
  <2>3. id \subseteq Slice(a, w, 30 - t)
    BY <2>1 DEF Slice
  <2> QED
    BY <2>2, <2>3 DEF Slice
<1>4. Slice(a, 0, w - 1) = addr
  <2>1. \A c \in addr : c \in a \cap (0 .. w - 1) /\ c - 0 = c
    BY <1>1
  <2>2. \A b \in a \cap (0 .. w - 1) : b - 0 \in addr
    BY <1>1
  <2>3. addr \subseteq Slice(a, 0, w - 1)
    BY <2>1 DEF Slice
  <2> QED
    BY <2>2, <2>3 DEF Slice
<1> QED
  BY <1>2, <1>3, <1>4 DEF a

\* The setters one after the other leave no bit of what the memory held.
LEMMA WordMade ==
  ASSUME NEW t \in 0 .. 7, NEW w \in 7 .. 25, w <= 30 - t, NEW stale \in SUBSET (0 .. 31),
         NEW id \in SUBSET (0 .. 30 - t - w), NEW addr \in SUBSET (0 .. w - 1)
  PROVE  WithBits((setNetIdType(stale, t) \ (w .. (30 - t))) \cup ShiftLeft(id, w), w, addr)
           = Word(t, w, id, addr)
<1> DEFINE typed == setNetIdType(stale, t)
           shifted == ShiftLeft(id, w)
           a == (typed \ (w .. (30 - t))) \cup shifted
<1>1. \A b : b \in typed <=> (b \in stale /\ b < 31 - t) \/ b \in (32 - t) .. 31
  BY DEF setNetIdType
<1>2. \A b : b \in shifted <=> \E c \in id : b = c + w
  BY DEF ShiftLeft
<1> HIDE DEF typed, shifted
<1>3. \A b \in shifted : b \in w .. 30 - t
  BY <1>2
<1>4. \A b \in a : b >= w <=> b \in (32 - t) .. 31 \/ b \in shifted
  <2> SUFFICES ASSUME NEW b \in a PROVE b >= w <=> b \in (32 - t) .. 31 \/ b \in shifted
    OBVIOUS
  <2>1. b \in shifted \/ (b \in typed /\ b \notin w .. 30 - t)
    OBVIOUS
  <2>2. CASE b \in shifted
    BY <1>3, <2>2
  <2>3. CASE b \in stale /\ b < 31 - t /\ b \notin w .. 30 - t /\ b \notin shifted
    <3>1. b \in Int /\ b < 31 - t /\ b \notin w .. 30 - t
      BY <2>3
    <3>2. ~(b >= w) /\ b \notin (32 - t) .. 31
      BY <3>1
    <3> QED
      BY <2>3, <3>2
  <2>4. CASE b \in (32 - t) .. 31
    BY <2>4
  <2> QED
    BY <1>1, <2>1, <2>2, <2>3, <2>4
<1>5. \A b : b \in (32 - t) .. 31 \/ b \in shifted => b \in a
  BY <1>1
<1> DEFINE kept == {b \in a : b >= w}
           prefix == (32 - t) .. 31
           moved == {c + w : c \in id}
<1>6. /\ \A b : b \in kept <=> b \in prefix \/ b \in shifted
      /\ \A b : b \in moved <=> b \in shifted
  BY <1>2, <1>4, <1>5, <1>3
<1>7. kept = prefix \cup moved
  <2> HIDE DEF kept, prefix, moved
  <2> QED
    BY <1>6
<1> QED
  BY <1>7 DEF WithBits, Word, typed, shifted

\* A new number replaces the old one and nothing else.
LEMMA WordMoved ==
  ASSUME NEW t \in 0 .. 7, NEW w \in 7 .. 25, w <= 30 - t,
         NEW id \in SUBSET (0 .. 30 - t - w), NEW addr \in SUBSET (0 .. w - 1), NEW n
  PROVE  WithBits(Word(t, w, id, addr), w, n) = Word(t, w, id, n)
<1> DEFINE a == Word(t, w, id, addr)
<1>1. \A b : b \in a <=> b \in (32 - t) .. 31 \/ (\E c \in id : b = c + w) \/ b \in addr
  BY DEF Word
<1> HIDE DEF a
<1> DEFINE kept == {b \in a : b >= w}
           prefix == (32 - t) .. 31
           moved == {c + w : c \in id}
<1>2. /\ \A b : b \in kept <=> b \in a /\ b >= w
      /\ \A b : b \in moved <=> \E c \in id : b = c + w
      /\ \A b \in moved : b \in Int /\ b >= w
      /\ \A b \in prefix : b \in Int /\ b >= w
      /\ \A b \in addr : b \in Int /\ ~(b >= w)
  OBVIOUS
<1>3. kept = prefix \cup moved
  <2> HIDE DEF kept, moved
  <2> QED
    BY <1>1, <1>2
<1> QED
  BY <1>3 DEF WithBits, Word, a

(***************************************************************************)
(* The carry.                                                              *)
(***************************************************************************)
LEMMA PlusOneCarry ==
  ASSUME NEW v \in SUBSET (0 .. 31), v # 0 .. 31
  PROVE  \E z \in (0 .. 31) \ v : /\ \A y \in 0 .. 31 : y < z => y \in v
                                 /\ PlusOne(v) = {z} \cup {b \in v : b > z}
<1> DEFINE zeros == (0 .. 31) \ v
           z == CHOOSE x \in zeros : \A y \in zeros : x <= y
<1>1. zeros # {} /\ zeros \subseteq Nat
  <2> DEFINE all == 0 .. 31
  <2>1. v \subseteq all /\ v # all /\ all \subseteq Nat
    OBVIOUS
  <2> HIDE DEF all
  <2>2. all \ v # {} /\ all \ v \subseteq Nat
    BY <2>1
  <2> QED
    BY <2>2 DEF all
<1>2. \E x \in zeros : \A y \in zeros : x <= y
  <2> HIDE DEF zeros
  <2> QED
    BY <1>1, LeastNat
<1>3. z \in zeros /\ \A y \in zeros : z <= y
  <2> HIDE DEF zeros
  <2> QED
    BY <1>2
<1>4. PlusOne(v) = {z} \cup {b \in v : b > z}
  BY <1>1 DEF PlusOne
<1> HIDE DEF z
<1>5. \A y \in 0 .. 31 : y < z => y \in v
  BY <1>3
<1> QED
  BY <1>3, <1>4, <1>5

\* The number after the last number of w bits, and only that one, needs more
\* than w bits.
LEMMA IncrementFits ==
  ASSUME NEW w \in 7 .. 25, NEW v \in SUBSET (0 .. w - 1)
  PROVE  /\ PlusOne(v) \subseteq 0 .. 31
         /\ ~Fits(PlusOne(v), w) => v = 0 .. w - 1
<1>1. v \in SUBSET (0 .. 31) /\ v # 0 .. 31
  BY 31 \notin v
<1>2. PICK z \in (0 .. 31) \ v : /\ \A y \in 0 .. 31 : y < z => y \in v
                                 /\ PlusOne(v) = {z} \cup {b \in v : b > z}
  BY <1>1, PlusOneCarry
<1> DEFINE next == PlusOne(v)
<1> HIDE DEF next
<1>0. \A b \in next : b = z \/ b \in v
  BY <1>2 DEF next
<1>3. next \subseteq 0 .. 31
  BY <1>0, <1>1, <1>2
<1>4. ASSUME ~Fits(next, w) PROVE v = 0 .. w - 1
  <2>1. ~(z < w)
    <3>1. PICK b \in next : ~(b < w)
      BY <1>4 DEF Fits
    <3>2. \A c \in v : c < w
      OBVIOUS
    <3> QED
      BY <1>0, <3>1, <3>2
  <2>2. \A y \in 0 .. w - 1 : y \in v
    BY <1>2, <2>1
  <2> QED
    BY <2>2
<1> QED
  BY <1>3, <1>4 DEF next

\* The number before 0, and only that one, needs more than w bits.
LEMMA DecrementFits ==
  ASSUME NEW w \in 7 .. 25, NEW v \in SUBSET (0 .. w - 1)
  PROVE  /\ MinusOne(v) \subseteq 0 .. 31
         /\ ~Fits(MinusOne(v), w) => v = {}
<1>1. MinusOne(v) \subseteq 0 .. 31
  BY DEF MinusOne
<1>2. ASSUME v # {} PROVE Fits(MinusOne(v), w)
  <2> DEFINE u == (0 .. 31) \ v
  <2>1. u \in SUBSET (0 .. 31) /\ u # 0 .. 31
    <3>1. PICK b \in v : TRUE
      BY <1>2
    <3>2. b \in 0 .. 31 /\ b \notin u
      BY <3>1
    <3> QED
      BY <3>2
  <2>2. \A b \in 0 .. 31 : b \in u <=> b \notin v
    OBVIOUS
  <2>3. MinusOne(v) = (0 .. 31) \ PlusOne(u)
    BY DEF MinusOne
  <2> HIDE DEF u
  <2>4. PICK z \in (0 .. 31) \ u : /\ \A y \in 0 .. 31 : y < z => y \in u
                                   /\ PlusOne(u) = {z} \cup {b \in u : b > z}
    BY <2>1, PlusOneCarry
  <2>5. z \in v
    BY <2>2, <2>4
  <2>6. ASSUME NEW b \in MinusOne(v) PROVE b < w
    <3>1. b \in 0 .. 31 /\ b # z /\ ~(b \in u /\ b > z)
      BY <2>3, <2>4, <2>6
    <3>2. CASE b < z
      BY <2>5, <3>1, <3>2
    <3>3. CASE b \in v
      BY <3>3
    <3> QED
      BY <2>2, <2>5, <3>1, <3>2, <3>3
  <2> QED
    BY <2>6 DEF Fits
<1> QED
  BY <1>1, <1>2

(***************************************************************************)
(* The invariant: an address of a sound type is the word of what it was    *)
(* asked for, and nothing else.                                            *)
(***************************************************************************)
AddressInv ==
    LET t == daAsked.type
        w == Width(daMinor, t)
    IN t \in SoundTypes(daMinor) =>
         /\ daAsked.id \subseteq 0 .. 30 - t - w
         /\ daAsked.addr \subseteq 0 .. w - 1
         /\ devaddr = Word(t, w, daAsked.id, daAsked.addr)

DaInv ==
    /\ daMinor \in {0, 1} /\ daMoves \in Nat
    /\ netid \subseteq Nat
    /\ daMoves = 0 => devaddr \subseteq 0 .. 31
    /\ \E t, id, addr : daAsked = [type |-> t, id |-> id, addr |-> addr]
    /\ AddressInv

\* The getters give back what was asked for.
LEMMA AddressReads ==
  ASSUME DaInv, daAsked.type \in SoundTypes(daMinor)
  PROVE  ReadsBack
<1> DEFINE t == daAsked.type
           w == Width(daMinor, t)
           id == daAsked.id
           addr == daAsked.addr
<1>1. /\ daMinor \in {0, 1} /\ t \in SoundTypes(daMinor)
      /\ id \in SUBSET (0 .. 30 - t - w) /\ addr \in SUBSET (0 .. w - 1)
      /\ devaddr = Word(t, w, id, addr)
  BY DEF DaInv, AddressInv
<1> HIDE DEF id, addr, t
<1>2. /\ t \in 0 .. 7 /\ w \in 7 .. 25 /\ w <= 30 - t
      /\ NwkIdBits(daMinor)[t + 1] = 31 - t - w /\ ~(t = 4 /\ daMinor = 1)
  BY <1>1, SoundLayout
<1>3. NwkAddrBits(daMinor)[t + 1] = w
  BY DEF Width
<1> HIDE DEF w
<1>4. /\ getNetIdType(devaddr) = t /\ Slice(devaddr, w, 30 - t) = id
      /\ Slice(devaddr, 0, w - 1) = addr
  BY <1>1, <1>2, WordReads
<1>5. 31 - t - (31 - t - w) = w /\ t # 8
  BY <1>2
<1>6. getNwkId(daMinor, devaddr) = id
  BY <1>2, <1>4, <1>5 DEF getNwkId
<1>7. getNwkAddr(daMinor, devaddr) = addr
  BY <1>3, <1>4, <1>5 DEF getNwkAddr
<1> QED
  BY <1>4, <1>6, <1>7 DEF ReadsBack, t, id, addr

\* A number is refused with the address unchanged or replaces the old one.
LEMMA NumberSet ==
  ASSUME NEW minor \in {0, 1}, NEW t \in SoundTypes(minor), NEW a, NEW v
  PROVE  setNwkAddr(minor, a, t, v) =
           IF Fits(v, Width(minor, t)) THEN Done(WithBits(a, Width(minor, t), v)) ELSE Refused(a)
<1>1. t # 8 /\ ClearFrom(minor)[t + 1] = Width(minor, t)
  BY SoundLayout
<1> QED
  BY <1>1 DEF setNwkAddr, Width

LEMMA ConstructInv ==
  ASSUME DaInv, NEW t, NEW id, NEW addr, Construct(t, id, addr),
         t \in SoundTypes(daMinor) => id \subseteq Nat /\ addr \subseteq Nat
  PROVE  DaInv'
<1> DEFINE r == setParts(daMinor, devaddr, t, id, addr)
<1>1. /\ daMoves = 0 /\ daMoves' = 1 /\ devaddr' = r.word /\ UNCHANGED <<daMinor, netid>>
      /\ daAsked' = IF r.err THEN NoAddress ELSE [type |-> t, id |-> id, addr |-> addr]
  BY DEF Construct
<1>2. daMinor \in {0, 1} /\ netid \subseteq Nat /\ devaddr \in SUBSET (0 .. 31)
  BY <1>1 DEF DaInv
<1> HIDE DEF r
<1>3. \E u, i, n : daAsked' = [type |-> u, id |-> i, addr |-> n]
  BY <1>1 DEF NoAddress
<1>4. AddressInv'
  <2> SUFFICES ASSUME daAsked'.type \in SoundTypes(daMinor)
               PROVE  /\ daAsked' = [type |-> t, id |-> id, addr |-> addr]
                      /\ id \subseteq 0 .. 30 - t - Width(daMinor, t)
                      /\ addr \subseteq 0 .. Width(daMinor, t) - 1
                      /\ devaddr' = Word(t, Width(daMinor, t), id, addr)
    BY <1>1 DEF AddressInv
  <2>1. ~r.err
    <3>1. NoAddress.type = 8 /\ 8 \notin SoundTypes(daMinor)
      BY <1>2, SoundLayout DEF NoAddress
    <3> QED
      BY <1>1, <3>1
  <2>2. daAsked' = [type |-> t, id |-> id, addr |-> addr]
    BY <1>1, <2>1
  <2>3. t \in SoundTypes(daMinor)
    BY <2>2
  <2> DEFINE w == Width(daMinor, t)
             typed == setNetIdType(devaddr, t)
             i == setNwkId(daMinor, typed, t, id)
             named == (typed \ (w .. (30 - t))) \cup ShiftLeft(id, w)
  <2>4. /\ t \in 0 .. 7 /\ w \in 7 .. 25 /\ w <= 30 - t
        /\ NwkIdBits(daMinor)[t + 1] = 31 - t - w
        /\ ClearFrom(daMinor)[t + 1] = w /\ NwkIdShift[t + 1] = w
    BY <1>2, <2>3, SoundLayout
  <2>5. i = IF Fits(id, 31 - t - w) THEN Done(named) ELSE Refused(typed)
    BY <2>4 DEF setNwkId
  <2>6. r = IF i.err THEN i ELSE setNwkAddr(daMinor, i.word, t, addr)
    BY <2>4 DEF setParts, r
  <2> HIDE DEF i
  <2>7. Fits(id, 31 - t - w) /\ i = Done(named)
    <3> HIDE DEF named, typed
    <3> QED
      BY <2>1, <2>5, <2>6 DEF Refused
  <2>8. r = setNwkAddr(daMinor, named, t, addr)
    <3> HIDE DEF named
    <3>1. i.err = FALSE /\ i.word = named
      BY <2>7 DEF Done
    <3> QED
      BY <2>6, <3>1
  <2>9. Fits(addr, w) /\ r.word = WithBits(named, w, addr)
    <3> HIDE DEF named
    <3>1. r = IF Fits(addr, w) THEN Done(WithBits(named, w, addr)) ELSE Refused(named)
      BY <1>2, <2>3, <2>8, NumberSet
    <3>2. Fits(addr, w)
      BY <2>1, <3>1 DEF Refused
    <3> QED
      BY <3>1, <3>2 DEF Done
  <2>10. id \subseteq 0 .. 30 - t - w /\ addr \subseteq 0 .. w - 1
    <3> HIDE DEF w
    <3>1. id \subseteq Nat /\ addr \subseteq Nat
      BY <2>3
    <3>2. \A b \in id : b < 31 - t - w
      BY <2>7 DEF Fits
    <3>3. \A b \in addr : b < w
      BY <2>9 DEF Fits
    <3> QED
      BY <2>4, <3>1, <3>2, <3>3
  <2>11. devaddr' = Word(t, w, id, addr)
    BY <1>1, <1>2, <2>4, <2>9, <2>10, WordMade, ZenonT(30)
  <2> QED
    BY <2>2, <2>10, <2>11
<1>5. daMinor' \in {0, 1} /\ daMoves' \in Nat /\ daMoves' # 0 /\ netid' \subseteq Nat
  BY <1>1, <1>2
<1> QED
  BY <1>3, <1>4, <1>5 DEF DaInv

\* A move of an address of a sound type: refused, or a new number.
LEMMA MoveOf ==
  ASSUME DaInv, daAsked.type \in SoundTypes(daMinor), NEW number \in SUBSET (0 .. 31), Move(number)
  PROVE  LET w == Width(daMinor, daAsked.type)
         IN \/ /\ ~Fits(number, w) /\ daErr' = TRUE
               /\ devaddr' = devaddr /\ daAsked' = daAsked
            \/ /\ number \subseteq 0 .. w - 1 /\ daErr' = FALSE
               /\ devaddr' = Word(daAsked.type, w, daAsked.id, number)
               /\ daAsked' = [daAsked EXCEPT !.addr = number]
<1> DEFINE t == daAsked.type
           w == Width(daMinor, t)
           r == setAddr(daMinor, devaddr, number)
<1>1. /\ devaddr' = r.word /\ daErr' = r.err
      /\ daAsked' = IF r.err \/ daAsked = NoAddress THEN daAsked ELSE [daAsked EXCEPT !.addr = number]
  BY DEF Move
<1>2. daMinor \in {0, 1} /\ t \in SoundTypes(daMinor)
  BY DEF DaInv
<1>3. t \in 0 .. 7 /\ w \in 7 .. 25 /\ w <= 30 - t
  BY <1>2, SoundLayout
<1>4. daAsked # NoAddress
  BY <1>3 DEF NoAddress
<1>5. getNetIdType(devaddr) = t
  BY AddressReads DEF ReadsBack
<1>6. r = setNwkAddr(daMinor, devaddr, t, number)
  BY <1>5 DEF setAddr
<1>7. r = IF Fits(number, w) THEN Done(WithBits(devaddr, w, number)) ELSE Refused(devaddr)
  <2> HIDE DEF r, w, t
  <2>1. w = Width(daMinor, t)
    BY DEF w
  <2> QED
    BY <1>2, <1>6, <2>1, NumberSet
<1> HIDE DEF r
<1>8. CASE ~Fits(number, w)
  <2> HIDE DEF w
  <2>1. r.word = devaddr /\ r.err = TRUE
    BY <1>7, <1>8 DEF Refused
  <2> QED
    BY <1>1, <1>8, <2>1 DEF w
<1>9. CASE Fits(number, w)
  <2>1. r.word = WithBits(devaddr, w, number) /\ r.err = FALSE
    <3> HIDE DEF w
    <3> QED
      BY <1>7, <1>9 DEF Done
  <2>2. WithBits(devaddr, w, number) = Word(t, w, daAsked.id, number)
    <3>1. /\ daAsked.id \in SUBSET (0 .. 30 - t - w) /\ daAsked.addr \in SUBSET (0 .. w - 1)
          /\ devaddr = Word(t, w, daAsked.id, daAsked.addr)
      BY <1>2 DEF DaInv, AddressInv
    <3> QED
      BY <1>3, <3>1, WordMoved
  <2>3. number \subseteq 0 .. w - 1
    <3> HIDE DEF w
    <3> QED
      BY <1>3, <1>9 DEF Fits
  <2>4. daErr' = FALSE /\ daAsked' = [daAsked EXCEPT !.addr = number]
    BY <1>1, <1>4, <2>1
  <2> QED
    BY <1>1, <2>1, <2>2, <2>3, <2>4
<1> QED
  BY <1>8, <1>9

LEMMA MoveInv ==
  ASSUME DaInv, NEW number, Move(number),
         daAsked.type \in SoundTypes(daMinor) => number \in SUBSET (0 .. 31)
  PROVE  DaInv'
<1>1. /\ UNCHANGED <<daMinor, netid>> /\ daMoves' \in Nat /\ daMoves' # 0
      /\ daAsked' = daAsked \/ daAsked' = [daAsked EXCEPT !.addr = number]
  <2>1. daMoves \in Nat /\ daMoves' = daMoves + 1 /\ UNCHANGED <<daMinor, netid>>
    BY DEF DaInv, Move
  <2>2. daAsked' = daAsked \/ daAsked' = [daAsked EXCEPT !.addr = number]
    BY DEF Move
  <2> QED
    BY <2>1, <2>2
<1>2. PICK t, id, addr : daAsked = [type |-> t, id |-> id, addr |-> addr]
  BY DEF DaInv
<1>3. \/ daAsked' = [type |-> t, id |-> id, addr |-> addr]
      \/ daAsked' = [type |-> t, id |-> id, addr |-> number]
  BY <1>1, <1>2
<1>4. AddressInv'
  <2> SUFFICES ASSUME daAsked'.type \in SoundTypes(daMinor) PROVE AddressInv'
    BY <1>1 DEF AddressInv
  <2> DEFINE w == Width(daMinor, t)
  <2>1. daAsked.type = t /\ daAsked.id = id /\ daAsked.addr = addr /\ t \in SoundTypes(daMinor)
    BY <1>2, <1>3
  <2> HIDE DEF w
  <2>2. \/ devaddr' = devaddr /\ daAsked' = daAsked
        \/ /\ number \subseteq 0 .. w - 1 /\ devaddr' = Word(t, w, id, number)
           /\ daAsked' = [daAsked EXCEPT !.addr = number]
    BY <2>1, MoveOf DEF w
  <2>3. CASE devaddr' = devaddr /\ daAsked' = daAsked
    BY <1>1, <2>3 DEF DaInv, AddressInv
  <2>4. CASE /\ number \subseteq 0 .. w - 1 /\ devaddr' = Word(t, w, id, number)
             /\ daAsked' = [daAsked EXCEPT !.addr = number]
    <3>1. daAsked'.type = t /\ daAsked'.id = id /\ daAsked'.addr = number
      BY <1>2, <2>4
    <3>2. id \subseteq 0 .. 30 - t - w
      BY <2>1 DEF DaInv, AddressInv, w
    <3> QED
      BY <1>1, <2>4, <3>1, <3>2 DEF AddressInv, w
  <2> QED
    BY <2>2, <2>3, <2>4
<1>5. \E u, i, n : daAsked' = [type |-> u, id |-> i, addr |-> n]
  BY <1>3
<1> QED
  BY <1>1, <1>4, <1>5 DEF DaInv

LEMMA MovedNumber ==
  ASSUME DaInv, daAsked.type \in SoundTypes(daMinor)
  PROVE  LET v == getNwkAddr(daMinor, devaddr)
             w == Width(daMinor, daAsked.type)
         IN /\ v = daAsked.addr /\ w = NwkAddrBits(daMinor)[daAsked.type + 1]
            /\ PlusOne(v) \in SUBSET (0 .. 31) /\ (~Fits(PlusOne(v), w) => v = 0 .. w - 1)
            /\ MinusOne(v) \in SUBSET (0 .. 31) /\ (~Fits(MinusOne(v), w) => v = {})
<1> DEFINE v == getNwkAddr(daMinor, devaddr)
           w == Width(daMinor, daAsked.type)
<1>1. v = daAsked.addr
  BY AddressReads DEF ReadsBack
<1>2. v \in SUBSET (0 .. w - 1)
  BY <1>1 DEF DaInv, AddressInv
<1>3. w \in 7 .. 25
  BY SoundLayout DEF DaInv
<1>4. w = NwkAddrBits(daMinor)[daAsked.type + 1]
  BY DEF Width
<1> HIDE DEF v, w
<1>5. /\ PlusOne(v) \in SUBSET (0 .. 31) /\ (~Fits(PlusOne(v), w) => v = 0 .. w - 1)
      /\ MinusOne(v) \in SUBSET (0 .. 31) /\ (~Fits(MinusOne(v), w) => v = {})
  BY <1>2, <1>3, IncrementFits, DecrementFits
<1> QED
  BY <1>1, <1>4, <1>5 DEF v, w

LEMMA DaInitInv == DaInit => DaInv
<1> SUFFICES ASSUME DaInit PROVE DaInv
  OBVIOUS
<1>1. daMinor \in {0, 1} /\ daMoves \in Nat /\ netid \subseteq Nat /\ devaddr \subseteq 0 .. 31
  BY DaAssumption DEF DaInit
<1>2. daAsked = [type |-> 8, id |-> {}, addr |-> {}]
  BY DEF DaInit, NoAddress
<1>3. 8 \notin SoundTypes(daMinor)
  BY <1>1, SoundLayout
<1>4. AddressInv
  BY <1>2, <1>3 DEF AddressInv
<1>5. \E t, id, addr : daAsked = [type |-> t, id |-> id, addr |-> addr]
  BY <1>2
<1> QED
  BY <1>1, <1>4, <1>5 DEF DaInv

\* The network identifier of a NetId, and the bits of its type, are numbers of
\* bits.
LEMMA NetIdInv ==
  ASSUME DaInv, netid' \subseteq Nat, UNCHANGED <<daMinor, devaddr, daAsked, daMoves>>
  PROVE  DaInv'
<1>1. AddressInv'
  BY DEF DaInv, AddressInv
<1> QED
  BY <1>1 DEF DaInv

LEMMA DaNextInv == DaInv /\ [DaNext]_daVars => DaInv'
<1> SUFFICES ASSUME DaInv, [DaNext]_daVars PROVE DaInv'
  OBVIOUS
<1>0. /\ daMinor \in {0, 1} /\ netid \subseteq Nat
      /\ \A x \in DaWords : x \subseteq 0 .. 31 /\ x \subseteq Nat
  BY DaAssumption DEF DaInv
<1>1. ASSUME NEW x \in DaWords, SetNetIdValue(x) PROVE DaInv'
  <2>1. netid' \subseteq Nat /\ UNCHANGED <<daMinor, devaddr, daAsked, daMoves>>
    BY <1>0, <1>1 DEF SetNetIdValue
  <2> QED
    BY <2>1, NetIdInv
<1>2. ASSUME NEW t \in 0 .. 8, NEW x \in DaWords, SetNetIdParts(t, x) PROVE DaInv'
  <2> DEFINE r == setNetId(netid, t, x)
             made == {b \in x : b < 21} \cup TypeBits(t)
  <2>1. netid' = r.word /\ UNCHANGED <<daMinor, devaddr, daAsked, daMoves>>
    BY <1>2 DEF SetNetIdParts
  <2>2. r = Refused(netid) \/ r = Done(made)
    BY DEF setNetId
  <2>3. made \subseteq Nat
    BY <1>0 DEF TypeBits
  <2> HIDE DEF r, made
  <2>4. r.word = netid \/ r.word = made
    BY <2>2 DEF Refused, Done
  <2>5. netid' \subseteq Nat
    BY <1>0, <2>1, <2>3, <2>4
  <2> QED
    BY <2>1, <2>5, NetIdInv
<1>3. ASSUME NEW t \in 0 .. 8, NEW id \in DaWords, NEW addr \in DaWords, Construct(t, id, addr)
      PROVE  DaInv'
  BY <1>0, <1>3, ConstructInv
<1>4. NetIdNwkId(netid) \subseteq Nat
  <2>1. \A b \in netid : b - 0 \in Nat
    BY <1>0
  <2> QED
    BY <2>1 DEF NetIdNwkId, Slice
<1>5. ASSUME NEW addr \in DaWords, ConstructInNet(addr) PROVE DaInv'
  BY <1>0, <1>4, <1>5, ConstructInv DEF ConstructInNet
<1>6. ASSUME NEW m \in BOOLEAN, ConstructBound(m) PROVE DaInv'
  <2> DEFINE t == NetIdType(netid)
             addr == IF m THEN getMaxNwkAddr(daMinor, t) ELSE {}
  <2>1. Construct(t, NetIdNwkId(netid), addr)
    BY <1>6 DEF ConstructBound, ConstructInNet
  <2>2. ASSUME t \in SoundTypes(daMinor) PROVE addr \subseteq Nat
    <3> HIDE DEF t
    <3>1. NwkAddrBits(daMinor)[t + 1] \in 7 .. 25
      BY <1>0, <2>2, SoundLayout DEF Width
    <3>2. getMaxNwkAddr(daMinor, t) \subseteq Nat
      BY <3>1 DEF getMaxNwkAddr
    <3> QED
      BY <3>2
  <2> HIDE DEF t, addr
  <2> QED
    BY <1>4, <2>1, <2>2, ConstructInv
<1>7. CASE Increment
  <2>1. daAsked.type \in SoundTypes(daMinor) =>
          PlusOne(getNwkAddr(daMinor, devaddr)) \in SUBSET (0 .. 31)
    BY MovedNumber
  <2> QED
    BY <1>7, <2>1, MoveInv DEF Increment
<1>8. CASE Decrement
  <2>1. daAsked.type \in SoundTypes(daMinor) =>
          MinusOne(getNwkAddr(daMinor, devaddr)) \in SUBSET (0 .. 31)
    BY MovedNumber
  <2> QED
    BY <1>8, <2>1, MoveInv DEF Decrement
<1>9. CASE UNCHANGED daVars
  <2>1. netid' \subseteq Nat /\ UNCHANGED <<daMinor, devaddr, daAsked, daMoves>>
    BY <1>0, <1>9 DEF daVars
  <2> QED
    BY <2>1, NetIdInv
<1> QED
  BY <1>1, <1>2, <1>3, <1>5, <1>6, <1>7, <1>8, <1>9 DEF DaNext

LEMMA DaAlways == DaSpec => []DaInv
  BY DaInitInv, DaNextInv, PTL DEF DaSpec

(***************************************************************************)
(* For all words, all values of stale memory and any number of increments  *)
(* and decrements: an address that DevAddr::set() accepted reads back as   *)
(* the type, the network identifier and the number it was made of, in the  *)
(* layouts and types where the masks of the setters fit the getters.       *)
(***************************************************************************)
THEOREM AddressReadsBack == DaSpec => []NetworkReadBack
<1>1. DaInv => NetworkReadBack
  BY AddressReads DEF NetworkReadBack
<1> QED
  BY <1>1, DaAlways, PTL

(***************************************************************************)
(* increment() and decrement() keep the network identifier of such an      *)
(* address, and are refused, without a change, only where the carry would  *)
(* leave the number: at its last and its first value.                      *)
(***************************************************************************)
THEOREM MovesStayInNetwork == DaSpec => MoveStaysInNetwork
<1> DEFINE Act == (Increment \/ Decrement) /\ ~daErr /\ daAsked.type \in SoundTypes(daMinor)
                    => /\ getNwkId(daMinor, devaddr') = getNwkId(daMinor, devaddr)
                       /\ daErr' => /\ devaddr' = devaddr
                                    /\ daAsked.addr \in {{}, getMaxNwkAddr(daMinor, daAsked.type)}
<1>1. ASSUME DaInv, DaInv' PROVE Act
  <2> SUFFICES ASSUME Increment \/ Decrement, daAsked.type \in SoundTypes(daMinor)
               PROVE  /\ getNwkId(daMinor, devaddr') = getNwkId(daMinor, devaddr)
                      /\ daErr' => /\ devaddr' = devaddr
                                   /\ daAsked.addr \in {{}, getMaxNwkAddr(daMinor, daAsked.type)}
    OBVIOUS
  <2> DEFINE v == getNwkAddr(daMinor, devaddr)
             w == Width(daMinor, daAsked.type)
  <2>1. /\ v = daAsked.addr /\ w = NwkAddrBits(daMinor)[daAsked.type + 1]
        /\ PlusOne(v) \in SUBSET (0 .. 31) /\ (~Fits(PlusOne(v), w) => v = 0 .. w - 1)
        /\ MinusOne(v) \in SUBSET (0 .. 31) /\ (~Fits(MinusOne(v), w) => v = {})
    BY <1>1, MovedNumber
  <2>2. PICK number \in {PlusOne(v), MinusOne(v)} : Move(number)
    BY DEF Increment, Decrement
  <2> HIDE DEF v, w
  <2>3. number \in SUBSET (0 .. 31) /\ (~Fits(number, w) => v = {} \/ v = 0 .. w - 1)
    BY <2>1, <2>2
  <2>4. \/ /\ ~Fits(number, w) /\ daErr' = TRUE /\ devaddr' = devaddr /\ daAsked' = daAsked
        \/ daErr' = FALSE /\ daAsked' = [daAsked EXCEPT !.addr = number]
    BY <1>1, <2>2, <2>3, MoveOf DEF w
  <2>5. UNCHANGED daMinor
    BY <2>2 DEF Move
  <2>6. daAsked'.type = daAsked.type /\ daAsked'.id = daAsked.id
    <3>1. PICK t, id, addr : daAsked = [type |-> t, id |-> id, addr |-> addr]
      BY <1>1 DEF DaInv
    <3> QED
      BY <2>4, <3>1
  <2>7. ReadsBack /\ ReadsBack'
    <3>1. (DaInv /\ daAsked.type \in SoundTypes(daMinor) => ReadsBack)'
      BY AddressReads, PTL
    <3> QED
      BY <1>1, <2>5, <2>6, <3>1, AddressReads
  <2>8. getNwkId(daMinor, devaddr') = getNwkId(daMinor, devaddr)
    BY <2>5, <2>6, <2>7 DEF ReadsBack
  <2>9. ASSUME daErr' = TRUE
        PROVE  devaddr' = devaddr /\ daAsked.addr \in {{}, getMaxNwkAddr(daMinor, daAsked.type)}
    <3>1. devaddr' = devaddr /\ (v = {} \/ v = 0 .. w - 1)
      BY <2>3, <2>4, <2>9
    <3> QED
      BY <2>1, <3>1 DEF getMaxNwkAddr
  <2> QED
    BY <2>4, <2>8, <2>9
<1>2. DaInv /\ DaInv' => [Act]_daVars
  BY <1>1
<1> QED
  BY <1>2, DaAlways, PTL DEF MoveStaysInNetwork

-----------------------------------------------------------------------------
(***************************************************************************)
(* The metadata of a reception and of its reply.                           *)
(***************************************************************************)
\* setDatr() and setCodr() read what datr() and codr() write, but for 4/8.
LEMMA BandwidthReadBack == \A b \in DOMAIN datrBandwidth : setDatrBandwidth(datrBandwidth[b]) = b
  BY DEF datrBandwidth, setDatrBandwidth

LEMMA CodingReadBack == \A c \in DOMAIN codr \ {"r48"} : setCodr(codr[c]) = c
<1>1. DOMAIN codr = {"r45", "r46", "r47", "r48", "li45", "li46", "li48"}
  BY DEF codr
<1> QED
  BY <1>1 DEF codr, setCodr

\* The metadata of a reception, and what the server makes of them.
MetaFreqs == {(v \div 1000000) * 1000000 : v \in MdFreqs \cup {frequency(f) : f \in MdFreqs}}
Metas(freqs) ==
    [gatewayId : MdGateways \cup {0}, tmst : 0 .. TmstMod - 1, freq : freqs, chan : Int, rfch : Int,
     stat : Int, modu : {"LORA", "FSK"}, sf : Int, bw : DOMAIN datrBandwidth, cr : DOMAIN codr,
     rssi : Int, lsnr : Int]
Reports == [meta : Metas(MdFreqs), form : Forms]

\* A report on its way.
Received(j, h) ==
    LET m == h.meta
    IN  /\ h.form = "protocol" => j.tmst = J("int", m.tmst)
        /\ h.form = "untimed" => j.tmst = Missing
        /\ h.form = "tool" => j.tmst = J("int", 0)
        /\ RateTold(h) => j.datr = J("string", datr(m))
        /\ ~RateTold(h) => j.datr = J("int", 50000)
        /\ j.codr = J("string", codr[m.cr]) /\ j.modu = J("string", m.modu)
        /\ j.freq = J("double", m.freq) \/ j.freq = J("double", frequency(m.freq))
        /\ j.lsnr = J("double", m.lsnr) \/ j.lsnr = J("int", m.lsnr \div 10)
        /\ j.rssi = J("int", m.rssi) /\ j.chan = J("int", m.chan)
        /\ j.rfch = J("int", m.rfch) /\ j.stat = J("int", m.stat)

Kept(k, h) ==
    LET m == h.meta
    IN  /\ k.gatewayId = m.gatewayId /\ k.modu = m.modu /\ k.rssi = m.rssi /\ k.chan = m.chan
        /\ RateTold(h) => k.bw = m.bw /\ k.sf = m.sf
        /\ m.cr # "r48" => k.cr = m.cr
        /\ h.form = "protocol" => k.tmst = m.tmst
        /\ h.form = "tool" => k.tmst = 0

\* A frame is modulated the same way wherever it is heard.
SameFrame(m) ==
    /\ m.modu = mdFrame.modu /\ m.bw = mdFrame.bw /\ m.sf = mdFrame.sf

HeardInv ==
    /\ mdHeard \in Seq(Reports) /\ mdMeta \in Seq(Metas(MetaFreqs))
    /\ mdStage # "start" =>
         mdFrame \in [freq : MdFreqs, bw : DOMAIN datrBandwidth, sf : Int, cr : DOMAIN codr,
                      modu : {"LORA", "FSK"}]
    /\ mdStage \in {"start", "air"} => mdHeard = <<>> /\ mdMeta = <<>>
    /\ mdStage = "rx" => Len(mdHeard) = Len(mdMeta) + 1 /\ Received(mdJson, mdHeard[Len(mdHeard)])
    /\ mdStage \in {"kept", "tx", "end"} => Len(mdHeard) = Len(mdMeta) /\ Len(mdMeta) > 0
    /\ mdStage \in {"start", "air", "rx", "kept", "tx", "end"}
    /\ \A i \in DOMAIN mdHeard : SameFrame(mdHeard[i].meta)
KeptInv == \A i \in DOMAIN mdMeta : Kept(mdMeta[i], mdHeard[i])
ReplyInv ==
    /\ mdStage = "tx" =>
         /\ mdJson.datr = J("string", datr(mdMeta[1])) /\ mdJson.modu = J("string", mdMeta[1].modu)
         /\ mdMeta[1].tmst # 0 => mdJson.tmst = J("int", (mdMeta[1].tmst + Second) % TmstMod)
         /\ mdMeta[1].tmst = 0 => mdJson.imme
         /\ mdTo = getBestGatewayAddress(mdMeta)
    /\ mdStage = "end" =>
         /\ mdRead.modu = mdMeta[1].modu /\ mdRead.bw = mdMeta[1].bw /\ mdRead.sf = mdMeta[1].sf

MdInv == HeardInv /\ KeptInv /\ ReplyInv

\* rxpk of every form.
LEMMA RxpkReceived ==
  ASSUME NEW m \in Metas(MdFreqs), NEW form \in Forms
  PROVE  Received(Rxpk(m, form), [meta |-> m, form |-> form])
<1> DEFINE h == [meta |-> m, form |-> form]
           p == [toJsonString(m) EXCEPT
                   !.freq = J("double", m.freq), !.lsnr = J("double", m.lsnr),
                   !.datr = IF m.modu = "FSK" THEN J("int", 50000) ELSE @]
<1>1. h.meta = m /\ h.form = form /\ (RateTold(h) <=> m.modu = "LORA" \/ form = "tool")
  BY DEF RateTold
<1>2. m.modu \in {"LORA", "FSK"}
  BY DEF Metas
<1>3. /\ p.tmst = J("int", m.tmst) /\ p.codr = J("string", codr[m.cr]) /\ p.modu = J("string", m.modu)
      /\ p.freq = J("double", m.freq) /\ p.lsnr = J("double", m.lsnr)
      /\ p.rssi = J("int", m.rssi) /\ p.chan = J("int", m.chan)
      /\ p.rfch = J("int", m.rfch) /\ p.stat = J("int", m.stat)
      /\ p.datr = IF m.modu = "FSK" THEN J("int", 50000) ELSE J("string", datr(m))
  BY DEF toJsonString
<1>4. CASE form = "protocol"
  <2>1. Rxpk(m, form) = p
    BY <1>4 DEF Rxpk
  <2> HIDE DEF p
  <2> QED
    BY <1>1, <1>2, <1>3, <1>4, <2>1 DEF Received
<1>5. CASE form = "untimed"
  <2> DEFINE q == [p EXCEPT !.tmst = Missing]
  <2>1. Rxpk(m, form) = q
    BY <1>5 DEF Rxpk
  <2>2. /\ q.tmst = Missing /\ q.codr = p.codr /\ q.modu = p.modu /\ q.freq = p.freq
        /\ q.lsnr = p.lsnr /\ q.rssi = p.rssi /\ q.chan = p.chan /\ q.rfch = p.rfch
        /\ q.stat = p.stat /\ q.datr = p.datr
    BY DEF toJsonString
  <2> HIDE DEF p, q
  <2> QED
    BY <1>1, <1>2, <1>3, <1>5, <2>1, <2>2 DEF Received
<1>6. CASE form = "tool"
  <2> DEFINE q == toRxJsonString(m)
  <2>1. Rxpk(m, form) = q
    BY <1>6 DEF Rxpk
  <2>2. /\ q.tmst = J("int", 0) /\ q.codr = J("string", codr[m.cr]) /\ q.modu = J("string", m.modu)
        /\ q.freq = J("double", frequency(m.freq)) /\ q.lsnr = lsnrText(m.lsnr)
        /\ q.rssi = J("int", m.rssi) /\ q.chan = J("int", m.chan)
        /\ q.rfch = J("int", m.rfch) /\ q.stat = J("int", m.stat)
        /\ q.datr = J("string", datr(m))
    BY DEF toRxJsonString, toJsonString
  <2>3. q.lsnr = J("double", m.lsnr) \/ q.lsnr = J("int", m.lsnr \div 10)
    BY <2>2 DEF lsnrText
  <2> HIDE DEF p, q
  <2> QED
    BY <1>1, <1>6, <2>1, <2>2, <2>3 DEF Received
<1> QED
  BY <1>4, <1>5, <1>6 DEF Forms

LEMMA ReceivedIsKept ==
  ASSUME NEW j, NEW h \in Reports, Received(j, h), NEW memory \in 0 .. TmstMod - 1
  PROVE  LET k == WithGateway(h.meta.gatewayId, parseRX(j, memory))
         IN  Kept(k, h) /\ k \in Metas(MetaFreqs)
<1> DEFINE m == h.meta
           q == parseRX(j, memory)
           k == [q EXCEPT !.gatewayId = m.gatewayId]
<1>1. /\ m \in Metas(MdFreqs) /\ h.form \in Forms
  BY DEF Reports
<1>2. /\ j.codr.type = "string" /\ j.codr.v = codr[m.cr]
      /\ j.modu.type = "string" /\ j.modu.v = m.modu
      /\ j.rssi.type = "int" /\ j.rssi.v = m.rssi /\ j.chan.type = "int" /\ j.chan.v = m.chan
      /\ j.rfch.type = "int" /\ j.rfch.v = m.rfch /\ j.stat.type = "int" /\ j.stat.v = m.stat
      /\ j.freq.type = "double" /\ (j.freq.v = m.freq \/ j.freq.v = frequency(m.freq))
      /\ j.lsnr.type = "double" => j.lsnr.v = m.lsnr
  BY DEF Received, J
<1>3. /\ RateTold(h) => j.datr.type = "string" /\ j.datr.v = [sf |-> m.sf, bw |-> datrBandwidth[m.bw]]
      /\ ~RateTold(h) => j.datr.type # "string"
  BY DEF Received, J, datr
<1>4. /\ h.form = "protocol" => j.tmst.type = "int" /\ j.tmst.v = m.tmst
      /\ h.form = "untimed" => j.tmst.type # "int"
      /\ h.form = "tool" => j.tmst.type = "int" /\ j.tmst.v = 0
  BY DEF Received, J, Missing
<1> HIDE DEF m
<1>5. q = [gatewayId |-> 0, tmst |-> Read(j.tmst, "int", memory),
           freq |-> IF j.freq.type = "double" THEN (j.freq.v \div 1000000) * 1000000 ELSE 868900000,
           chan |-> Read(j.chan, "int", 0), rfch |-> Read(j.rfch, "int", 0),
           stat |-> Read(j.stat, "int", 0), modu |-> Read(j.modu, "string", "LORA"),
           sf |-> Read(j.datr, "string", [sf |-> 7, bw |-> 250]).sf,
           bw |-> setDatrBandwidth(Read(j.datr, "string", [sf |-> 7, bw |-> 250]).bw),
           cr |-> setCodr(Read(j.codr, "string", codr["r46"])),
           rssi |-> Read(j.rssi, "int", -35), lsnr |-> Read(j.lsnr, "double", 51)]
  BY DEF parseRX, rfmMetaData
<1> HIDE DEF q
<1>6. /\ k.gatewayId = m.gatewayId /\ k.tmst = Read(j.tmst, "int", memory)
      /\ k.freq = (j.freq.v \div 1000000) * 1000000
      /\ k.chan = m.chan /\ k.rfch = m.rfch /\ k.stat = m.stat /\ k.modu = m.modu
      /\ k.sf = Read(j.datr, "string", [sf |-> 7, bw |-> 250]).sf
      /\ k.bw = setDatrBandwidth(Read(j.datr, "string", [sf |-> 7, bw |-> 250]).bw)
      /\ k.cr = setCodr(codr[m.cr])
      /\ k.rssi = m.rssi /\ k.lsnr = Read(j.lsnr, "double", 51)
  BY <1>2, <1>5 DEF Read
<1>7. /\ m.gatewayId \in MdGateways \cup {0} /\ m.tmst \in 0 .. TmstMod - 1 /\ m.freq \in MdFreqs
      /\ m.chan \in Int /\ m.rfch \in Int /\ m.stat \in Int /\ m.modu \in {"LORA", "FSK"}
      /\ m.sf \in Int /\ m.bw \in DOMAIN datrBandwidth /\ m.cr \in DOMAIN codr
      /\ m.rssi \in Int /\ m.lsnr \in Int
  BY <1>1 DEF Metas
<1>8. /\ RateTold(h) => k.bw = m.bw /\ k.sf = m.sf
      /\ k.bw \in DOMAIN datrBandwidth /\ k.sf \in Int
  <2>1. CASE RateTold(h)
    <3>1. k.sf = m.sf /\ k.bw = setDatrBandwidth(datrBandwidth[m.bw])
      BY <1>3, <1>6, <2>1 DEF Read
    <3> QED
      BY <1>7, <2>1, <3>1, BandwidthReadBack
  <2>2. CASE ~RateTold(h)
    <3>1. k.sf = 7 /\ k.bw = setDatrBandwidth(250)
      BY <1>3, <1>6, <2>2 DEF Read
    <3> QED
      BY <2>2, <3>1 DEF setDatrBandwidth, datrBandwidth
  <2> QED
    BY <2>1, <2>2
<1>9. k.cr \in DOMAIN codr /\ (m.cr # "r48" => k.cr = m.cr)
  <2>1. \A text : setCodr(text) \in {"r45", "r46", "r47", "r48", "li45", "li46", "li48"}
    BY DEF setCodr
  <2> QED
    BY <1>6, <1>7, <2>1, CodingReadBack DEF codr
<1>10. /\ k.tmst \in 0 .. TmstMod - 1
       /\ h.form = "protocol" => k.tmst = m.tmst
       /\ h.form = "tool" => k.tmst = 0
  <2>1. 0 \in 0 .. TmstMod - 1
    BY MdAssumption
  <2> QED
    BY <1>1, <1>4, <1>6, <1>7, <2>1 DEF Read, Forms
<1>11. k.freq \in MetaFreqs
  BY <1>2, <1>6, <1>7 DEF MetaFreqs
<1>12. k.lsnr \in Int
  BY <1>2, <1>6, <1>7 DEF Read
<1>13. k = [gatewayId |-> k.gatewayId, tmst |-> k.tmst, freq |-> k.freq, chan |-> k.chan, rfch |-> k.rfch,
            stat |-> k.stat, modu |-> k.modu, sf |-> k.sf, bw |-> k.bw, cr |-> k.cr,
            rssi |-> k.rssi, lsnr |-> k.lsnr]
  BY <1>5
<1> HIDE DEF k
<1>14. k \in Metas(MetaFreqs)
  BY <1>6, <1>7, <1>8, <1>9, <1>10, <1>11, <1>12, <1>13 DEF Metas
<1>15. Kept(k, h)
  BY <1>6, <1>8, <1>9, <1>10 DEF Kept, m
<1> QED
  BY <1>14, <1>15 DEF k, m, q, WithGateway

\* The counter of the gateway, a time later, modulo its width.
LEMMA CounterWraps ==
  ASSUME NEW m \in Nat, NEW n \in 0 .. m - 1, NEW d \in 1 .. m - 1
  PROVE  /\ (n + d) % m \in 0 .. m - 1
         /\ (((n + d) % m) - n) % m = d
<1>1. CASE n + d < m
  <2>1. (n + d) % m = n + d
    BY <1>1
  <2>2. d % m = d
    OBVIOUS
  <2> QED
    BY <1>1, <2>1, <2>2
<1>2. CASE n + d >= m
  <2>1. (n + d) % m = n + d - m
    BY <1>2
  <2>2. (d - m) % m = d
    OBVIOUS
  <2>3. (n + d - m) - n = d - m
    OBVIOUS
  <2> QED
    BY <1>2, <2>1, <2>2, <2>3
<1> QED
  BY <1>1, <1>2

LEMMA MdInitInv == MdInit => MdInv
  BY DEF MdInit, MdInv, HeardInv, KeptInv, ReplyInv

LEMMA MdNextInv == MdInv /\ [MdNext]_mdVars => MdInv'
<1> SUFFICES ASSUME MdInv, [MdNext]_mdVars PROVE MdInv'
  OBVIOUS
<1>0. HeardInv /\ KeptInv /\ ReplyInv
  BY DEF MdInv
<1>1. ASSUME NEW f \in MdFreqs, NEW b \in DOMAIN datrBandwidth, NEW c \in DOMAIN codr,
             NEW u \in {"LORA", "FSK"}, Transmitted(f, b, c, u)
      PROVE  MdInv'
  <2>1. /\ mdStage = "start" /\ mdStage' = "air"
        /\ UNCHANGED <<mdHeard, mdJson, mdMeta, mdTo, mdRead>>
    BY <1>1 DEF Transmitted
  <2>4. mdFrame' = [freq |-> f, bw |-> b, sf |-> 9, cr |-> c, modu |-> u]
    BY <1>1 DEF Transmitted
  <2>5. mdHeard = <<>> /\ mdMeta = <<>>
    BY <1>0, <2>1 DEF HeardInv
  <2> QED
    BY <1>0, <2>1, <2>4, <2>5 DEF MdInv, HeardInv, KeptInv, ReplyInv
<1>2. ASSUME NEW g \in MdGateways, NEW s \in MdSnrs, NEW n \in MdTmsts, NEW form \in Forms,
             Heard(g, s, n, form)
      PROVE  MdInv'
  <2> DEFINE m == Reception(g, s, n)
             h == [meta |-> m, form |-> form]
  <2>1. /\ mdStage \in {"air", "kept"} /\ mdStage' = "rx" /\ mdHeard' = Append(mdHeard, h)
        /\ mdJson' = Rxpk(m, form)
        /\ UNCHANGED <<mdFrame, mdMeta, mdTo, mdRead>>
    BY <1>2 DEF Heard
  <2>2. mdHeard \in Seq(Reports) /\ mdMeta \in Seq(Metas(MetaFreqs))
    BY <1>0, <2>1 DEF HeardInv
  <2>3. s \in Int /\ n \in 0 .. TmstMod - 1
    BY MdAssumption
  <2>4. /\ mdFrame.freq \in MdFreqs /\ mdFrame.bw \in DOMAIN datrBandwidth /\ mdFrame.sf \in Int
        /\ mdFrame.cr \in DOMAIN codr /\ mdFrame.modu \in {"LORA", "FSK"}
    BY <1>0, <2>1 DEF HeardInv
  <2>5. /\ m.modu = mdFrame.modu /\ m.bw = mdFrame.bw /\ m.sf = mdFrame.sf
        /\ m \in Metas(MdFreqs)
    BY <2>3, <2>4 DEF Reception, Metas
  <2> HIDE DEF m
  <2>6. h \in Reports /\ h.meta = m
    BY <2>5 DEF Reports
  <2>7. Received(mdJson', h)
    BY <2>1, <2>5, RxpkReceived
  <2> HIDE DEF h
  <2>8. Len(mdHeard) = Len(mdMeta)
    BY <1>0, <2>1 DEF HeardInv
  <2>9. /\ mdHeard' \in Seq(Reports) /\ Len(mdHeard') = Len(mdHeard) + 1
        /\ mdHeard'[Len(mdHeard')] = h /\ \A i \in 1 .. Len(mdHeard) : mdHeard'[i] = mdHeard[i]
        /\ DOMAIN mdHeard = 1 .. Len(mdHeard) /\ DOMAIN mdHeard' = 1 .. Len(mdHeard) + 1
        /\ DOMAIN mdMeta = 1 .. Len(mdMeta) /\ Len(mdHeard) \in Nat
    BY <2>1, <2>2, <2>6
  <2>10. \A i \in DOMAIN mdHeard' :
           LET x == mdHeard'[i].meta
           IN  x.modu = mdFrame'.modu /\ x.bw = mdFrame'.bw /\ x.sf = mdFrame'.sf
    <3>1. \A i \in 1 .. Len(mdHeard) :
            LET x == mdHeard[i].meta
            IN  x.modu = mdFrame.modu /\ x.bw = mdFrame.bw /\ x.sf = mdFrame.sf
      BY <1>0, <2>9 DEF HeardInv, SameFrame
    <3>2. \A i \in 1 .. Len(mdHeard) + 1 : i \in 1 .. Len(mdHeard) \/ i = Len(mdHeard')
      BY <2>9
    <3>3. mdFrame' = mdFrame
      BY <2>1
    <3> QED
      BY ONLY <2>5, <2>6, <2>9, <3>1, <3>2, <3>3
  <2>11. HeardInv'
    <3>1. mdHeard' \in Seq(Reports) /\ mdMeta' \in Seq(Metas(MetaFreqs)) /\ mdStage' = "rx"
      BY <2>1, <2>2, <2>9
    <3>2. Len(mdHeard') = Len(mdMeta') + 1 /\ Received(mdJson', mdHeard'[Len(mdHeard')])
      BY <2>1, <2>7, <2>8, <2>9
    <3>3. mdFrame' \in [freq : MdFreqs, bw : DOMAIN datrBandwidth, sf : Int, cr : DOMAIN codr,
                        modu : {"LORA", "FSK"}]
      BY <1>0, <2>1 DEF HeardInv
    <3> QED
      BY <2>10, <3>1, <3>2, <3>3 DEF HeardInv, SameFrame
  <2>12. KeptInv'
    BY <1>0, <2>1, <2>8, <2>9 DEF KeptInv
  <2> QED
    BY <2>1, <2>11, <2>12 DEF MdInv, ReplyInv
<1>3. ASSUME NEW n \in MdTmsts, ServerParses(n)
      PROVE  MdInv'
  <2> DEFINE h == mdHeard[Len(mdHeard)]
             k == WithGateway(h.meta.gatewayId, parseRX(mdJson, n))
  <2>1. /\ mdStage = "rx" /\ mdStage' = "kept" /\ mdMeta' = Append(mdMeta, k)
        /\ UNCHANGED <<mdFrame, mdHeard, mdJson, mdTo, mdRead>>
    BY <1>3 DEF ServerParses
  <2>2. /\ mdHeard \in Seq(Reports) /\ mdMeta \in Seq(Metas(MetaFreqs))
        /\ Len(mdHeard) = Len(mdMeta) + 1 /\ Received(mdJson, h)
    BY <1>0, <2>1 DEF HeardInv
  <2>3. h \in Reports /\ n \in 0 .. TmstMod - 1
    BY <2>2, MdAssumption
  <2>4. Kept(k, h) /\ k \in Metas(MetaFreqs)
    BY <2>2, <2>3, ReceivedIsKept
  <2> HIDE DEF k
  <2>5. /\ mdMeta' \in Seq(Metas(MetaFreqs)) /\ Len(mdMeta') = Len(mdMeta) + 1
        /\ mdMeta'[Len(mdHeard)] = k /\ \A i \in 1 .. Len(mdMeta) : mdMeta'[i] = mdMeta[i]
        /\ DOMAIN mdMeta = 1 .. Len(mdMeta) /\ DOMAIN mdMeta' = 1 .. Len(mdMeta) + 1
        /\ Len(mdMeta) \in Nat
    BY <2>1, <2>2, <2>4
  <2>6. KeptInv'
    <3> SUFFICES ASSUME NEW i \in 1 .. Len(mdMeta) + 1 PROVE Kept(mdMeta'[i], mdHeard[i])
      BY <2>1, <2>5 DEF KeptInv
    <3>1. CASE i \in 1 .. Len(mdMeta)
      BY <1>0, <2>5, <3>1 DEF KeptInv
    <3>2. CASE i = Len(mdHeard)
      BY <2>4, <2>5, <3>2
    <3> QED
      BY <2>2, <2>5, <3>1, <3>2
  <2>7. HeardInv'
    BY <1>0, <2>1, <2>2, <2>5 DEF HeardInv, SameFrame
  <2> QED
    BY <2>1, <2>6, <2>7 DEF MdInv, ReplyInv
<1>4. CASE Replies(14)
  <2>1. /\ mdStage = "kept" /\ mdStage' = "tx" /\ mdTo' = getBestGatewayAddress(mdMeta)
        /\ mdJson' = toTxJsonString(mdMeta[1], mdMeta[1].tmst, 14)
        /\ UNCHANGED <<mdFrame, mdHeard, mdMeta, mdRead>>
    BY <1>4 DEF Replies
  <2>2. /\ mdJson'.datr = J("string", datr(mdMeta[1])) /\ mdJson'.modu = J("string", mdMeta[1].modu)
        /\ mdMeta[1].tmst # 0 => mdJson'.tmst = J("int", (mdMeta[1].tmst + Second) % TmstMod)
        /\ mdMeta[1].tmst = 0 => mdJson'.imme
    BY <2>1 DEF toTxJsonString
  <2>3. HeardInv' /\ KeptInv'
    BY <1>0, <2>1 DEF HeardInv, KeptInv, SameFrame
  <2> QED
    BY <2>1, <2>2, <2>3 DEF MdInv, ReplyInv
<1>5. ASSUME NEW n \in MdTmsts, ReplyParsed(n)
      PROVE  MdInv'
  <2>1. /\ mdStage = "tx" /\ mdStage' = "end" /\ mdRead' = parseTX(mdJson, n)
        /\ UNCHANGED <<mdFrame, mdHeard, mdJson, mdMeta, mdTo>>
    BY <1>5 DEF ReplyParsed
  <2> DEFINE k == mdMeta[1]
  <2>2. /\ mdJson.datr.type = "string" /\ mdJson.datr.v = [sf |-> k.sf, bw |-> datrBandwidth[k.bw]]
        /\ mdJson.modu.type = "string" /\ mdJson.modu.v = k.modu
    BY <1>0, <2>1 DEF ReplyInv, J, datr
  <2>3. k.bw \in DOMAIN datrBandwidth
    <3>1. k \in Metas(MetaFreqs)
      BY <1>0, <2>1 DEF HeardInv
    <3> QED
      BY <3>1 DEF Metas
  <2>4. /\ mdRead'.bw = setDatrBandwidth(datrBandwidth[k.bw]) /\ mdRead'.sf = k.sf
        /\ mdRead'.modu = k.modu
    BY <2>1, <2>2 DEF parseTX, Read, rfmMetaData
  <2>5. mdRead'.bw = k.bw
    BY <2>3, <2>4, BandwidthReadBack
  <2>6. HeardInv' /\ KeptInv'
    BY <1>0, <2>1 DEF HeardInv, KeptInv, SameFrame
  <2> QED
    BY <2>1, <2>4, <2>5, <2>6 DEF MdInv, ReplyInv
<1>6. CASE UNCHANGED mdVars
  BY <1>0, <1>6 DEF mdVars, MdInv, HeardInv, KeptInv, ReplyInv, SameFrame
<1> QED
  BY <1>1, <1>2, <1>3, <1>4, <1>5, <1>6 DEF MdNext

\* The first of the receptions is the best unless another is better.
LEMMA FirstIsBest ==
  ASSUME NEW S, NEW q \in Seq(S), Len(q) > 0, \A i \in 1 .. Len(q) : q[i].lsnr \in Int,
         \A i \in DOMAIN q : q[i].lsnr <= q[1].lsnr
  PROVE  getBestGatewayAddress(q) = q[1].gatewayId
<1> DEFINE P(i) == /\ \A k \in DOMAIN q : q[k].lsnr <= q[i].lsnr
                   /\ \A k \in 1 .. i - 1 : q[k].lsnr < q[i].lsnr
           best == CHOOSE i \in DOMAIN q : P(i)
<1>1. DOMAIN q = 1 .. Len(q) /\ Len(q) \in Nat /\ 1 \in DOMAIN q
  OBVIOUS
<1>2. P(1)
  BY <1>1
<1>3. best \in DOMAIN q /\ P(best)
  BY <1>1, <1>2
<1>4. ~(best > 1)
  <2> SUFFICES ASSUME best > 1 PROVE FALSE
    OBVIOUS
  <2>1. 1 \in 1 .. best - 1
    BY <1>1, <1>3
  <2>2. q[1].lsnr < q[best].lsnr
    BY <1>3, <2>1
  <2> HIDE DEF best
  <2> QED
    BY <1>1, <1>3, <2>2
<1>5. best = 1
  BY <1>1, <1>3, <1>4
<1> QED
  BY <1>5 DEF getBestGatewayAddress

(***************************************************************************)
(* What each gateway reports is kept beside its identifier; the reply is   *)
(* for the data rate and the modulation of the frame, and it is sent a     *)
(* second after the first reception, to the gateway of that reception      *)
(* unless another hears better: for any number of receptions and every     *)
(* width of the gateways' counters, also when one wraps around in between. *)
(***************************************************************************)
THEOREM RepliesFitReception == MdInit /\ [][MdNext]_mdVars => []ReplyFitsReception
<1>1. MdInv => ReplyFitsReception
  <2> SUFFICES ASSUME MdInv PROVE ReportsKept /\ ReplyModulated /\ ReplyOneSecondLater
    BY DEF ReplyFitsReception
  <2>0. HeardInv /\ KeptInv /\ ReplyInv
    BY DEF MdInv
  <2>1. ReportsKept
    BY <2>0 DEF KeptInv, Kept, ReportsKept
  <2>2. mdStage \in {"tx", "end"} =>
          /\ Kept(mdMeta[1], mdHeard[1]) /\ SameFrame(mdHeard[1].meta)
          /\ mdMeta[1] \in Metas(MetaFreqs)
    <3> SUFFICES ASSUME mdStage \in {"tx", "end"}
                 PROVE  /\ Kept(mdMeta[1], mdHeard[1]) /\ SameFrame(mdHeard[1].meta)
                        /\ mdMeta[1] \in Metas(MetaFreqs)
      OBVIOUS
    <3>1. /\ mdHeard \in Seq(Reports) /\ mdMeta \in Seq(Metas(MetaFreqs))
          /\ Len(mdHeard) = Len(mdMeta) /\ Len(mdMeta) > 0
      BY <2>0 DEF HeardInv
    <3>2. 1 \in DOMAIN mdHeard /\ 1 \in DOMAIN mdMeta /\ mdMeta[1] \in Metas(MetaFreqs)
      BY <3>1
    <3> QED
      BY <2>0, <3>2 DEF HeardInv, KeptInv
  <2>3. ReplyModulated
    BY <2>0, <2>2 DEF ReplyInv, ReplyModulated, Kept, SameFrame
  <2>4. ReplyOneSecondLater
    <3> SUFFICES ASSUME mdStage = "tx" PROVE ReplyOneSecondLater
      BY DEF ReplyOneSecondLater
    <3> DEFINE n == mdMeta[1].tmst
    <3>1. n \in 0 .. TmstMod - 1
      BY <2>2 DEF Metas
    <3>2. TmstMod \in Nat /\ Second \in 1 .. TmstMod - 1
      BY MdAssumption
    <3>3. n # 0 => mdJson.tmst.v = (n + Second) % TmstMod
      BY <2>0 DEF ReplyInv, J
    <3>4. n = 0 => mdJson.imme
      BY <2>0 DEF ReplyInv
    <3>5. /\ mdHeard[1].form = "protocol" => n = mdHeard[1].meta.tmst
          /\ mdHeard[1].form = "tool" => n = 0
      BY <2>2 DEF Kept
    <3>6. (\A i \in DOMAIN mdMeta : mdMeta[i].lsnr <= mdMeta[1].lsnr)
            => mdTo = mdHeard[1].meta.gatewayId
      <4> SUFFICES ASSUME \A i \in DOMAIN mdMeta : mdMeta[i].lsnr <= mdMeta[1].lsnr
                   PROVE  mdTo = mdHeard[1].meta.gatewayId
        OBVIOUS
      <4>1. mdMeta \in Seq(Metas(MetaFreqs)) /\ Len(mdMeta) > 0
        BY <2>0 DEF HeardInv
      <4>2. \A i \in 1 .. Len(mdMeta) : mdMeta[i].lsnr \in Int
        <5> SUFFICES ASSUME NEW i \in 1 .. Len(mdMeta) PROVE mdMeta[i].lsnr \in Int
          OBVIOUS
        <5>1. mdMeta[i] \in Metas(MetaFreqs)
          BY <4>1
        <5> QED
          BY <5>1 DEF Metas
      <4>3. getBestGatewayAddress(mdMeta) = mdMeta[1].gatewayId
        BY <4>1, <4>2, FirstIsBest
      <4> QED
        BY <2>0, <2>2, <4>3 DEF ReplyInv, Kept
    <3> HIDE DEF n
    <3>7. /\ (n + Second) % TmstMod \in 0 .. TmstMod - 1
          /\ (((n + Second) % TmstMod) - n) % TmstMod = Second
      BY <3>1, <3>2, CounterWraps
    <3> QED
      BY <3>3, <3>4, <3>5, <3>6, <3>7 DEF ReplyOneSecondLater
  <2> QED
    BY <2>1, <2>3, <2>4
<1> QED
  BY <1>1, MdInitInv, MdNextInv, PTL

-----------------------------------------------------------------------------
(***************************************************************************)
(* Frames.  A byte is plain, or encrypted with one stream of a key.        *)
(***************************************************************************)
Stream(fcnt, dir, addr, key) == {<<key, fcnt % 65536, dir, addr, i>> : i \in Nat}
ByteUnder(K) == [b : Int, ks : SUBSET K]
PlainBytes(p) == \A i \in DOMAIN p : p[i].ks = {}

LEMMA SameFunction ==
  ASSUME NEW A, NEW B, NEW f \in [A -> B], NEW g \in [A -> B], \A x \in A : f[x] = g[x]
  PROVE  f = g
  OBVIOUS

LEMMA ContentIsPlain ==
  ASSUME NEW n \in Nat, NEW from \in Int, NEW K
  PROVE  /\ Content(n, from) \in Seq(ByteUnder(K)) /\ Len(Content(n, from)) = n
         /\ PlainBytes(Content(n, from))
<1> DEFINE c == Content(n, from)
<1>1. c = [i \in 1 .. n |-> [b |-> from + i, ks |-> {}]]
  BY DEF Content, Bytes, Byte
<1> HIDE DEF c
<1>2. \A i \in 1 .. n : c[i] \in ByteUnder(K) /\ c[i].ks = {}
  BY <1>1 DEF ByteUnder
<1>3. c \in [1 .. n -> ByteUnder(K)]
  BY <1>1, <1>2
<1> QED
  BY <1>2, <1>3 DEF PlainBytes, c

\* Encrypting keeps the length and, twice with the same stream, the bytes.
LEMMA EncryptedTwice ==
  ASSUME NEW fcnt \in Nat, NEW dir, NEW addr, NEW key,
         NEW p \in Seq(ByteUnder(Stream(fcnt, dir, addr, key))), PlainBytes(p)
  PROVE  /\ encryptPayload(p, fcnt, dir, addr, key) \in Seq(ByteUnder(Stream(fcnt, dir, addr, key)))
         /\ Len(encryptPayload(p, fcnt, dir, addr, key)) = Len(p)
         /\ encryptPayload(encryptPayload(p, fcnt, dir, addr, key), fcnt % 65536, dir, addr, key) = p
<1> DEFINE K == Stream(fcnt, dir, addr, key)
           B == ByteUnder(K)
           n == Len(p)
           c == fcnt % 65536
           q == encryptPayload(p, fcnt, dir, addr, key)
           r == encryptPayload(q, c, dir, addr, key)
           x(i) == <<key, c, dir, addr, i>>
<1>1. /\ n \in Nat /\ DOMAIN p = 1 .. n /\ p \in [1 .. n -> B] /\ p \in Seq(B)
      /\ \A i \in 1 .. n : p[i] \in B /\ p[i].ks = {}
  BY DEF PlainBytes
<1>2. c % 65536 = c
  OBVIOUS
<1>3. \A i \in 1 .. n : x(i) \in K
  BY <1>1 DEF Stream
<1>4. q = [i \in 1 .. n |-> [p[i] EXCEPT !.ks = SymDiff(@, {x(i)})]]
  BY <1>1 DEF encryptPayload
<1> DEFINE y(i) == <<key, c % 65536, dir, addr, i>>
<1>5. r = [i \in DOMAIN q |-> [q[i] EXCEPT !.ks = SymDiff(@, {y(i)})]] /\ \A i : y(i) = x(i)
  <2> HIDE DEF c, q
  <2>1. \A i : y(i) = x(i)
    BY <1>2
  <2>2. r = [i \in DOMAIN q |-> [q[i] EXCEPT !.ks = SymDiff(@, {y(i)})]]
    BY DEF encryptPayload
  <2> QED
    BY <2>1, <2>2
<1> HIDE DEF q, r, x, y, K, n, c
<1>6. ASSUME NEW i \in 1 .. n PROVE q[i] \in B /\ r[i] = p[i]
  <2>1. p[i] \in ByteUnder(K) /\ p[i].ks = {} /\ x(i) \in K
    BY <1>1, <1>3
  <2>2. q[i] = [p[i] EXCEPT !.ks = SymDiff(@, {x(i)})]
    BY <1>4
  <2>3. r[i] = [q[i] EXCEPT !.ks = SymDiff(@, {x(i)})]
    <3>1. i \in DOMAIN q
      BY <1>4
    <3>2. r[i] = [q[i] EXCEPT !.ks = SymDiff(@, {y(i)})]
      BY <1>5, <3>1
    <3>3. y(i) = x(i)
      BY <1>5
    <3> HIDE DEF B
    <3> QED
      BY ONLY <3>2, <3>3
  <2> DEFINE pi == p[i]
             qi == q[i]
             ri == r[i]
             xi == x(i)
  <2>4. /\ pi \in ByteUnder(K) /\ pi.ks = {} /\ xi \in K
        /\ qi = [pi EXCEPT !.ks = SymDiff(@, {xi})] /\ ri = [qi EXCEPT !.ks = SymDiff(@, {xi})]
    BY <2>1, <2>2, <2>3
  <2> HIDE DEF pi, qi, ri, xi
  <2>5. qi \in ByteUnder(K) /\ ri = pi
    <3> DEFINE one == {xi}
               none == {}
               k1 == SymDiff(pi.ks, one)
               k2 == SymDiff(qi.ks, one)
               all == SUBSET K
    <3>1. pi.ks = none /\ SymDiff(none, one) = one /\ SymDiff(one, one) = none
      BY <2>4 DEF SymDiff
    <3>2. one \in all /\ none \in all
      BY <2>4
    <3>3. pi \in [b : Int, ks : all]
      BY <2>4 DEF ByteUnder
    <3>4. qi = [pi EXCEPT !.ks = k1] /\ ri = [qi EXCEPT !.ks = k2]
      BY <2>4
    <3>5. k1 = one
      BY <3>1
    <3> HIDE DEF one, none, k1, k2, all
    <3>6. qi \in [b : Int, ks : all] /\ qi.ks = one /\ qi.b = pi.b
      BY <3>2, <3>3, <3>4, <3>5
    <3>7. k2 = none
      BY <3>1, <3>6 DEF k2
    <3>8. ri \in [b : Int, ks : all] /\ ri.ks = none /\ ri.b = pi.b
      BY <3>2, <3>4, <3>6, <3>7
    <3>9. ri = pi
      BY <3>1, <3>3, <3>8
    <3> QED
      BY <3>6, <3>9 DEF ByteUnder, all
  <2> QED
    BY <2>5 DEF pi, qi, ri
<1> HIDE DEF B
<1>7. q \in [1 .. n -> B] /\ DOMAIN r = 1 .. n
  BY <1>4, <1>5, <1>6
<1>8. r = [i \in 1 .. n |-> r[i]]
  BY <1>5, <1>7
<1>9. r \in [1 .. n -> B]
  BY <1>1, <1>6, <1>8
<1>10. q \in Seq(B) /\ Len(q) = n /\ r \in Seq(B) /\ Len(r) = n
  BY <1>1, <1>7, <1>9
<1>11. r = p
  BY <1>1, <1>6, <1>10, SeqEqual DEF n
<1> QED
  BY <1>10, <1>11 DEF q, r, n, K, B, c

\* RFMHeader::parse() and what is behind it take a body apart.
LEMMA BodyParts ==
  ASSUME NEW S, NEW f \in Seq(S), NEW x \in S, NEW p \in Seq(S)
  PROVE  LET body == f \o (<<x>> \o p)
         IN /\ Len(body) = Len(f) + 1 + Len(p)
            /\ SubSeq(body, 1, Len(f)) = f
            /\ body[Len(f) + 1] = x
            /\ SubSeq(body, Len(f) + 2, Len(body)) = p
<1> DEFINE b == f \o (<<x>> \o p)
           m == Len(f)
           n == Len(p)
<1>1. m \in Nat /\ n \in Nat
  OBVIOUS
<1>2. /\ b \in Seq(S) /\ Len(b) = m + 1 + n
      /\ \A i \in 1 .. m : b[i] = f[i]
      /\ b[m + 1] = x
      /\ \A i \in 1 .. n : b[m + 1 + i] = p[i]
  <2> DEFINE c == <<x>> \o p
  <2>1. c \in Seq(S) /\ Len(c) = 1 + n /\ c[1] = x /\ \A i \in 1 .. n : c[1 + i] = p[i]
    OBVIOUS
  <2> HIDE DEF c
  <2>2. /\ f \o c \in Seq(S) /\ Len(f \o c) = m + (1 + n)
        /\ \A i \in 1 .. m + (1 + n) : (f \o c)[i] = IF i <= m THEN f[i] ELSE c[i - m]
    <3>1. f \o c \in Seq(S)
      BY <2>1
    <3>2. Len(f \o c) = Len(f) + Len(c)
      BY <2>1, ConcatProperties
    <3>3. \A i \in 1 .. Len(f) + Len(c) : (f \o c)[i] = IF i <= Len(f) THEN f[i] ELSE c[i - Len(f)]
      BY <2>1
    <3> QED
      BY <2>1, <3>1, <3>2, <3>3
  <2>3. \A i \in 1 .. 1 + n : m + i \in 1 .. m + (1 + n) /\ ~(m + i <= m) /\ (m + i) - m = i
    BY <1>1
  <2>4. \A i \in 1 .. 1 + n : (f \o c)[m + i] = c[i]
    BY <2>2, <2>3
  <2>5. \A i \in 1 .. m : (f \o c)[i] = f[i]
    BY <1>1, <2>2
  <2>6. m + (1 + n) = m + 1 + n /\ 1 \in 1 .. 1 + n /\ \A i \in 1 .. n : 1 + i \in 1 .. 1 + n /\ m + (1 + i) = m + 1 + i
    BY <1>1
  <2>7. (f \o c)[m + 1] = x /\ \A i \in 1 .. n : (f \o c)[m + 1 + i] = p[i]
    BY <2>1, <2>4, <2>6
  <2> QED
    BY <2>2, <2>5, <2>6, <2>7 DEF c
<1> HIDE DEF b
<1>3. SubSeq(b, 1, m) = f
  BY <1>1, <1>2
<1>4. SubSeq(b, m + 2, Len(b)) = p
  <2> DEFINE t == SubSeq(b, m + 2, Len(b))
  <2>1. t \in Seq(S) /\ Len(t) = n /\ \A i \in 1 .. n : t[i] = b[m + 1 + i]
    BY <1>1, <1>2
  <2> HIDE DEF t
  <2>2. t = p
    <3>1. t \in [1 .. n -> S] /\ p \in [1 .. n -> S]
      BY <1>1, <2>1
    <3>2. \A i \in 1 .. n : t[i] = p[i]
      BY <1>2, <2>1
    <3> QED
      BY <3>1, <3>2, SameFunction
  <2> QED
    BY <2>2 DEF t
<1> QED
  BY <1>2, <1>3, <1>4 DEF b

\* What parseData() makes of an uplink frame that is long enough.
LEMMA UplinkParsed ==
  ASSUME NEW f, NEW known, f.hdr.mtype = "up"
  PROVE  LET pk == parseData(f, known, FALSE)
             a == f.hdr.addr
             key == IF headerFPort(f) = 0 THEN nwkSKey(a) ELSE appSKey(a)
         IN /\ pk.hdr = f.hdr
            /\ pk.errcode = LORA_OK \/ pk.errcode = NOT_FOUND \/ pk.errcode = INVALID_MIC
            /\ pk.errcode = LORA_OK <=>
                 /\ a \in known
                 /\ f.mic = calculateMIC(f.hdr, f.body, f.hdr.fcnt, 0, a, nwkSKey(a))
            /\ pk.errcode = LORA_OK =>
                 /\ pk.fopts = headerFOpts(f) /\ pk.fport = headerFPort(f)
                 /\ pk.payload = encryptPayload(FrmPayload(f), f.hdr.fcnt, 0, a, key)
<1> DEFINE pk == parseData(f, known, FALSE)
           a == f.hdr.addr
           h == f.hdr
           o == headerFOpts(f)
           t == headerFPort(f)
           key == IF t = 0 THEN nwkSKey(a) ELSE appSKey(a)
           plain == encryptPayload(FrmPayload(f), f.hdr.fcnt, 0, a, key)
           good == f.mic = calculateMIC(f.hdr, f.body, f.hdr.fcnt, 0, a, nwkSKey(a))
           rest == FrmPayload(f)
           new == [NewPacket(h) EXCEPT !.fopts = o, !.fport = t]
<1>2. pk = IF a \notin known THEN [new EXCEPT !.errcode = NOT_FOUND, !.payload = rest]
           ELSE IF ~good THEN [new EXCEPT !.errcode = INVALID_MIC]
           ELSE [new EXCEPT !.payload = plain]
  BY DEF parseData
<1> HIDE DEF pk, a, h, o, t, plain, good, rest
<1>3. /\ pk.hdr = h
      /\ pk.errcode = LORA_OK \/ pk.errcode = NOT_FOUND \/ pk.errcode = INVALID_MIC
      /\ pk.errcode = LORA_OK <=> a \in known /\ good
  <2>1. LORA_OK # NOT_FOUND /\ LORA_OK # INVALID_MIC
    BY DEF LORA_OK, NOT_FOUND, INVALID_MIC
  <2>2. CASE a \notin known
    <3>1. pk = [new EXCEPT !.errcode = NOT_FOUND, !.payload = rest]
      BY <1>2, <2>2
    <3>2. pk.hdr = h /\ pk.errcode = NOT_FOUND
      BY <3>1 DEF NewPacket
    <3> QED
      BY <2>1, <2>2, <3>2
  <2>3. CASE a \in known /\ ~good
    BY <1>2, <2>1, <2>3 DEF NewPacket
  <2>4. CASE a \in known /\ good
    BY <1>2, <2>4 DEF NewPacket
  <2> QED
    BY <2>2, <2>3, <2>4
<1>4. ASSUME a \in known, good PROVE pk.fopts = o /\ pk.fport = t /\ pk.payload = plain
  BY <1>2, <1>4 DEF NewPacket
<1> QED
  BY <1>3, <1>4 DEF pk, a, h, o, t, plain, good

(***************************************************************************)
(* A frame of a device and what parseData() makes of it.                   *)
(***************************************************************************)
FrameKey(addr, port) == IF port = 0 THEN nwkSKey(addr) ELSE appSKey(addr)
SentPayload(port, size) == IF port = -1 THEN <<>> ELSE Content(size, 100)
SentBody(addr, n, port, size, counter) ==
    Content(n, 50) \o (IF port = -1 THEN <<>>
                       ELSE <<Byte(port)>> \o encryptPayload(SentPayload(port, size), counter, 0, addr,
                                                             FrameKey(addr, port)))

IsFrameOf(f, s, addr, n, port, size, counter, key, m) ==
    LET hdr == RFM_HEADER("up", addr, FALSE, n, counter)
        body == SentBody(addr, n, port, size, counter)
    IN /\ f = Frame(hdr, body, <<hdr, body, counter, 0, addr, key>>, m)
       /\ s = [by |-> "device", fopts |-> Content(n, 50), fport |-> port,
               payload |-> SentPayload(port, size), counter |-> counter, key |-> key]

DeviceFrame(f, s) ==
    \E addr, key, m : \E n \in Nat, port \in {-1, 0, 1, 223}, size \in Nat, counter \in Nat :
        IsFrameOf(f, s, addr, n, port, size, counter, key, m)

Accepted(pk, s) ==
    pk.errcode = LORA_OK <=>
      /\ pk.hdr.addr \in FrKnown
      /\ s.key = nwkSKey(pk.hdr.addr)
      /\ s.counter < 65536
SameKind(pk, s) ==
    /\ hasApplicationPayload(pk) <=> s.fport > 0 /\ s.payload # <<>>
    /\ getMACs(pk) = IF s.fopts # <<>> THEN s.fopts ELSE IF s.fport = 0 THEN s.payload ELSE <<>>

\* FOpts of a frame that is long enough for them.
LEMMA FOptsInBody ==
  ASSUME NEW f, NEW S, f.body \in Seq(S), f.hdr.foptslen \in 0 .. Len(f.body)
  PROVE  headerFOpts(f) = SubSeq(f.body, 1, f.hdr.foptslen)
<1> DEFINE b == f.body
           n == f.hdr.foptslen
           k == Byte(f.micByte)
<1>1. headerFOpts(f) = [i \in 1 .. n |-> IF i <= Len(b) THEN b[i] ELSE k]
  BY DEF headerFOpts
<1>2. b \in Seq(S) /\ n \in 0 .. Len(b)
  OBVIOUS
<1> HIDE DEF b, n, k
<1>3. SubSeq(b, 1, n) = [i \in 1 .. n |-> b[i]]
  BY <1>2
<1>4. \A i \in 1 .. n : i <= Len(b)
  BY <1>2
<1> QED
  BY <1>1, <1>3, <1>4 DEF b, n

\* FOpts, "port" and payload, of a frame with and of one without FPort.
LEMMA SentBodyRead ==
  ASSUME NEW addr, NEW n \in Nat, NEW port \in {-1, 0, 1, 223}, NEW size \in Nat, NEW counter \in Nat,
         NEW f, f.body = SentBody(addr, n, port, size, counter), f.hdr.foptslen = n
  PROVE  /\ headerFOpts(f) = Content(n, 50)
         /\ port # -1 => headerFPort(f) = port
         /\ encryptPayload(FrmPayload(f), counter % 65536, 0, addr, FrameKey(addr, headerFPort(f)))
              = SentPayload(port, size)
<1> DEFINE key == FrameKey(addr, port)
           K == Stream(counter, 0, addr, key)
           fopts == Content(n, 50)
           payload == Content(size, 100)
           enc == encryptPayload(payload, counter, 0, addr, key)
<1>1. /\ fopts \in Seq(ByteUnder(K)) /\ Len(fopts) = n
      /\ payload \in Seq(ByteUnder(K)) /\ PlainBytes(payload)
  <2> HIDE DEF K
  <2>1. fopts \in Seq(ByteUnder(K)) /\ Len(fopts) = n
    <3> DEFINE from == 50
    <3>1. from \in Int
      OBVIOUS
    <3> HIDE DEF from
    <3>2. Content(n, from) \in Seq(ByteUnder(K))
      BY ONLY n \in Nat, <3>1, ContentIsPlain
    <3>3. Len(Content(n, from)) = n
      BY ONLY n \in Nat, <3>1, ContentIsPlain
    <3> QED
      BY <3>2, <3>3 DEF from
  <2>2. payload \in Seq(ByteUnder(K)) /\ PlainBytes(payload)
    <3> DEFINE from == 100
    <3>1. from \in Int
      OBVIOUS
    <3> HIDE DEF from
    <3>2. Content(size, from) \in Seq(ByteUnder(K)) /\ PlainBytes(Content(size, from))
      BY <3>1, ContentIsPlain
    <3> QED
      BY <3>2 DEF from
  <2> QED
    BY <2>1, <2>2
<1>2. CASE port = -1
  <2>1. f.body = fopts
    <3>1. f.body = fopts \o <<>>
      BY <1>2 DEF SentBody
    <3> QED
      BY <1>1, <3>1, ConcatEmptySeq
  <2> HIDE DEF fopts, K, key
  <2>2. headerFOpts(f) = fopts
    <3>1. f.body \in Seq(ByteUnder(K)) /\ f.hdr.foptslen \in 0 .. Len(f.body) /\ f.hdr.foptslen = n
      BY <1>1, <2>1
    <3>2. headerFOpts(f) = SubSeq(fopts, 1, n)
      BY <2>1, <3>1, FOptsInBody
    <3> QED
      BY <1>1, <3>2
  <2>3. FrmPayload(f) = <<>>
    <3>1. SubSeq(fopts, n + 2, n) = <<>>
      BY <1>1
    <3> QED
      BY <1>1, <2>1, <3>1 DEF FrmPayload
  <2>4. \A k : encryptPayload(<<>>, counter % 65536, 0, addr, k) = <<>>
    BY DEF encryptPayload
  <2> QED
    BY <1>2, <2>2, <2>3, <2>4 DEF SentPayload, fopts
<1>3. CASE port # -1
  <2>1. /\ enc \in Seq(ByteUnder(K))
        /\ encryptPayload(enc, counter % 65536, 0, addr, key) = payload
    <3> HIDE DEF payload, key
    <3> QED
      BY <1>1, EncryptedTwice
  <2> DEFINE x == Byte(port)
             S == ByteUnder(K)
  <2>2. f.body = fopts \o (<<x>> \o enc) /\ f.hdr.foptslen = Len(fopts)
    <3>1. f.hdr.foptslen = Len(fopts)
      BY <1>1
    <3> QED
      BY <1>3, <3>1 DEF SentBody, SentPayload
  <2>3. x \in S /\ x.b = port /\ x.ks = {}
    BY DEF Byte, ByteUnder
  <2> HIDE DEF enc, payload, fopts, K, key, x, S
  <2>4. headerFOpts(f) = fopts /\ headerFPort(f) = x.b /\ FrmPayload(f) = enc
    <3>1. fopts \in Seq(S) /\ enc \in Seq(S)
      BY <1>1, <2>1 DEF S
    <3>2. /\ Len(fopts \o (<<x>> \o enc)) = Len(fopts) + 1 + Len(enc)
          /\ SubSeq(fopts \o (<<x>> \o enc), 1, Len(fopts)) = fopts
          /\ (fopts \o (<<x>> \o enc))[Len(fopts) + 1] = x
          /\ SubSeq(fopts \o (<<x>> \o enc), Len(fopts) + 2, Len(fopts \o (<<x>> \o enc))) = enc
      BY <2>3, <3>1, BodyParts
    <3> DEFINE body == f.body
    <3>3. /\ Len(body) = n + 1 + Len(enc) /\ SubSeq(body, 1, n) = fopts
          /\ body[n + 1] = x /\ SubSeq(body, n + 2, Len(body)) = enc
      BY <1>1, <2>2, <3>2
    <3>4. Len(enc) \in Nat
      BY <3>1
    <3> HIDE DEF body
    <3>5. n + 1 <= Len(body) /\ n \in 0 .. Len(body)
      BY <3>3, <3>4
    <3>6. body \in Seq(S)
      BY <2>2, <2>3, <3>1 DEF body
    <3>7. headerFOpts(f) = SubSeq(body, 1, n)
      BY <3>5, <3>6, FOptsInBody DEF body
    <3> QED
      BY <2>3, <3>3, <3>5, <3>7 DEF headerFPort, FrmPayload, body
  <2>5. headerFPort(f) = port
    BY <2>3, <2>4
  <2> QED
    BY <1>3, <2>1, <2>4, <2>5 DEF SentPayload, fopts, payload, key
<1> QED
  BY <1>2, <1>3

LEMMA DeviceFrameRead ==
  ASSUME NEW f, NEW s, DeviceFrame(f, s)
  PROVE  LET pk == parseData(f, FrKnown, FALSE)
         IN /\ Accepted(pk, s) /\ pk.errcode # IS_JOIN /\ pk.hdr.foptslen \in Nat
            /\ pk.errcode = LORA_OK =>
                 pk.fopts = s.fopts /\ pk.payload = s.payload /\ SameKind(pk, s)
<1>0. PICK addr, key, m :
        \E n \in Nat, port \in {-1, 0, 1, 223}, size \in Nat, counter \in Nat :
          IsFrameOf(f, s, addr, n, port, size, counter, key, m)
  BY DEF DeviceFrame
<1>1. PICK n \in Nat, port \in {-1, 0, 1, 223}, size \in Nat, counter \in Nat :
        IsFrameOf(f, s, addr, n, port, size, counter, key, m)
  BY <1>0
<1> DEFINE pk == parseData(f, FrKnown, FALSE)
           hdr == RFM_HEADER("up", addr, FALSE, n, counter)
           body == SentBody(addr, n, port, size, counter)
           mic == <<hdr, body, counter, 0, addr, key>>
           fopts == Content(n, 50)
           payload == SentPayload(port, size)
           t == headerFPort(f)
<1>2. /\ f = Frame(hdr, body, mic, m)
      /\ s = [by |-> "device", fopts |-> fopts, fport |-> port,
              payload |-> payload, counter |-> counter, key |-> key]
  BY <1>1 DEF IsFrameOf
<1>3. hdr.mtype = "up" /\ hdr.addr = addr /\ hdr.foptslen = n /\ hdr.fcnt = counter % 65536
  BY DEF RFM_HEADER
<1> HIDE DEF hdr, body, mic, fopts, payload, pk
<1>4. f.hdr = hdr /\ f.body = body /\ f.mic = mic
  BY <1>2 DEF Frame
<1>5. s.fopts = fopts /\ s.fport = port /\ s.payload = payload /\ s.counter = counter /\ s.key = key
  BY <1>2
<1>6. /\ headerFOpts(f) = fopts /\ (port # -1 => t = port)
      /\ encryptPayload(FrmPayload(f), counter % 65536, 0, addr, FrameKey(addr, t)) = payload
  BY <1>3, <1>4, SentBodyRead DEF body, fopts, payload
<1> HIDE DEF t
<1>7. /\ pk.hdr = hdr
      /\ pk.errcode = LORA_OK \/ pk.errcode = NOT_FOUND \/ pk.errcode = INVALID_MIC
      /\ pk.errcode = LORA_OK <=>
           /\ addr \in FrKnown
           /\ mic = calculateMIC(hdr, body, counter % 65536, 0, addr, nwkSKey(addr))
      /\ pk.errcode = LORA_OK =>
           /\ pk.fopts = fopts /\ pk.fport = t /\ pk.payload = payload
  <2>1. f.hdr.mtype = "up"
    BY <1>3, <1>4
  <2>2. /\ pk.hdr = f.hdr
        /\ pk.errcode = LORA_OK \/ pk.errcode = NOT_FOUND \/ pk.errcode = INVALID_MIC
        /\ pk.errcode = LORA_OK <=>
             /\ f.hdr.addr \in FrKnown
             /\ f.mic = calculateMIC(f.hdr, f.body, f.hdr.fcnt, 0, f.hdr.addr, nwkSKey(f.hdr.addr))
        /\ pk.errcode = LORA_OK =>
             /\ pk.fopts = headerFOpts(f) /\ pk.fport = t
             /\ pk.payload = encryptPayload(FrmPayload(f), f.hdr.fcnt, 0, f.hdr.addr,
                                            FrameKey(f.hdr.addr, t))
    BY <2>1, UplinkParsed DEF pk, t, FrameKey
  <2> QED
    BY <1>3, <1>4, <1>6, <2>2
<1>8. mic = calculateMIC(hdr, body, counter % 65536, 0, addr, nwkSKey(addr))
        <=> key = nwkSKey(addr) /\ counter < 65536
  <2> DEFINE c == counter % 65536
             k == nwkSKey(addr)
  <2>1. c % 65536 = c /\ (c = counter <=> counter < 65536)
    OBVIOUS
  <2>2. calculateMIC(hdr, body, c, 0, addr, k) = <<hdr, body, c, 0, addr, k>>
    BY <2>1 DEF calculateMIC
  <2> HIDE DEF c, k
  <2>3. <<hdr, body, counter, 0, addr, key>> = <<hdr, body, c, 0, addr, k>> <=> counter = c /\ key = k
    OBVIOUS
  <2> QED
    BY <2>1, <2>2, <2>3 DEF mic, c, k
<1>9. Accepted(pk, s)
  BY <1>3, <1>5, <1>7, <1>8 DEF Accepted
<1>10. pk.errcode # IS_JOIN /\ pk.hdr.foptslen \in Nat
  BY <1>3, <1>7 DEF IS_JOIN, LORA_OK, NOT_FOUND, INVALID_MIC
<1>11. ASSUME pk.errcode = LORA_OK PROVE SameKind(pk, s)
  <2>1. pk.fopts = fopts /\ pk.fport = t /\ pk.payload = payload /\ pk.hdr.foptslen = n
    BY <1>3, <1>7, <1>11
  <2>2. (n > 0 <=> fopts # <<>>) /\ n \in Nat
    <3> DEFINE from == 50
               S == ByteUnder({})
    <3>1. from \in Int
      OBVIOUS
    <3> HIDE DEF from
    <3>2. Content(n, from) \in Seq(S) /\ Len(Content(n, from)) = n
      BY <3>1, ContentIsPlain
    <3> HIDE DEF S
    <3>3. fopts \in Seq(S) /\ Len(fopts) = n
      BY <3>2 DEF from, fopts
    <3> QED
      BY <3>3
  <2>3. port = -1 => payload = <<>>
    BY DEF payload, SentPayload
  <2>4. hasApplicationPayload(pk) <=> port > 0 /\ payload # <<>>
    <3>1. CASE payload = <<>>
      BY <2>1, <3>1 DEF hasApplicationPayload
    <3>2. CASE payload # <<>>
      <4>1. t = port /\ (port \in 1 .. 223 <=> port > 0)
        BY <1>6, <2>3, <3>2
      <4> QED
        BY <2>1, <3>2, <4>1 DEF hasApplicationPayload
    <3> QED
      BY <3>1, <3>2
  <2>5. getMACs(pk) = IF fopts # <<>> THEN fopts ELSE IF port = 0 THEN payload ELSE <<>>
    <3>1. CASE fopts # <<>>
      BY <2>1, <2>2, <3>1 DEF getMACs
    <3>2. CASE fopts = <<>> /\ payload = <<>>
      BY <2>1, <2>2, <3>2 DEF getMACs, isPayloadMAC
    <3>3. CASE fopts = <<>> /\ payload # <<>>
      <4>1. t = port
        BY <1>6, <2>3, <3>3
      <4> QED
        BY <2>1, <2>2, <3>3, <4>1 DEF getMACs, isPayloadMAC
    <3> QED
      BY <3>1, <3>2, <3>3
  <2> QED
    BY <1>5, <2>4, <2>5 DEF SameKind
<1>12. pk.errcode = LORA_OK => pk.fopts = s.fopts /\ pk.payload = s.payload /\ SameKind(pk, s)
  BY <1>5, <1>7, <1>11
<1> QED
  BY <1>9, <1>10, <1>12 DEF pk

\* A packet has all the fields of the class, whatever their values.
Headers(V) == [mtype : V, addr : V, adr : V, foptslen : V, fcnt : V]
Packets(V) == [errcode : V, hdr : Headers(V), fopts : V, fport : V, payload : V]
WholePacket(pk) == \E V : pk \in Packets(V)

LEMMA DeviceFrameWhole ==
  ASSUME NEW f, NEW s, DeviceFrame(f, s), parseData(f, FrKnown, FALSE).errcode = LORA_OK
  PROVE  WholePacket(parseData(f, FrKnown, FALSE))
<1>0. PICK addr, key, m :
        \E n \in Nat, port \in {-1, 0, 1, 223}, size \in Nat, counter \in Nat :
          IsFrameOf(f, s, addr, n, port, size, counter, key, m)
  BY DEF DeviceFrame
<1>1. PICK n \in Nat, port \in {-1, 0, 1, 223}, size \in Nat, counter \in Nat :
        IsFrameOf(f, s, addr, n, port, size, counter, key, m)
  BY <1>0
<1>2. f.hdr = RFM_HEADER("up", addr, FALSE, n, counter)
  BY <1>1 DEF IsFrameOf, Frame
<1> DEFINE pk == parseData(f, FrKnown, FALSE)
           c == counter % 65536
           no == FALSE
           up == "up"
           h == f.hdr
           o == headerFOpts(f)
           t == headerFPort(f)
           key2 == IF t = 0 THEN nwkSKey(h.addr) ELSE appSKey(h.addr)
           plain == encryptPayload(FrmPayload(f), h.fcnt, 0, h.addr, key2)
           rest == FrmPayload(f)
           good == f.mic = calculateMIC(h, f.body, h.fcnt, 0, h.addr, nwkSKey(h.addr))
           new == [NewPacket(h) EXCEPT !.fopts = o, !.fport = t]
           ok == LORA_OK
           nothing == <<>>
           zero == 0
           V == {zero, ok, nothing, o, t, plain, rest, up, addr, no, n, c, NOT_FOUND, INVALID_MIC}
<1>3. h = [mtype |-> up, addr |-> addr, adr |-> no, foptslen |-> n, fcnt |-> c]
  BY <1>2 DEF RFM_HEADER
<1>4. h.mtype = "up"
  BY <1>3
<1>5. pk = IF h.addr \notin FrKnown THEN [new EXCEPT !.errcode = NOT_FOUND, !.payload = rest]
           ELSE IF ~good THEN [new EXCEPT !.errcode = INVALID_MIC]
           ELSE [new EXCEPT !.payload = plain]
  BY <1>4 DEF parseData
<1>6. NewPacket(h) = [errcode |-> ok, hdr |-> h, fopts |-> nothing, fport |-> zero, payload |-> nothing]
  BY DEF NewPacket
<1> DEFINE r == NewPacket(h)
<1>7. /\ zero \in V /\ ok \in V /\ nothing \in V /\ o \in V /\ t \in V /\ plain \in V /\ up \in V
      /\ addr \in V /\ no \in V /\ n \in V /\ c \in V
      /\ rest \in V /\ NOT_FOUND \in V /\ INVALID_MIC \in V
  OBVIOUS
<1> HIDE DEF pk, c, no, up, h, o, t, plain, good, ok, nothing, zero, V, r, rest
<1>8. h \in Headers(V)
  BY <1>3, <1>7 DEF Headers
<1>9. r \in Packets(V)
  BY <1>6, <1>7, <1>8 DEF Packets, r
<1>10. [r EXCEPT !.fopts = o, !.fport = t] \in Packets(V)
  BY <1>7, <1>9 DEF Packets
<1> DEFINE q == [r EXCEPT !.fopts = o, !.fport = t]
<1>11. /\ [q EXCEPT !.payload = plain] \in Packets(V)
       /\ [q EXCEPT !.errcode = INVALID_MIC] \in Packets(V)
       /\ [q EXCEPT !.errcode = NOT_FOUND, !.payload = rest] \in Packets(V)
  <2>1. q \in Packets(V)
    BY <1>10
  <2> HIDE DEF q
  <2> QED
    BY <1>7, <2>1 DEF Packets
<1>12. pk \in Packets(V)
  BY <1>5, <1>11 DEF r
<1> QED
  BY <1>12 DEF pk, WholePacket

\* appendMACs() of a packet without MAC commands.
LEMMA RequestAdded ==
  ASSUME NEW pk, NEW x, WholePacket(pk), pk.hdr.foptslen \in Nat, ~hasMACPayload(pk)
  PROVE  LET new == appendMACs(pk, <<x>>)
         IN /\ new.payload = pk.payload /\ new.errcode = pk.errcode /\ new.hdr.addr = pk.hdr.addr
            /\ getMACs(new) = <<x>>
<1> DEFINE one == <<x>>
           new == appendMACs(pk, one)
           have == getMACs(pk)
           d == Len(have) + Len(one)
           l == have \o one
<1>1. ~(pk.hdr.foptslen > 0) /\ ~isPayloadMAC(pk)
  BY DEF hasMACPayload
<1>2. have = <<>>
  BY <1>1 DEF getMACs
<1>3. d = 1 /\ l = one
  BY <1>2
<1>4. new = [pk EXCEPT !.fopts = l, !.hdr.foptslen = d]
  BY <1>1, <1>3 DEF appendMACs
<1>5. PICK V : pk \in Packets(V)
  BY DEF WholePacket
<1> HIDE DEF new, d, l, one
<1>6. /\ new.payload = pk.payload /\ new.errcode = pk.errcode /\ new.hdr.addr = pk.hdr.addr
      /\ new.fopts = l /\ new.hdr.foptslen = d
  BY <1>4, <1>5 DEF Packets, Headers
<1>7. getMACs(new) = one
  BY <1>3, <1>6 DEF getMACs
<1> QED
  BY <1>6, <1>7 DEF new, one

\* A frame that serialize2RfmPacket() wrote, without FOpts and with another
\* port than 0.
SerializedFrame(f, s) ==
    s.fopts = <<>> /\ s.fport # 0 =>
      \E addr : \E size \in Nat, c \in Nat :
        /\ f.hdr.mtype = "up" /\ f.hdr.addr = addr /\ f.hdr.foptslen = 0 /\ f.hdr.fcnt = c
        /\ c % 65536 = c /\ f.body = SentBody(addr, 0, 1, size, c)
        /\ s.fport = 1 /\ s.payload = Content(size, 100)

LEMMA SerializedFrameRead ==
  ASSUME NEW f, NEW s, SerializedFrame(f, s), s.fopts = <<>>, s.fport # 0,
         parseData(f, FrKnown, FALSE).errcode = LORA_OK
  PROVE  /\ parseData(f, FrKnown, FALSE).payload = s.payload
         /\ parseData(f, FrKnown, FALSE).fport = s.fport
         /\ parseData(f, FrKnown, FALSE).fopts = <<>>
<1>1. PICK addr : \E size \in Nat, c \in Nat :
        /\ f.hdr.mtype = "up" /\ f.hdr.addr = addr /\ f.hdr.foptslen = 0 /\ f.hdr.fcnt = c
        /\ c % 65536 = c /\ f.body = SentBody(addr, 0, 1, size, c)
        /\ s.fport = 1 /\ s.payload = Content(size, 100)
  BY DEF SerializedFrame
<1>2. PICK size \in Nat, c \in Nat :
        /\ f.hdr.mtype = "up" /\ f.hdr.addr = addr /\ f.hdr.foptslen = 0 /\ f.hdr.fcnt = c
        /\ c % 65536 = c /\ f.body = SentBody(addr, 0, 1, size, c)
        /\ s.fport = 1 /\ s.payload = Content(size, 100)
  BY <1>1
<1> DEFINE pk == parseData(f, FrKnown, FALSE)
           t == headerFPort(f)
<1>0. pk.errcode = LORA_OK
  OBVIOUS
<1> HIDE DEF pk, t
<1>7. f.hdr.mtype = "up"
  BY <1>2
<1>3. /\ pk.fport = t /\ pk.fopts = headerFOpts(f)
      /\ pk.payload = encryptPayload(FrmPayload(f), f.hdr.fcnt, 0, f.hdr.addr, FrameKey(f.hdr.addr, t))
  BY ONLY <1>0, <1>7, UplinkParsed DEF FrameKey, pk, t
<1>4. t = 1 /\ encryptPayload(FrmPayload(f), c % 65536, 0, addr, FrameKey(addr, t)) = SentPayload(1, size)
  <2> DEFINE n == 0
             port == 1
  <2>1. n \in Nat /\ port \in {-1, 0, 1, 223} /\ port # -1
    OBVIOUS
  <2>2. f.body = SentBody(addr, n, port, size, c) /\ f.hdr.foptslen = n
    BY <1>2
  <2> HIDE DEF n, port
  <2>3. /\ port # -1 => headerFPort(f) = port
        /\ encryptPayload(FrmPayload(f), c % 65536, 0, addr, FrameKey(addr, headerFPort(f)))
             = SentPayload(port, size)
    <3>1. n \in Nat /\ port \in {-1, 0, 1, 223} /\ size \in Nat /\ c \in Nat
      BY <2>1
    <3>2. f.body = SentBody(addr, n, port, size, c) /\ f.hdr.foptslen = n
      BY <2>2
    <3> QED
      BY ONLY <3>1, <3>2, SentBodyRead, SMTT(30)
  <2>4. t = port /\ encryptPayload(FrmPayload(f), c % 65536, 0, addr, FrameKey(addr, t)) = SentPayload(port, size)
    BY <2>1, <2>3 DEF t
  <2> QED
    BY <2>4 DEF port
<1>5. SentPayload(1, size) = Content(size, 100)
  BY DEF SentPayload
<1>6. pk.payload = s.payload /\ pk.fport = s.fport
  BY <1>2, <1>3, <1>4, <1>5
<1>8. pk.fopts = <<>>
  <2>1. 1 .. f.hdr.foptslen = {}
    BY <1>2
  <2>2. headerFOpts(f) = [i \in {} |-> IF i <= Len(f.body) THEN f.body[i] ELSE Byte(f.micByte)]
    BY <2>1, Zenon DEF headerFOpts
  <2>3. headerFOpts(f) = <<>>
    BY <2>2, SMT
  <2> QED
    BY <1>3, <2>3
<1> QED
  BY <1>6, <1>8 DEF pk

(***************************************************************************)
(* The invariant, stage by stage.                                          *)
(***************************************************************************)
AirInv ==
    /\ frStage = "start" => frSent.by = ""
    /\ frStage = "air" =>
         /\ frFrame.hdr.mtype # "down"
         /\ frSent.by = "device" => DeviceFrame(frFrame, frSent)
         /\ frSent.by = "serialize" => SerializedFrame(frFrame, frSent)

ReadInv ==
    frStage \notin {"start", "air"} /\ frSent.by = "device" =>
      /\ Accepted(frPk, frSent)
      /\ frStage \in {"read", "down"} => frPk.fopts = frSent.fopts /\ frPk.payload = frSent.payload
      /\ frStage = "read" =>
           SameKind(frPk, frSent) /\ frPk.hdr.foptslen \in Nat /\ WholePacket(frPk)
      /\ frStage = "end" /\ frPk.errcode = LORA_OK /\ frFrame.hdr.mtype = "up" =>
           frPk.payload = frSent.payload /\ getMACs(frPk) = <<Byte(6)>>

IsAnswer(f, pk) ==
    \E m : \E size \in Nat, fcnt \in Nat : f = mkPullResponse(pk, Content(size, 200), 0, fcnt, m)

DownInv ==
    /\ frMinor \in {0, 1}
    /\ frStage = "read" => frFrame.hdr.mtype # "down"
    /\ frStage = "down" =>
         /\ frFrame.hdr.mtype = "down"
         /\ frMinor = 0 /\ frFrame.hdr.addr # 0 => IsAnswer(frFrame, frPk)

FrInv == AirInv /\ ReadInv /\ DownInv /\ SerializedReadBack /\ AnswerReadBack

LEMMA FrInitInv == FrInit => FrInv
<1> SUFFICES ASSUME FrInit PROVE FrInv
  OBVIOUS
<1>1. frStage = "start" /\ frSent.by = "" /\ frMinor \in {0, 1}
  BY DEF FrInit, Nothing
<1> QED
  BY <1>1 DEF FrInv, AirInv, ReadInv, DownInv, SerializedReadBack, AnswerReadBack

\* A frame is sent.
LEMMA SentInv ==
  ASSUME FrInv, frStage' = "air", UNCHANGED <<frMinor, frPk, frGot>>, frFrame'.hdr.mtype # "down",
         frSent'.by = "device" => DeviceFrame(frFrame', frSent'),
         frSent'.by = "serialize" => SerializedFrame(frFrame', frSent')
  PROVE  FrInv'
<1>1. AirInv'
  BY DEF AirInv
<1>2. ReadInv' /\ SerializedReadBack' /\ AnswerReadBack'
  BY DEF ReadInv, SerializedReadBack, AnswerReadBack
<1>3. DownInv'
  BY DEF FrInv, DownInv
<1> QED
  BY <1>1, <1>2, <1>3 DEF FrInv

LEMMA DeviceSendsInv ==
  ASSUME FrInv, NEW addr, NEW n \in Nat, NEW port \in {-1, 0, 1, 223}, NEW size \in Nat,
         NEW counter \in Nat, NEW key, NEW m, DeviceSends(addr, n, port, size, counter, key, m)
  PROVE  FrInv'
<1>1. frStage' = "air" /\ UNCHANGED <<frMinor, frPk, frGot>>
  BY DEF DeviceSends
<1>2. IsFrameOf(frFrame', frSent', addr, n, port, size, counter, key, m)
  <2>1. CASE port = -1
    BY <2>1 DEF DeviceSends, IsFrameOf, SentBody, SentPayload, FrameKey
  <2>2. CASE port # -1
    BY <2>2 DEF DeviceSends, IsFrameOf, SentBody, SentPayload, FrameKey
  <2> QED
    BY <2>1, <2>2
<1>3. DeviceFrame(frFrame', frSent')
  BY <1>2 DEF DeviceFrame
<1>4. frFrame'.hdr.mtype # "down" /\ frSent'.by = "device"
  BY <1>2 DEF IsFrameOf, Frame, RFM_HEADER
<1> QED
  BY <1>1, <1>3, <1>4, SentInv

LEMMA OtherFrameInv ==
  ASSUME FrInv, NEW t \in {"short", "join_request"}, OtherFrame(t)
  PROVE  FrInv'
<1>1. frSent' = frSent /\ frSent.by = ""
  BY DEF OtherFrame, FrInv, AirInv
<1>2. frFrame'.hdr.mtype # "down"
  BY DEF OtherFrame, Frame, RFM_HEADER
<1>3. frStage' = "air" /\ UNCHANGED <<frMinor, frPk, frGot>>
  BY DEF OtherFrame
<1> QED
  BY <1>1, <1>2, <1>3, SentInv

\* serialize2RfmPacket() writes the body that a device would send.
LEMMA SerializedInv ==
  ASSUME FrInv, NEW addr, NEW n \in Nat, NEW port \in {0, 1}, NEW size \in Nat, NEW m,
         Serialized(addr, n, port, size, m)
  PROVE  FrInv'
<1> DEFINE seven == 7
           hdr == RFM_HEADER("up", addr, FALSE, n, seven)
           data == Content(size, 100)
           opts == Content(n, 50)
           pk == [NewPacket(hdr) EXCEPT !.fopts = opts, !.fport = port, !.payload = data]
           key == appSKey(addr)
           enc == encryptPayload(data, seven, 0, addr, key)
           body == <<Byte(port)>> \o enc
<1>1. hdr.mtype = "up" /\ hdr.addr = addr /\ hdr.foptslen = n /\ hdr.fcnt = seven
  BY DEF RFM_HEADER
<1>2. /\ frFrame' = serialize2RfmPacket(pk, FALSE, m)
      /\ frSent' = [by |-> "serialize", fopts |-> pk.fopts, fport |-> port,
                    payload |-> pk.payload, counter |-> 7, key |-> nwkSKey(addr)]
      /\ frStage' = "air" /\ UNCHANGED <<frMinor, frPk, frGot>>
  BY DEF Serialized
<1> HIDE DEF hdr, data, opts, seven
<1>3. pk.hdr = hdr /\ pk.fopts = opts /\ pk.fport = port /\ pk.payload = data
  BY DEF NewPacket
<1> HIDE DEF pk
<1>4. frFrame'.hdr = hdr /\ frFrame'.body = body
  <2> DEFINE mic == calculateMIC(pk.hdr, <<Byte(pk.fport)>> \o
                      encryptPayload(pk.payload, pk.hdr.fcnt, 0, pk.hdr.addr, appSKey(pk.hdr.addr)),
                      pk.hdr.fcnt, 0, pk.hdr.addr, nwkSKey(pk.hdr.addr))
             b == <<Byte(pk.fport)>> \o
                      encryptPayload(pk.payload, pk.hdr.fcnt, 0, pk.hdr.addr, appSKey(pk.hdr.addr))
  <2>1. frFrame' = Frame(pk.hdr, b, mic, m)
    BY <1>2 DEF serialize2RfmPacket, Signed
  <2>2. b = body
    BY <1>1, <1>3
  <2> HIDE DEF mic, b
  <2> QED
    BY <1>3, <2>1, <2>2 DEF Frame
<1>5. /\ frSent'.by = "serialize" /\ frSent'.fport = port /\ frSent'.payload = data
      /\ frSent'.fopts = opts
  BY <1>2, <1>3
<1>6. ASSUME port = 1 PROVE body = SentBody(addr, 0, 1, size, seven)
  <2>1. Content(0, 50) = <<>>
    <3> DEFINE from == 50
               none == 0
               S == ByteUnder({})
    <3>1. from \in Int /\ none \in Nat /\ none = 0
      OBVIOUS
    <3> HIDE DEF from, none
    <3>2. Content(none, from) \in Seq(S) /\ Len(Content(none, from)) = none
      BY <3>1, ContentIsPlain
    <3> HIDE DEF S
    <3>3. Content(none, from) = <<>>
      BY <3>1, <3>2
    <3> QED
      BY <3>3 DEF from, none
  <2>2. SentBody(addr, 0, 1, size, seven) = <<>> \o body
    BY <1>6, <2>1 DEF SentBody, SentPayload, FrameKey, data
  <2>3. \E S : body \in Seq(S)
    <3> DEFINE K == Stream(seven, 0, addr, key)
               from == 100
    <3>1. from \in Int
      OBVIOUS
    <3>2. Byte(port) \in ByteUnder(K)
      BY <1>6 DEF Byte, ByteUnder
    <3> HIDE DEF from, K, key
    <3>3. Content(size, from) \in Seq(ByteUnder(K)) /\ PlainBytes(Content(size, from))
      BY <3>1, ContentIsPlain
    <3>4. data \in Seq(ByteUnder(K)) /\ PlainBytes(data)
      BY <3>3 DEF data, from
    <3>5. seven \in Nat
      BY DEF seven
    <3>6. enc \in Seq(ByteUnder(K))
      BY <3>4, <3>5, EncryptedTwice DEF K
    <3> HIDE DEF enc
    <3>7. body \in Seq(ByteUnder(K))
      BY <3>2, <3>6
    <3> QED
      BY <3>7
  <2> HIDE DEF body
  <2>4. <<>> \o body = body
    BY <2>3, ConcatEmptySeq
  <2> QED
    BY <2>2, <2>4
<1>7. SerializedFrame(frFrame', frSent')
  <2> SUFFICES ASSUME opts = <<>>, port = 1
               PROVE  SerializedFrame(frFrame', frSent')
    BY <1>5 DEF SerializedFrame
  <2>0. n = 0
    <3> DEFINE from == 50
               S == ByteUnder({})
    <3>1. from \in Int
      OBVIOUS
    <3> HIDE DEF from
    <3>2. Content(n, from) \in Seq(S) /\ Len(Content(n, from)) = n
      BY <3>1, ContentIsPlain
    <3>3. Len(opts) = n
      BY <3>2 DEF opts, from
    <3> QED
      BY <3>3
  <2>1. seven \in Nat /\ seven % 65536 = seven
    BY DEF seven
  <2>2. frSent'.payload = Content(size, 100)
    BY <1>5 DEF data
  <2> HIDE DEF body
  <2>3. frFrame'.body = SentBody(addr, 0, 1, size, seven)
    BY <1>4, <1>6
  <2>4. /\ frFrame'.hdr.mtype = "up" /\ frFrame'.hdr.addr = addr /\ frFrame'.hdr.foptslen = 0
        /\ frFrame'.hdr.fcnt = seven
    BY <1>1, <1>4, <2>0
  <2> QED
    BY <1>5, <2>1, <2>2, <2>3, <2>4 DEF SerializedFrame
<1>8. frFrame'.hdr.mtype # "down" /\ frSent'.by # "device"
  BY <1>1, <1>4, <1>5
<1> QED
  BY <1>2, <1>7, <1>8, SentInv

LEMMA ToolSendsInv ==
  ASSUME FrInv, NEW addr, NEW size, NEW m, ToolSends(addr, size, m)
  PROVE  FrInv'
<1>1. frSent'.by = "dev-payload"
  BY DEF ToolSends
<1>2. frFrame'.hdr.mtype # "down"
  BY DEF ToolSends, mkPushDataPacket, Signed, Frame, RFM_HEADER
<1>3. frStage' = "air" /\ UNCHANGED <<frMinor, frPk, frGot>>
  BY DEF ToolSends
<1> QED
  BY <1>1, <1>2, <1>3, SentInv

LEMMA ServerReadsInv ==
  ASSUME FrInv, ServerReads
  PROVE  FrInv'
<1> DEFINE pk == parseData(frFrame, FrKnown, FALSE)
<1>1. /\ frStage = "air" /\ frPk' = pk /\ UNCHANGED <<frMinor, frFrame, frSent, frGot>>
      /\ frStage' = CASE pk.errcode = LORA_OK -> "read" [] pk.errcode = IS_JOIN -> "join" [] OTHER -> "end"
  BY DEF ServerReads
<1> HIDE DEF pk
<1>2. LORA_OK # IS_JOIN
  BY DEF LORA_OK, IS_JOIN
<1>3. /\ frStage' \in {"read", "join", "end"}
      /\ frStage' = "read" <=> pk.errcode = LORA_OK
  BY <1>1, <1>2
<1>4. frFrame.hdr.mtype # "down" /\ frMinor \in {0, 1}
  BY <1>1 DEF FrInv, AirInv, DownInv
<1>5. AirInv' /\ DownInv' /\ AnswerReadBack'
  BY <1>1, <1>3, <1>4 DEF AirInv, DownInv, AnswerReadBack
<1>6. ReadInv'
  <2> SUFFICES ASSUME frSent.by = "device" PROVE ReadInv'
    BY <1>1 DEF ReadInv
  <2>1. DeviceFrame(frFrame, frSent)
    BY <1>1 DEF FrInv, AirInv
  <2>2. /\ Accepted(pk, frSent) /\ pk.hdr.foptslen \in Nat
        /\ pk.errcode = LORA_OK =>
             pk.fopts = frSent.fopts /\ pk.payload = frSent.payload /\ SameKind(pk, frSent)
    BY <2>1, DeviceFrameRead DEF pk
  <2>3. pk.errcode = LORA_OK => WholePacket(pk)
    BY <2>1, DeviceFrameWhole DEF pk
  <2>4. Accepted(frPk', frSent')
    BY <1>1, <2>2
  <2>5. frStage' = "read" => /\ frPk'.fopts = frSent'.fopts /\ frPk'.payload = frSent'.payload
                             /\ SameKind(frPk', frSent') /\ frPk'.hdr.foptslen \in Nat
                             /\ WholePacket(frPk')
    BY <1>1, <1>3, <2>2, <2>3
  <2>6. frStage' = "end" => frPk'.errcode # LORA_OK
    BY <1>1, <1>3
  <2> QED
    BY <1>3, <2>4, <2>5, <2>6 DEF ReadInv
<1>7. SerializedReadBack'
  <2> SUFFICES ASSUME frStage' = "read", frSent.by = "serialize", frSent.fopts = <<>>, frSent.fport # 0
               PROVE  frPk'.payload = frSent'.payload /\ frPk'.fport = frSent'.fport /\ frPk'.fopts = <<>>
    BY <1>1, <1>3 DEF SerializedReadBack
  <2>1. SerializedFrame(frFrame, frSent)
    BY <1>1 DEF FrInv, AirInv
  <2>2. pk.payload = frSent.payload /\ pk.fport = frSent.fport /\ pk.fopts = <<>>
    BY <1>3, <2>1, SerializedFrameRead DEF pk
  <2> QED
    BY <1>1, <2>2
<1> QED
  BY <1>5, <1>6, <1>7 DEF FrInv

LEMMA PutMACRequestsInv ==
  ASSUME FrInv, PutMACRequests
  PROVE  FrInv'
<1> DEFINE x == Byte(6)
           new == appendMACs(frPk, <<x>>)
<1>1. /\ frStage = "read" /\ ~hasMACPayload(frPk) /\ frPk' = new /\ frStage' = "end"
      /\ UNCHANGED <<frMinor, frFrame, frSent, frGot>>
  BY DEF PutMACRequests
<1>2. frFrame.hdr.mtype # "down" /\ frMinor \in {0, 1}
  BY <1>1 DEF FrInv, DownInv
<1>3. AirInv' /\ DownInv' /\ AnswerReadBack' /\ SerializedReadBack'
  BY <1>1, <1>2 DEF AirInv, DownInv, AnswerReadBack, SerializedReadBack
<1>4. ReadInv'
  <2> SUFFICES ASSUME frSent.by = "device" PROVE ReadInv'
    BY <1>1 DEF ReadInv
  <2>1. /\ Accepted(frPk, frSent) /\ frPk.payload = frSent.payload
        /\ frPk.hdr.foptslen \in Nat /\ WholePacket(frPk)
    BY <1>1 DEF FrInv, ReadInv
  <2> HIDE DEF x
  <2>2. /\ new.payload = frPk.payload /\ new.errcode = frPk.errcode
        /\ new.hdr.addr = frPk.hdr.addr /\ getMACs(new) = <<x>>
    BY <1>1, <2>1, RequestAdded
  <2> HIDE DEF new
  <2>3. Accepted(new, frSent)
    BY <2>1, <2>2 DEF Accepted
  <2>4. Accepted(frPk', frSent') /\ frPk'.payload = frSent'.payload /\ getMACs(frPk') = <<Byte(6)>>
    BY <1>1, <2>1, <2>2, <2>3 DEF x
  <2> QED
    BY <1>1, <2>4 DEF ReadInv
<1> QED
  BY <1>3, <1>4 DEF FrInv

\* An answer is written.
LEMMA AnsweredInv ==
  ASSUME FrInv, frStage = "read", frStage' = "down", UNCHANGED <<frMinor, frSent, frPk, frGot>>,
         frFrame'.hdr.mtype = "down",
         frMinor = 0 /\ frFrame'.hdr.addr # 0 => IsAnswer(frFrame', frPk')
  PROVE  FrInv'
<1>1. AirInv' /\ AnswerReadBack'
  BY DEF AirInv, AnswerReadBack
<1>2. DownInv'
  BY DEF FrInv, DownInv
<1>3. ReadInv'
  <2> SUFFICES ASSUME frSent.by = "device" PROVE ReadInv'
    BY DEF ReadInv
  <2>1. Accepted(frPk, frSent) /\ frPk.fopts = frSent.fopts /\ frPk.payload = frSent.payload
    BY DEF FrInv, ReadInv
  <2>2. Accepted(frPk', frSent') /\ frPk'.fopts = frSent'.fopts /\ frPk'.payload = frSent'.payload
    BY <2>1
  <2> QED
    BY <2>2 DEF ReadInv
<1>4. SerializedReadBack'
  BY DEF FrInv, SerializedReadBack
<1> QED
  BY <1>1, <1>2, <1>3, <1>4 DEF FrInv

LEMMA ReplyMACInv ==
  ASSUME FrInv, NEW size \in Nat, NEW fcnt \in Nat, NEW m, ReplyMAC(size, fcnt, m)
  PROVE  FrInv'
<1>1. /\ frStage = "read" /\ frStage' = "down" /\ UNCHANGED <<frMinor, frSent, frPk, frGot>>
      /\ frFrame' = mkPullResponse(frPk, Content(size, 200), frMinor, fcnt, m)
  BY DEF ReplyMAC
<1>2. frFrame'.hdr.mtype = "down"
  BY <1>1 DEF mkPullResponse, Signed, Frame, MacHeader, RFM_HEADER
<1>3. frMinor = 0 => IsAnswer(frFrame', frPk')
  BY <1>1 DEF IsAnswer
<1> QED
  BY <1>1, <1>2, <1>3, AnsweredInv

\* The frame of replyControl() has address 0.
LEMMA ReplyControlInv ==
  ASSUME FrInv, NEW addr, NEW size, NEW fcnt, NEW m, ReplyControl(addr, size, fcnt, m)
  PROVE  FrInv'
<1>1. /\ frStage = "read" /\ frStage' = "down" /\ UNCHANGED <<frMinor, frSent, frPk, frGot>>
      /\ frFrame' = mkMACRequest(addr, Content(size, 200), frMinor, fcnt, m)
  BY DEF ReplyControl
<1>2. frFrame'.hdr.mtype = "down" /\ frFrame'.hdr.addr = 0
  BY <1>1 DEF mkMACRequest, Signed, Frame, MacHeader, RFM_HEADER
<1> QED
  BY <1>1, <1>2, AnsweredInv

\* A LoRaWAN 1.0 device finds the MIC of an answer right and the commands in FOpts.
LEMMA AnswerRead ==
  ASSUME NEW f, NEW pk, IsAnswer(f, pk), f.hdr.foptslen > 0
  PROVE  /\ f.hdr.addr = pk.hdr.addr
         /\ f.mic = calculateMIC(f.hdr, f.body, f.hdr.fcnt, 1, pk.hdr.addr, nwkSKey(pk.hdr.addr))
         /\ headerFOpts(f) = Content(f.hdr.foptslen, 200)
<1>0. PICK m : \E size \in Nat, fcnt \in Nat : f = mkPullResponse(pk, Content(size, 200), 0, fcnt, m)
  BY DEF IsAnswer
<1>1. PICK size \in Nat, fcnt \in Nat : f = mkPullResponse(pk, Content(size, 200), 0, fcnt, m)
  BY <1>0
<1> DEFINE a == pk.hdr.addr
           from == 200
           data == Content(size, from)
           hdr == MacHeader(a, data, fcnt)
           body == MacBody(data)
           mic == calculateMIC(hdr, body, hdr.fcnt, 1, hdr.addr, nwkSKey(a))
           S == ByteUnder({})
<1>2. f = Frame(hdr, body, mic, m)
  BY <1>1 DEF mkPullResponse, Signed
<1>3. from \in Int
  OBVIOUS
<1> HIDE DEF from
<1>4. data \in Seq(S) /\ Len(data) = size
  BY <1>3, ContentIsPlain
<1>5. hdr.addr = a /\ hdr.foptslen = IF Len(data) <= 15 THEN Len(data) ELSE 0
  BY DEF MacHeader, RFM_HEADER
<1> HIDE DEF hdr, body, mic, S
<1>6. f.hdr = hdr /\ f.body = body /\ f.mic = mic
  BY <1>2 DEF Frame
<1>7. Len(data) <= 15 /\ f.hdr.foptslen = size
  BY <1>4, <1>5, <1>6
<1>8. body = data
  BY <1>7 DEF body, MacBody
<1> HIDE DEF data, a
<1>9. SubSeq(data, 1, size) = data
  BY <1>4
<1>10. headerFOpts(f) = data
  <2>1. f.body \in Seq(S) /\ f.hdr.foptslen \in 0 .. Len(f.body)
    BY <1>4, <1>6, <1>7, <1>8
  <2> QED
    BY <1>6, <1>7, <1>8, <1>9, <2>1, FOptsInBody
<1>11. f.mic = calculateMIC(f.hdr, f.body, f.hdr.fcnt, 1, a, nwkSKey(a))
  BY <1>5, <1>6 DEF mic
<1>12. data = Content(f.hdr.foptslen, 200)
  BY <1>7 DEF data, from
<1> QED
  BY <1>5, <1>6, <1>10, <1>11, <1>12 DEF a

LEMMA DeviceReadsInv ==
  ASSUME FrInv, DeviceReads
  PROVE  FrInv'
<1>1. frStage = "down" /\ frStage' = "end" /\ UNCHANGED <<frMinor, frFrame, frSent, frPk>>
  BY DEF DeviceReads
<1>2. /\ frMinor \in {0, 1} /\ frFrame.hdr.mtype = "down"
      /\ frMinor = 0 /\ frFrame.hdr.addr # 0 => IsAnswer(frFrame, frPk)
  BY <1>1 DEF FrInv, DownInv
<1>3. AirInv' /\ DownInv' /\ SerializedReadBack'
  BY <1>1, <1>2 DEF AirInv, DownInv, SerializedReadBack
<1>4. ReadInv'
  <2> SUFFICES ASSUME frSent.by = "device" PROVE ReadInv'
    BY <1>1 DEF ReadInv
  <2>1. Accepted(frPk, frSent)
    BY <1>1 DEF FrInv, ReadInv
  <2>2. Accepted(frPk', frSent') /\ frFrame'.hdr.mtype # "up"
    BY <1>1, <1>2, <2>1
  <2> QED
    BY <1>1, <2>2 DEF ReadInv
<1>5. AnswerReadBack'
  <2> SUFFICES ASSUME frMinor = 0, frFrame.hdr.addr # 0, frFrame.hdr.foptslen > 0
               PROVE  frGot' = Content(frFrame.hdr.foptslen, 200)
    BY <1>1 DEF AnswerReadBack
  <2> DEFINE a == frPk.hdr.addr
             n == frFrame.hdr.foptslen
             given == Content(n, 200)
  <2>1. /\ frFrame.hdr.addr = a
        /\ frFrame.mic = calculateMIC(frFrame.hdr, frFrame.body, frFrame.hdr.fcnt, 1, a, nwkSKey(a))
        /\ headerFOpts(frFrame) = given
    BY <1>2, AnswerRead
  <2>2. n # 0
    BY DEF n
  <2> HIDE DEF given
  <2>3. frGot' = headerFOpts(frFrame)
    BY <2>1, <2>2 DEF DeviceReads
  <2> QED
    BY <2>1, <2>3 DEF given
<1> QED
  BY <1>3, <1>4, <1>5 DEF FrInv

LEMMA JoinAcceptInv ==
  ASSUME FrInv, JoinAccept
  PROVE  FrInv'
<1>1. frStage = "join" /\ frStage' = "joined" /\ UNCHANGED <<frMinor, frFrame, frSent, frPk>>
  BY DEF JoinAccept
<1>2. AirInv' /\ DownInv' /\ SerializedReadBack' /\ AnswerReadBack'
  BY <1>1 DEF FrInv, AirInv, DownInv, SerializedReadBack, AnswerReadBack
<1>3. ReadInv'
  <2> SUFFICES ASSUME frSent.by = "device" PROVE ReadInv'
    BY <1>1 DEF ReadInv
  <2>1. Accepted(frPk, frSent)
    BY <1>1 DEF FrInv, ReadInv
  <2>2. Accepted(frPk', frSent')
    BY <1>1, <2>1
  <2> QED
    BY <1>1, <2>2 DEF ReadInv
<1> QED
  BY <1>2, <1>3 DEF FrInv

LEMMA FrNextInv == FrInv /\ [FrNext]_frVars => FrInv'
<1> SUFFICES ASSUME FrInv, [FrNext]_frVars PROVE FrInv'
  OBVIOUS
<1> DEFINE Ports == {-1, 0, 1, 223}
<1>1. ASSUME NEW a \in FrAddrs, NEW n \in FrSizes, NEW p \in Ports, NEW s \in FrSizes,
             NEW c \in FrCounters, NEW m \in MicBytes, NEW key \in {nwkSKey(a), appSKey(a)},
             DeviceSends(a, n, p, s, c, key, m)
      PROVE  FrInv'
  <2>1. n \in Nat /\ s \in Nat /\ c \in Nat
    BY FrAssumption
  <2> QED
    BY <1>1, <2>1, DeviceSendsInv
<1>2. ASSUME NEW t \in {"short", "join_request"}, OtherFrame(t) PROVE FrInv'
  BY <1>2, OtherFrameInv
<1>3. ASSUME NEW a \in FrAddrs, NEW n \in FrSizes, NEW p \in {0, 1}, NEW s \in FrSizes,
             NEW m \in MicBytes, Serialized(a, n, p, s, m)
      PROVE  FrInv'
  <2>1. n \in Nat /\ s \in Nat
    BY FrAssumption
  <2> QED
    BY <1>3, <2>1, SerializedInv
<1>4. ASSUME NEW a \in FrAddrs, NEW s \in FrSizes, NEW m \in MicBytes, ToolSends(a, s, m) PROVE FrInv'
  BY <1>4, ToolSendsInv
<1>5. ASSUME NEW s \in FrSizes, NEW c \in {8, 9}, NEW m, ReplyMAC(s, c, m) PROVE FrInv'
  <2>1. s \in Nat /\ c \in Nat
    BY FrAssumption
  <2> QED
    BY <1>5, <2>1, ReplyMACInv
<1>6. ASSUME NEW a \in FrAddrs, NEW s \in FrSizes, NEW c, NEW m, ReplyControl(a, s, c, m) PROVE FrInv'
  BY <1>6, ReplyControlInv
<1>7. CASE UNCHANGED frVars
  <2>1. UNCHANGED <<frStage, frMinor, frFrame, frSent, frPk, frGot>>
    BY <1>7 DEF frVars
  <2>2. AirInv'
    BY <2>1 DEF FrInv, AirInv
  <2>3. ReadInv'
    BY <2>1 DEF FrInv, ReadInv
  <2>4. DownInv'
    BY <2>1 DEF FrInv, DownInv
  <2>5. SerializedReadBack' /\ AnswerReadBack'
    BY <2>1 DEF FrInv, SerializedReadBack, AnswerReadBack
  <2> QED
    BY <2>2, <2>3, <2>4, <2>5 DEF FrInv
<1>8. CASE FrNext
  <2>1. CASE ServerReads
    BY <2>1, ServerReadsInv
  <2>2. CASE PutMACRequests
    BY <2>2, PutMACRequestsInv
  <2>3. CASE DeviceReads
    BY <2>3, DeviceReadsInv
  <2>4. CASE JoinAccept
    BY <2>4, JoinAcceptInv
  <2> QED
    BY <1>1, <1>2, <1>3, <1>4, <1>5, <1>6, <1>8, <2>1, <2>2, <2>3, <2>4 DEF FrNext
<1> QED
  BY <1>7, <1>8

LEMMA FrAlways == FrInit /\ [][FrNext]_frVars => []FrInv
<1> QED
  BY FrInitInv, FrNextInv, PTL

\* The server accepts the frames of the devices it knows that were signed
\* with the network session key under a counter of 16 bits, and no others,
\* and reads FOpts and payload as they were sent (utillora.cpp:2442), for
\* all addresses, lengths and counters.
THEOREM UplinksReadBack == FrInit /\ [][FrNext]_frVars => []UplinkReadBack
<1>1. FrInv => UplinkReadBack
  BY DEF FrInv, ReadInv, UplinkReadBack, Accepted
<1> QED
  BY <1>1, FrAlways, PTL

\* Application data is never taken for MAC commands, nor MAC commands for
\* data (utillora.cpp:1748), whatever bytes the frame and its MIC have.
THEOREM KindsKept == FrInit /\ [][FrNext]_frVars => []KindKept
<1>1. FrInv => KindKept
  BY DEF FrInv, ReadInv, KindKept, SameKind
<1> QED
  BY <1>1, FrAlways, PTL

\* A request added to a packet keeps its data (lora-packet-handler-impl.cpp:97),
\* a LoRaWAN 1.0 device reads the answer to its commands (utillora.cpp:2672)
\* and a serialized packet without FOpts, on another port than 0, is read back
\* (utillora.cpp:2195), of every size.
THEOREM WrittenFramesAreRead == FrInit /\ [][FrNext]_frVars => []WrittenFramesReadable
<1>1. FrInv => WrittenFramesReadable
  <2>1. FrInv => RequestKeepsPayload
    BY DEF FrInv, ReadInv, RequestKeepsPayload
  <2> QED
    BY <2>1 DEF FrInv, WrittenFramesReadable
<1> QED
  BY <1>1, FrAlways, PTL

(***************************************************************************)
(* What the table of the settings says, row by row.                        *)
(***************************************************************************)
WrittenAndRead == {
    <<"bool", "bool">>, <<"string", "string">>, <<"int", "int">>, <<"uint", "uint">>,
    <<"uint", "int">>, <<"int", "uint">>, <<"double", "number">>, <<"double", "double">>,
    <<"bandwidth", "bandwidth">>, <<"bandwidth", "fskwidth">>, <<"uint", "scantime">>,
    <<"array", "array">>, <<"array", "array8">>, <<"string", "comtype">>,
    <<"string", "mode">>, <<"string", "radiotype">>, <<"digits", "digits">>, <<"factors", "factors">>,
    <<"none", "uint">>}
Gates == {"scan", "lbt", "multisf", "std", "implicit_hdr", "fsk", "radio", "fine"}
LbtElements == {"lbt.freq_hz", "lbt.bandwidth", "scan_time_us", "transmit_time_ms"}
LutElements == {"pwr_idx", "rf_power", "pa_gain", "dig_gain", "dac_gain", "mix_gain"}
OwnDefault == {"keepalive_interval", "stat_interval", "beacon_freq_hz", "beacon_freq_nb",
               "beacon_datarate", "beacon_bw_hz", "beacon_power"}
RowOK(r) ==
    /\ <<r[3], r[4]>> \in WrittenAndRead
    /\ r[4] = "fskwidth" => r[1] = "fsk.bandwidth"
    /\ r[1] = "fsk.bandwidth" => r[3] = "bandwidth" /\ r[4] = "fskwidth"
    /\ r[1] = "spreading_factor_enable" => r[3] = "factors" /\ r[4] = "factors"
    /\ r[4] = "factors" => r[1] = "spreading_factor_enable"
    /\ r[1] = "gps_tty_path" => r[3] = "string" /\ r[4] = "string"
    /\ r[1] = "ref_payload" => r[2] = "debug_conf" /\ r[3] = "array" /\ r[4] = "array8"
    /\ r[1] = "ref_payload.id" => r[2] = "debug_conf"
    /\ r[4] = "scantime" => r[1] = "scan_time_us"
    /\ r[1] \in {"mode", "type", "com_type"} => r[3] = "string"
    /\ r[1] \in OwnDefault => r[3] = "uint" /\ r[4] = "int"
    /\ r[1] \in Gates => r[3] = "bool" /\ r[4] = "bool"
    /\ r[1] = "radio" => r[2] = "radio"
    /\ r[1] = "fine" => r[2] = "fine_timestamp"
    /\ r[1] \in LbtElements => r[2] = "lbt"
    /\ r[1] \in LutElements => r[2] = "radio"
    /\ r[1] = "lbt.channels" => r[2] = "lbt" /\ r[3] = "array" /\ r[4] = "array8"
    /\ r[1] = "tx_gain_lut" => r[2] = "radio" /\ r[3] = "array" /\ r[4] = "array"
    /\ r[1] = "mix_gain" => r[3] = "uint" /\ r[4] = "uint"

LEMMA RowsOK == \A r \in GcRows : RowOK(r)
<1> USE DEF RowOK, WrittenAndRead, Gates, LbtElements, LutElements, OwnDefault
<1>1. \A r \in Sx1261Rows : RowOK(r)
  BY DEF Sx1261Rows
<1>2. \A r \in RadioRows : RowOK(r)
  BY DEF RadioRows
<1>3. \A r \in BoardRows : RowOK(r)
  BY DEF BoardRows
<1>4. \A r \in ServerRows : RowOK(r)
  BY DEF ServerRows
<1>5. \A r \in DebugRows : RowOK(r)
  BY DEF DebugRows
<1> HIDE DEF RowOK
<1> QED
  BY <1>1, <1>2, <1>3, <1>4, <1>5 DEF GcRows

LEMMA RowOf ==
  ASSUME NEW f \in Settings
  PROVE  GcRow[f] \in GcRows /\ GcRow[f][1] = f /\ RowOK(GcRow[f])
<1>1. \E r \in GcRows : r[1] = f
  BY DEF Settings, NamesOf
<1>2. GcRow[f] = CHOOSE r \in GcRows : r[1] = f
  BY DEF GcRow
<1>3. GcRow[f] \in GcRows /\ GcRow[f][1] = f
  BY <1>1, <1>2
<1> QED
  BY <1>3, RowsOK

LEMMA NamesKnown ==
  /\ Gates \subseteq Settings
  /\ {"lbt.channels", "tx_gain_lut", "com_type", "pwr_idx"} \subseteq Settings
  /\ {"ref_payload", "gps_tty_path"} \subseteq Settings
<1>1. \A r \in GcRows : r[1] \in Settings
  BY DEF Settings, NamesOf
<1>2. /\ <<"scan", "spectral_scan", "bool", "bool">> \in GcRows /\ <<"lbt", "lbt", "bool", "bool">> \in GcRows
      /\ <<"lbt.channels", "lbt", "array", "array8">> \in GcRows
  BY DEF GcRows, Sx1261Rows
<1>3. /\ <<"radio", "radio", "bool", "bool">> \in GcRows /\ <<"tx_gain_lut", "radio", "array", "array">> \in GcRows
      /\ <<"pwr_idx", "radio", "uint", "uint">> \in GcRows
  BY DEF GcRows, RadioRows
<1>4. /\ <<"com_type", "board", "string", "comtype">> \in GcRows
      /\ <<"fine", "fine_timestamp", "bool", "bool">> \in GcRows
      /\ <<"multisf", "chan_multiSF", "bool", "bool">> \in GcRows
      /\ <<"std", "chan_Lora_std", "bool", "bool">> \in GcRows
      /\ <<"implicit_hdr", "chan_Lora_std", "bool", "bool">> \in GcRows
      /\ <<"fsk", "chan_FSK", "bool", "bool">> \in GcRows
  BY DEF GcRows, BoardRows
<1>4a. /\ <<"ref_payload", "debug_conf", "array", "array8">> \in GcRows
       /\ <<"gps_tty_path", "gateway_conf", "string", "string">> \in GcRows
  BY DEF GcRows, DebugRows, ServerRows
<1>4b. "ref_payload" \in Settings /\ "gps_tty_path" \in Settings
  BY <1>1, <1>4a
<1>5. /\ "scan" \in Settings /\ "lbt" \in Settings /\ "lbt.channels" \in Settings /\ "radio" \in Settings
      /\ "tx_gain_lut" \in Settings /\ "pwr_idx" \in Settings /\ "com_type" \in Settings
      /\ "fine" \in Settings /\ "multisf" \in Settings /\ "std" \in Settings
      /\ "implicit_hdr" \in Settings /\ "fsk" \in Settings
  BY <1>1, <1>2, <1>3, <1>4
<1> QED
  BY <1>4b, <1>5 DEF Gates

(***************************************************************************)
(* Readers and writers of one setting.                                     *)
(***************************************************************************)
\* The reader of each test.
LEMMA TakeIs ==
  ASSUME NEW f, NEW j
  PROVE  LET t == TestOf(f)
         IN /\ t = "bool" => Take(f, j) = IF TypeOf(j) = "bool" THEN ValueOf(j) ELSE Default(f)
            /\ t = "int" => Take(f, j) = IF TypeOf(j) = "number" THEN ValueOf(j) ELSE Default(f)
            /\ t = "number" => Take(f, j) = IF TypeOf(j) = "number" \/ TypeOf(j) = "double"
                                            THEN ValueOf(j) ELSE Default(f)
            /\ t = "double" => Take(f, j) = IF TypeOf(j) = "double" THEN ValueOf(j) ELSE Default(f)
            /\ t = "uint" => Take(f, j) = IF IsUint(j) THEN ValueOf(j) ELSE Default(f)
            /\ t = "bandwidth" => Take(f, j) = IF IsUint(j) THEN hz2bandwidth(ValueOf(j)) ELSE Default(f)
            /\ t = "fskwidth" => Take(f, j) = IF IsUint(j) THEN fsk2bandwidth(ValueOf(j)) ELSE Default(f)
            /\ t = "scantime" => Take(f, j) = IF IsUint(j) THEN (IF ValueOf(j) = 128 THEN 128 ELSE 5000)
                                              ELSE Default(f)
            /\ t = "string" => Take(f, j) = IF TypeOf(j) = "string" THEN ValueOf(j) ELSE Default(f)
            /\ t = "digits" => Take(f, j) = IF TypeOf(j) = "digits" THEN ValueOf(j) ELSE Default(f)
            /\ t = "factors" => Take(f, j) = IF TypeOf(j) = "factors" THEN ValueOf(j) \cap (5 .. 12)
                                             ELSE Default(f)
            /\ t = "comtype" => Take(f, j) = IF TypeOf(j) = "string" /\ ValueOf(j) \in {"SPI", "USB"}
                                             THEN ValueOf(j) ELSE Default(f)
            /\ t = "mode" => Take(f, j) = IF TypeOf(j) = "string" /\ ValueOf(j) \in {"all_sf", "high_capacity"}
                                          THEN ValueOf(j) ELSE Default(f)
            /\ t = "radiotype" => Take(f, j) = IF TypeOf(j) = "string" /\ ValueOf(j) \in {"SX1255", "SX1257", "SX1250"}
                                               THEN ValueOf(j) ELSE Default(f)
            /\ t = "array" => Take(f, j) = IF TypeOf(j) = "array" THEN Clip(ValueOf(j)) ELSE Default(f)
            /\ t = "array8" => Take(f, j) = IF TypeOf(j) = "array" THEN Clip(ValueOf(j) % 256) ELSE Default(f)
<1> DEFINE t == TestOf(f)
           e == Default(f)
           v == ValueOf(j)
           y == TypeOf(j)
           u == IsUint(j)
<1>1. t = "bool" => Take(f, j) = IF y = "bool" THEN v ELSE e
  BY DEF Take
<1>2. t = "int" => Take(f, j) = IF y = "number" THEN v ELSE e
  BY DEF Take
<1>3. t = "number" => Take(f, j) = IF y = "number" \/ y = "double" THEN v ELSE e
  BY DEF Take
<1>4. t = "double" => Take(f, j) = IF y = "double" THEN v ELSE e
  BY DEF Take
<1>5. t = "uint" => Take(f, j) = IF u THEN v ELSE e
  BY DEF Take
<1>6. t = "bandwidth" => Take(f, j) = IF u THEN hz2bandwidth(v) ELSE e
  BY DEF Take
<1>7. t = "fskwidth" => Take(f, j) = IF u THEN fsk2bandwidth(v) ELSE e
  BY DEF Take
<1>8. t = "scantime" => Take(f, j) = IF u THEN (IF v = 128 THEN 128 ELSE 5000) ELSE e
  BY DEF Take
<1>9. t = "string" => Take(f, j) = IF y = "string" THEN v ELSE e
  BY DEF Take
<1>9a. t = "digits" => Take(f, j) = IF y = "digits" THEN v ELSE e
  BY DEF Take
<1>9b. t = "factors" => Take(f, j) = IF y = "factors" THEN v \cap (5 .. 12) ELSE e
  BY DEF Take
<1>10. t = "comtype" => Take(f, j) = IF y = "string" /\ v \in {"SPI", "USB"} THEN v ELSE e
  BY DEF Take
<1>11. t = "mode" => Take(f, j) = IF y = "string" /\ v \in {"all_sf", "high_capacity"} THEN v ELSE e
  BY DEF Take
<1>12. t = "radiotype" => Take(f, j) = IF y = "string" /\ v \in {"SX1255", "SX1257", "SX1250"} THEN v ELSE e
  BY DEF Take
<1>13. t = "array" => Take(f, j) = IF y = "array" THEN Clip(v) ELSE e
  BY DEF Take
<1>14. t = "array8" => Take(f, j) = IF y = "array" THEN Clip(v % 256) ELSE e
  BY DEF Take
<1> QED
  BY <1>1, <1>2, <1>3, <1>4, <1>5, <1>6, <1>7, <1>8, <1>9, <1>9a, <1>9b, <1>10, <1>11, <1>12, <1>13, <1>14

\* reset() leaves 0 in the settings that are read as unsigned numbers.
LEMMA DefaultIs ==
  ASSUME NEW f \in Settings,
         TestOf(f) \in {"uint", "bandwidth", "fskwidth", "scantime", "array", "array8"}
  PROVE  Default(f) = 0
<1>1. RowOK(GcRow[f]) /\ GcRow[f][1] = f
  BY RowOf
<1>2. WriterOf(f) # "bool" /\ WriterOf(f) # "string" /\ f \notin OwnDefault
  BY <1>1 DEF RowOK, WrittenAndRead, WriterOf, TestOf
<1>3. f \notin {"mode", "type", "com_type"}
  BY <1>1, <1>2 DEF RowOK, WriterOf
<1>4. TestOf(f) # "string" /\ f # "spreading_factor_enable"
  BY <1>1 DEF RowOK, TestOf
<1>5. /\ f # "keepalive_interval" /\ f # "stat_interval" /\ f # "beacon_freq_hz" /\ f # "beacon_freq_nb"
      /\ f # "beacon_datarate" /\ f # "beacon_bw_hz" /\ f # "beacon_power"
      /\ f # "mode" /\ f # "type" /\ f # "com_type"
  BY <1>2, <1>3 DEF OwnDefault
<1> QED
  BY ONLY <1>2, <1>4, <1>5 DEF Default

LEMMA DoublesDefault ==
  ASSUME NEW f \in Settings, TestOf(f) \in {"double", "number"}
  PROVE  Default(f) = 0
<1>1. RowOK(GcRow[f]) /\ GcRow[f][1] = f
  BY RowOf
<1>2. WriterOf(f) = "double" /\ f \notin OwnDefault
  BY <1>1 DEF RowOK, WrittenAndRead, WriterOf, TestOf
<1>3. f \notin {"mode", "type", "com_type", "spreading_factor_enable"}
  BY <1>1, <1>2 DEF RowOK, WriterOf
<1>4. TestOf(f) # "string"
  OBVIOUS
<1>5. /\ f # "keepalive_interval" /\ f # "stat_interval" /\ f # "beacon_freq_hz" /\ f # "beacon_freq_nb"
      /\ f # "beacon_datarate" /\ f # "beacon_bw_hz" /\ f # "beacon_power"
      /\ f # "mode" /\ f # "type" /\ f # "com_type" /\ f # "spreading_factor_enable"
  BY <1>2, <1>3 DEF OwnDefault
<1> QED
  BY ONLY <1>2, <1>4, <1>5 DEF Default

LEMMA FactorsDefault ==
  ASSUME NEW f \in Settings, TestOf(f) = "factors"
  PROVE  Default(f) = 5 .. 12
<1>1. RowOK(GcRow[f]) /\ GcRow[f][1] = f
  BY RowOf
<1>2. f = "spreading_factor_enable" /\ WriterOf(f) = "factors" /\ TestOf(f) = "factors"
  BY <1>1 DEF RowOK, WriterOf, TestOf
<1> DEFINE factors == 5 .. 12
           w == WriterOf(f)
           t == TestOf(f)
           empty == ""
<1>3. Default(f) =
    CASE f \in {"keepalive_interval", "stat_interval"} -> 5
      [] f = "beacon_freq_hz" -> 869525000 [] f = "beacon_freq_nb" -> 1
      [] f = "beacon_datarate" -> 9 [] f = "beacon_bw_hz" -> 125000 [] f = "beacon_power" -> 14
      [] w = "bool" -> FALSE
      [] f = "spreading_factor_enable" -> factors
      [] f = "mode" -> "high_capacity" [] f \in {"type", "com_type"} -> "none"
      [] t = "string" -> empty
      [] OTHER -> 0
  BY DEF Default
<1>4. w = "factors" /\ t = "factors"
  BY <1>2
<1> HIDE DEF factors, w, t, empty
<1>5. Default(f) = factors
  BY ONLY <1>2, <1>3, <1>4
<1> QED
  BY <1>5 DEF factors

\* Values of JSON, and what the settings can be after they were read.
Json(j) ==
    /\ TypeOf(j) = "number" => ValueOf(j) \in Int
    /\ TypeOf(j) = "array" => ValueOf(j) \in Nat
    /\ TypeOf(j) = "double" => ValueOf(j) \in Int

SettingOK(f, v) ==
    LET t == TestOf(f)
    IN /\ t = "uint" => v \in Nat
       /\ t \in {"bandwidth", "fskwidth"} => v \in {0, 4, 5, 6}
       /\ t = "scantime" => v \in {0, 128, 5000}
       /\ t \in {"array", "array8"} => v \in 0 .. MaxElements
       /\ t = "factors" => v \subseteq 5 .. 12
       /\ t \in {"double", "number"} => v \in Int
       /\ t \in {"comtype", "mode", "radiotype"} => v = Default(f) \/ Take(f, GcJ("string", v)) = v

LEMMA DefaultOK == ASSUME NEW f \in Settings PROVE SettingOK(f, Default(f))
<1>1. TestOf(f) \in {"uint", "bandwidth", "fskwidth", "scantime", "array", "array8"} => Default(f) = 0
  BY DefaultIs
<1>2. TestOf(f) = "factors" => Default(f) = 5 .. 12
  BY FactorsDefault
<1>3. TestOf(f) \in {"double", "number"} => Default(f) = 0
  BY DoublesDefault
<1> QED
  BY <1>1, <1>2, <1>3 DEF SettingOK, MaxElements

LEMMA TakenOK == ASSUME NEW f \in Settings, NEW j, Json(j) PROVE SettingOK(f, Take(f, j))
<1> DEFINE t == TestOf(f)
           v == ValueOf(j)
           taken == Take(f, j)
<1>1. t \in {"uint", "bandwidth", "fskwidth", "scantime", "array", "array8"} => Default(f) = 0
  BY DefaultIs
<1>2. TypeOf(GcJ("string", taken)) = "string" /\ ValueOf(GcJ("string", taken)) = taken
  BY DEF GcJ, TypeOf, ValueOf
<1>3. IsUint(j) => v \in Nat
  BY DEF IsUint, Json
<1>4. TypeOf(j) = "array" => v \in Nat
  BY DEF Json
<1> HIDE DEF v
<1>5. CASE t = "uint"
  BY <1>1, <1>3, <1>5, TakeIs DEF SettingOK, v
<1>6. CASE t = "bandwidth"
  <2>1. taken = IF IsUint(j) THEN hz2bandwidth(v) ELSE Default(f)
    BY <1>6, TakeIs DEF v
  <2>2. hz2bandwidth(v) \in {0, 4, 5, 6}
    BY DEF hz2bandwidth
  <2> HIDE DEF taken
  <2>3. taken \in {0, 4, 5, 6}
    BY <1>1, <1>6, <2>1, <2>2
  <2> QED
    BY <1>6, <2>3 DEF SettingOK, taken
<1>7. CASE t = "fskwidth"
  <2>1. taken = IF IsUint(j) THEN fsk2bandwidth(v) ELSE Default(f)
    BY <1>7, TakeIs DEF v
  <2>2. fsk2bandwidth(v) \in {0, 4, 5, 6}
    BY DEF fsk2bandwidth
  <2> HIDE DEF taken
  <2>3. taken \in {0, 4, 5, 6}
    BY <1>1, <1>7, <2>1, <2>2
  <2> QED
    BY <1>7, <2>3 DEF SettingOK, taken
<1>8. CASE t = "scantime"
  BY <1>1, <1>8, TakeIs DEF SettingOK
<1>9. CASE t \in {"array", "array8"}
  <2>1. \A n \in Nat : Clip(n) \in 0 .. MaxElements /\ n % 256 \in Nat
    BY DEF Clip, MaxElements
  <2>2. taken \in 0 .. MaxElements
    <3>1. CASE TypeOf(j) = "array"
      <4>1. taken = Clip(v) \/ taken = Clip(v % 256)
        BY <1>9, <3>1, TakeIs DEF v
      <4> QED
        BY <1>4, <2>1, <3>1, <4>1
    <3>2. CASE TypeOf(j) # "array"
      <4>1. taken = Default(f)
        BY <1>9, <3>2, TakeIs
      <4> QED
        BY <1>1, <1>9, <4>1 DEF MaxElements
    <3> QED
      BY <3>1, <3>2
  <2> QED
    BY <1>9, <2>2 DEF SettingOK
<1>10. CASE t \in {"comtype", "mode", "radiotype"}
  <2>1. taken = Default(f) \/ Take(f, GcJ("string", taken)) = taken
    <3> DEFINE w == GcJ("string", taken)
    <3>1. TypeOf(w) = "string" /\ ValueOf(w) = taken
      BY <1>2
    <3> HIDE DEF w
    <3>2. CASE t = "comtype"
      BY <3>1, <3>2, TakeIs DEF w
    <3>3. CASE t = "mode"
      BY <3>1, <3>3, TakeIs DEF w
    <3>4. CASE t = "radiotype"
      BY <3>1, <3>4, TakeIs DEF w
    <3> QED
      BY <1>10, <3>2, <3>3, <3>4
  <2> QED
    BY <1>10, <2>1 DEF SettingOK
<1>10a. CASE t = "factors"
  <2>1. taken = IF TypeOf(j) = "factors" THEN v \cap (5 .. 12) ELSE Default(f)
    BY <1>10a, TakeIs DEF v
  <2>2. Default(f) = 5 .. 12
    BY <1>10a, FactorsDefault
  <2> HIDE DEF taken
  <2>3. taken \subseteq 5 .. 12
    BY <2>1, <2>2
  <2> QED
    BY <1>10a, <2>3 DEF SettingOK, taken
<1>10b. CASE t \in {"double", "number"}
  <2>1. Default(f) = 0 /\ (TypeOf(j) \in {"number", "double"} => v \in Int)
    BY <1>10b, DoublesDefault DEF Json, v
  <2>2. (taken = v /\ TypeOf(j) \in {"number", "double"}) \/ taken = Default(f)
    BY <1>10b, TakeIs DEF v
  <2> HIDE DEF taken
  <2>3. taken \in Int
    BY <2>1, <2>2
  <2> QED
    BY <1>10b, <2>3 DEF SettingOK, taken
<1> HIDE DEF taken, t
<1>11. CASE t \notin {"uint", "bandwidth", "fskwidth", "scantime", "array", "array8", "comtype", "mode", "radiotype",
                     "factors", "double", "number"}
  BY <1>11 DEF SettingOK, t
<1> QED
  BY <1>5, <1>6, <1>7, <1>8, <1>9, <1>10, <1>10a, <1>10b, <1>11 DEF taken

\* The writer of each type of member.
LEMMA WriteIs ==
  ASSUME NEW f, NEW v
  PROVE  LET w == WriterOf(f)
             j == writeSetting(f, v)
         IN /\ w = "bool" => j = <<"bool", v>>
            /\ w = "int" => j = <<"number", v>>
            /\ w = "uint" => j = IF v < 0 THEN <<"huge", 0>> ELSE <<"number", v>>
            /\ w = "double" => j = <<"double", v>>
            /\ w = "bandwidth" => j = <<"number", bandwidthIndex2hz(v)>>
            /\ w = "array" => j = <<"array", v>>
            /\ w = "digits" => j = <<"digits", v>>
            /\ w = "factors" => j = <<"factors", v>>
            /\ w = "string" => j = <<"string", v>>
<1> DEFINE w == WriterOf(f)
           j == writeSetting(f, v)
<1>1. (w = "bool" => j = <<"bool", v>>) /\ (w = "int" => j = <<"number", v>>)
  BY DEF writeSetting, GcJ
<1>2. (w = "uint" => j = IF v < 0 THEN <<"huge", 0>> ELSE <<"number", v>>)
  BY DEF writeSetting, GcJ
<1>3. (w = "double" => j = <<"double", v>>) /\ (w = "bandwidth" => j = <<"number", bandwidthIndex2hz(v)>>)
  BY DEF writeSetting, GcJ
<1>4. (w = "array" => j = <<"array", v>>) /\ (w = "string" => j = <<"string", v>>)
  BY DEF writeSetting, GcJ
<1>5. (w = "digits" => j = <<"digits", v>>) /\ (w = "factors" => j = <<"factors", v>>)
  BY DEF writeSetting, GcJ
<1> QED
  BY <1>1, <1>2, <1>3, <1>4, <1>5

\* Reader and writer of a setting agree.
LEMMA WrittenBack ==
  ASSUME NEW f \in Settings, NEW v, SettingOK(f, v)
  PROVE  Take(f, writeSetting(f, v)) = v \/ LostWhenWritten(f, v)
<1> DEFINE w == WriterOf(f)
           t == TestOf(f)
           j == writeSetting(f, v)
           y == TypeOf(j)
           x == ValueOf(j)
<1>0. RowOK(GcRow[f]) /\ GcRow[f][1] = f
  BY RowOf
<1>1. /\ <<w, t>> \in WrittenAndRead
      /\ t = "fskwidth" => f = "fsk.bandwidth"
      /\ t = "scantime" => f = "scan_time_us"
  BY <1>0 DEF RowOK, WriterOf, TestOf
<1>2. \A a, b : j = <<a, b>> => y = a /\ x = b
  BY DEF TypeOf, ValueOf
<1> HIDE DEF j, y, x
<1>3. CASE t \in {"bool", "double", "number", "string", "digits"}
  <2>0. /\ t = "bool" => w = "bool"
        /\ t = "digits" => w = "digits"
        /\ t = "double" => w = "double"
        /\ t = "number" => w = "double"
        /\ t = "string" => w = "string"
    BY <1>1 DEF WrittenAndRead
  <2>2. /\ t = "bool" => j = <<"bool", v>>
        /\ t = "digits" => j = <<"digits", v>>
        /\ t = "double" => j = <<"double", v>>
        /\ t = "number" => j = <<"double", v>>
        /\ t = "string" => j = <<"string", v>>
    BY <2>0, WriteIs DEF j
  <2>3. /\ t = "bool" => y = "bool"
        /\ t = "digits" => y = "digits"
        /\ t = "double" => y = "double"
        /\ t = "number" => y = "double"
        /\ t = "string" => y = "string"
    BY <1>2, <2>2
  <2>4. x = v
    BY <1>2, <1>3, <2>2
  <2>5. Take(f, j) = x
    BY <1>3, <2>3, TakeIs DEF x, y
  <2> QED
    BY <2>4, <2>5 DEF j
<1>4. CASE t = "int"
  <2>1. w \in {"int", "uint"}
    BY <1>1, <1>4 DEF WrittenAndRead
  <2>2. CASE w = "uint" /\ v < 0
    BY <1>4, <2>2 DEF LostWhenWritten
  <2>3. CASE w = "int" \/ ~(v < 0)
    <3>1. j = <<"number", v>>
      BY <2>1, <2>3, WriteIs DEF j
    <3>2. y = "number" /\ x = v
      BY <1>2, <3>1
    <3>3. Take(f, j) = x
      BY <1>4, <3>2, TakeIs DEF x, y
    <3> QED
      BY <3>2, <3>3 DEF j
  <2> QED
    BY <2>1, <2>2, <2>3
<1>4a. CASE w = "none"
  BY <1>4a DEF LostWhenWritten
<1>5. CASE t = "uint" /\ w # "none"
  <2>1. w \in {"int", "uint"}
    BY <1>1, <1>5 DEF WrittenAndRead
  <2>2. v \in Nat
    BY <1>5 DEF SettingOK
  <2>3. j = <<"number", v>>
    BY <2>1, <2>2, WriteIs DEF j
  <2>4. y = "number" /\ x = v
    BY <1>2, <2>3
  <2>5. IsUint(j)
    BY <2>2, <2>4 DEF IsUint, x, y
  <2>6. Take(f, j) = x
    BY <1>5, <2>5, TakeIs DEF x
  <2> QED
    BY <2>4, <2>6 DEF j
<1>6. CASE t \in {"bandwidth", "fskwidth"}
  <2>1. w = "bandwidth"
    BY <1>1, <1>6 DEF WrittenAndRead
  <2>2. v \in {0, 4, 5, 6}
    BY <1>6 DEF SettingOK
  <2>3. j = <<"number", bandwidthIndex2hz(v)>>
    BY <2>1, WriteIs DEF j
  <2>4. y = "number" /\ x = bandwidthIndex2hz(v)
    BY <1>2, <2>3
  <2>5. /\ bandwidthIndex2hz(v) \in Nat /\ hz2bandwidth(bandwidthIndex2hz(v)) = v
        /\ v # 0 => fsk2bandwidth(bandwidthIndex2hz(v)) = v
    <3> DEFINE hz == bandwidthIndex2hz(v)
    <3>1. /\ v = 0 => hz = 20000
          /\ v = 4 => hz = 125000
          /\ v = 5 => hz = 250000
          /\ v = 6 => hz = 500000
      BY <2>2 DEF bandwidthIndex2hz
    <3> HIDE DEF hz
    <3>2. hz \in Nat /\ hz2bandwidth(hz) = v
      <4>1. CASE v = 0
        BY <3>1, <4>1 DEF hz2bandwidth
      <4>2. CASE v = 4
        BY <3>1, <4>2 DEF hz2bandwidth
      <4>3. CASE v = 5
        BY <3>1, <4>3 DEF hz2bandwidth
      <4>4. CASE v = 6
        BY <3>1, <4>4 DEF hz2bandwidth
      <4> QED
        BY <2>2, <4>1, <4>2, <4>3, <4>4
    <3>3. v # 0 => fsk2bandwidth(hz) = v
      <4>1. CASE v = 4
        BY <3>1, <4>1 DEF fsk2bandwidth
      <4>2. CASE v = 5
        BY <3>1, <4>2 DEF fsk2bandwidth
      <4>3. CASE v = 6
        BY <3>1, <4>3 DEF fsk2bandwidth
      <4> QED
        BY <2>2, <4>1, <4>2, <4>3
    <3> QED
      BY <3>2, <3>3 DEF hz
  <2>6. IsUint(j)
    BY <2>4, <2>5 DEF IsUint, x, y
  <2>7. CASE t = "bandwidth"
    <3>1. Take(f, j) = hz2bandwidth(x)
      BY <2>6, <2>7, TakeIs DEF x
    <3> QED
      BY <2>4, <2>5, <3>1 DEF j
  <2>8. CASE t = "fskwidth"
    <3>1. Take(f, j) = fsk2bandwidth(x)
      BY <2>6, <2>8, TakeIs DEF x
    <3>2. v = 0 => LostWhenWritten(f, v)
      BY <1>1, <2>8 DEF LostWhenWritten
    <3> QED
      BY <2>4, <2>5, <3>1, <3>2 DEF j
  <2> QED
    BY <1>6, <2>7, <2>8
<1>7. CASE t = "scantime"
  <2>1. w = "uint"
    BY <1>1, <1>7 DEF WrittenAndRead
  <2>2. v \in {0, 128, 5000}
    BY <1>7 DEF SettingOK
  <2>3. j = <<"number", v>>
    BY <2>1, <2>2, WriteIs DEF j
  <2>4. y = "number" /\ x = v
    BY <1>2, <2>3
  <2>5. IsUint(j)
    BY <2>2, <2>4 DEF IsUint, x, y
  <2>6. Take(f, j) = IF x = 128 THEN 128 ELSE 5000
    BY <1>7, <2>5, TakeIs DEF x
  <2>7. v = 0 => LostWhenWritten(f, v)
    BY <1>1, <1>7 DEF LostWhenWritten
  <2> QED
    BY <2>2, <2>4, <2>6, <2>7 DEF j
<1>8. CASE t \in {"array", "array8"}
  <2>1. w = "array"
    BY <1>1, <1>8 DEF WrittenAndRead
  <2>2. v \in 0 .. MaxElements
    BY <1>8 DEF SettingOK
  <2>3. j = <<"array", v>>
    BY <2>1, WriteIs DEF j
  <2>4. y = "array" /\ x = v
    BY <1>2, <2>3
  <2>5. Clip(v) = v /\ Clip(v % 256) = v
    BY <2>2 DEF Clip, MaxElements
  <2>6. Take(f, j) = Clip(x) \/ Take(f, j) = Clip(x % 256)
    BY <1>8, <2>4, TakeIs DEF x, y
  <2> QED
    BY <2>4, <2>5, <2>6 DEF j
<1>8a. CASE t = "factors"
  <2>1. w = "factors"
    BY <1>1, <1>8a DEF WrittenAndRead
  <2>2. v \subseteq 5 .. 12
    BY <1>8a DEF SettingOK
  <2>3. j = <<"factors", v>>
    BY <2>1, WriteIs DEF j
  <2>4. y = "factors" /\ x = v
    BY <1>2, <2>3
  <2>5. v \cap (5 .. 12) = v
    BY <2>2
  <2>6. Take(f, j) = x \cap (5 .. 12)
    BY <1>8a, <2>4, TakeIs DEF x, y
  <2> QED
    BY <2>4, <2>5, <2>6 DEF j
<1>9. CASE t \in {"comtype", "mode", "radiotype"}
  <2>1. w = "string"
    BY <1>1, <1>9 DEF WrittenAndRead
  <2>2. j = GcJ("string", v)
    BY <2>1, WriteIs DEF j, GcJ
  <2>3. CASE Take(f, GcJ("string", v)) = v
    BY <2>2, <2>3 DEF j
  <2>4. CASE v = Default(f)
    <3>1. y = "string" /\ x = v
      BY <1>2, <2>2 DEF GcJ
    <3>2. Take(f, j) = x \/ Take(f, j) = Default(f)
      BY <1>9, <3>1, TakeIs DEF x, y
    <3> QED
      BY <2>4, <3>1, <3>2 DEF j
  <2> QED
    BY <1>9, <2>3, <2>4 DEF SettingOK
<1>10. t \in {"bool", "double", "number", "string", "int", "uint", "bandwidth", "fskwidth", "scantime",
              "array", "array8", "comtype", "mode", "radiotype", "digits", "factors"}
  BY <1>1 DEF WrittenAndRead
<1> HIDE DEF t, w
<1> QED
  BY <1>3, <1>4, <1>4a, <1>5, <1>6, <1>7, <1>8, <1>8a, <1>9, <1>10

(***************************************************************************)
(* Switches and arrays on which a setting depends.                         *)
(***************************************************************************)
GateOf(f) == IF GcRow[f][2] \in DOMAIN Enable THEN Enable[GcRow[f][2]] ELSE f
GateOpen(doc, f) ==
    /\ GateOf(f) # f => doc[GateOf(f)] # NoMember
    /\ GateOf(f) # f /\ GcRow[f][2] \in OnlyWhenTrue => Take(GateOf(f), doc[GateOf(f)])
ElementsThere(doc, f) == ElementOf(f) # f => Take(ElementOf(f), doc[ElementOf(f)]) > 0

LEMMA ParseSettingIs ==
  ASSUME NEW doc, NEW f
  PROVE  parseSetting(doc, f) =
           IF ~(GateOpen(doc, f) /\ ElementsThere(doc, f)) THEN Default(f)
           ELSE IF f = "mix_gain" /\ ~IsUint(doc[f]) /\ IsUint(doc["pwr_idx"]) THEN 5
           ELSE IF f = "fsk.bandwidth" THEN fskBandwidth(doc)
           ELSE Take(f, doc[f])
BY DEF parseSetting, GateOpen, ElementsThere, GateOf

\* The deviation counts only without a bandwidth.
LEMMA FskIs ==
  ASSUME NEW doc
  PROVE  /\ fskBandwidth(doc) \in {0, 4, 5, 6}
         /\ IsUint(doc["fsk.bandwidth"]) /\ ValueOf(doc["fsk.bandwidth"]) # 0 =>
              fskBandwidth(doc) = fsk2bandwidth(ValueOf(doc["fsk.bandwidth"]))
<1>1. \A hz : fsk2bandwidth(hz) \in {0, 4, 5, 6}
  BY DEF fsk2bandwidth
<1> QED
  BY <1>1 DEF fskBandwidth

LEMMA GateFacts ==
  ASSUME NEW f \in Settings, GateOf(f) # f
  PROVE  /\ GateOf(f) \in Settings /\ WriterOf(GateOf(f)) = "bool" /\ TestOf(GateOf(f)) = "bool"
         /\ ElementOf(GateOf(f)) = GateOf(f) /\ GateOf(f) \notin {"mix_gain", "fsk.bandwidth"}
         /\ GcRow[f][2] \in OnlyWhenTrue => GateOf(GateOf(f)) = GateOf(f)
<1> DEFINE g == GateOf(f)
           o == GcRow[f][2]
<1>1. /\ DOMAIN Enable = {"spectral_scan", "lbt", "chan_multiSF", "chan_Lora_std", "implicit", "chan_FSK",
                          "radio", "fine_timestamp"}
      /\ \A x \in DOMAIN Enable : Enable[x] \in Gates
      /\ Enable["radio"] = "radio" /\ Enable["fine_timestamp"] = "fine"
  BY DEF Enable, Gates
<1>2. o \in DOMAIN Enable /\ g = Enable[o]
  BY DEF GateOf
<1>3. g \in Gates /\ g \in Settings
  BY <1>1, <1>2, NamesKnown
<1> HIDE DEF g, o
<1>4. RowOK(GcRow[g]) /\ GcRow[g][1] = g
  BY <1>3, RowOf
<1>5. WriterOf(g) = "bool" /\ TestOf(g) = "bool"
  BY <1>3, <1>4 DEF RowOK, WriterOf, TestOf
<1>6. ElementOf(g) = g /\ g \notin {"mix_gain", "fsk.bandwidth"}
  BY <1>3 DEF Gates, ElementOf
<1>7. ASSUME o \in OnlyWhenTrue PROVE GateOf(g) = g
  <2>1. \/ o = "radio" /\ g = "radio"
        \/ o = "fine_timestamp" /\ g = "fine"
    BY <1>1, <1>2, <1>7 DEF OnlyWhenTrue
  <2>2. GcRow[g][2] = o
    BY <1>4, <2>1 DEF RowOK
  <2> QED
    BY <1>1, <2>1, <2>2 DEF GateOf
<1> QED
  BY <1>3, <1>5, <1>6, <1>7 DEF g, o

LEMMA ElementFacts ==
  ASSUME NEW f \in Settings, ElementOf(f) # f
  PROVE  LET e == ElementOf(f)
         IN /\ e \in Settings /\ WriterOf(e) = "array" /\ TestOf(e) \in {"array", "array8"}
            /\ ElementOf(e) = e /\ e \notin {"mix_gain", "fsk.bandwidth", "scan_time_us"}
            /\ \A doc : GateOpen(doc, e) <=> GateOpen(doc, f)
<1> DEFINE e == ElementOf(f)
<1>1. \/ f \in LbtElements /\ e = "lbt.channels"
      \/ f \in LutElements /\ e = "tx_gain_lut"
      \/ f = "ref_payload.id" /\ e = "ref_payload"
  BY DEF ElementOf, LbtElements, LutElements
<1>2. e \in Settings
  BY <1>1, NamesKnown
<1>3. ElementOf(e) = e /\ e \notin {"mix_gain", "fsk.bandwidth", "scan_time_us"}
  BY <1>1 DEF ElementOf
<1> HIDE DEF e
<1>4. RowOK(GcRow[e]) /\ GcRow[e][1] = e /\ RowOK(GcRow[f]) /\ GcRow[f][1] = f
  BY <1>2, RowOf
<1>5. WriterOf(e) = "array" /\ TestOf(e) \in {"array", "array8"}
  BY <1>1, <1>4 DEF RowOK, WriterOf, TestOf
<1>6. GcRow[e][2] = GcRow[f][2]
  BY <1>1, <1>4 DEF RowOK
<1>7. \/ GcRow[f][2] = "lbt" /\ GateOf(f) = "lbt" /\ GateOf(e) = "lbt"
      \/ GcRow[f][2] = "radio" /\ GateOf(f) = "radio" /\ GateOf(e) = "radio"
      \/ GcRow[f][2] = "debug_conf" /\ GateOf(f) = f /\ GateOf(e) = e
  <2>1. GcRow[f][2] = "lbt" \/ GcRow[f][2] = "radio" \/ GcRow[f][2] = "debug_conf"
    BY <1>1, <1>4 DEF RowOK
  <2>2. /\ "lbt" \in DOMAIN Enable /\ "radio" \in DOMAIN Enable
        /\ Enable["lbt"] = "lbt" /\ Enable["radio"] = "radio" /\ "debug_conf" \notin DOMAIN Enable
    BY DEF Enable
  <2> QED
    BY <1>6, <2>1, <2>2 DEF GateOf
<1>8. \/ GateOf(e) = GateOf(f) /\ GateOf(e) # e /\ GateOf(f) # f
      \/ GateOf(e) = e /\ GateOf(f) = f
  BY <1>1, <1>7 DEF LbtElements, LutElements
<1>9. \A doc : GateOpen(doc, e) <=> GateOpen(doc, f)
  BY <1>6, <1>8 DEF GateOpen
<1> QED
  BY <1>2, <1>3, <1>5, <1>9 DEF e

(***************************************************************************)
(* A file of any members, its settings, the file that is written and what  *)
(* is read from that.                                                      *)
(***************************************************************************)
LEMMA ParsedOK ==
  ASSUME NEW doc, NEW f \in Settings, Json(doc[f])
  PROVE  SettingOK(f, parseSetting(doc, f))
<1>1. CASE parseSetting(doc, f) = Default(f)
  BY <1>1, DefaultOK
<1>2. CASE parseSetting(doc, f) = Take(f, doc[f])
  BY <1>2, TakenOK
<1>3. CASE f = "mix_gain" /\ parseSetting(doc, f) = 5
  <2>1. TestOf(f) = "uint"
    BY <1>3, RowOf DEF RowOK, TestOf
  <2> QED
    BY <1>3, <2>1 DEF SettingOK
<1>4. CASE f = "fsk.bandwidth" /\ parseSetting(doc, f) = fskBandwidth(doc)
  <2>1. TestOf(f) = "fskwidth"
    BY <1>4, RowOf DEF RowOK, TestOf
  <2>2. parseSetting(doc, f) \in {0, 4, 5, 6}
    BY <1>4, FskIs
  <2> QED
    BY <2>1, <2>2 DEF SettingOK
<1> QED
  BY <1>1, <1>2, <1>3, <1>4, ParseSettingIs

LEMMA ReadAgain ==
  ASSUME NEW doc, \A h \in Settings : Json(doc[h]),
         NEW c, \A h \in Settings : c[h] = parseSetting(doc, h),
         NEW new, \A h \in Settings :
           new[h] = IF ElementOf(h) # h /\ c[ElementOf(h)] = 0 THEN NoMember ELSE writeSetting(h, c[h]),
         NEW f \in Settings
  PROVE  parseSetting(new, f) = c[f] \/ LostWhenWritten(f, c[f])
<1> DEFINE g == GateOf(f)
           e == ElementOf(f)
<1>1. \A h \in Settings : SettingOK(h, c[h])
  BY ParsedOK
<1>2. \A h \in Settings : Take(h, writeSetting(h, c[h])) = c[h] \/ LostWhenWritten(h, c[h])
  BY <1>1, WrittenBack
\* A switch is written whatever it is.
<1>3. ASSUME g # f PROVE new[g] # NoMember /\ Take(g, new[g]) = c[g]
  <2>1. g \in Settings /\ WriterOf(g) = "bool" /\ TestOf(g) = "bool" /\ ElementOf(g) = g
    BY <1>3, GateFacts
  <2> HIDE DEF g
  <2>2. new[g] = writeSetting(g, c[g])
    BY <2>1
  <2>3. new[g] = <<"bool", c[g]>>
    BY <2>1, <2>2, WriteIs
  <2>4. TypeOf(new[g]) = "bool" /\ ValueOf(new[g]) = c[g]
    BY <2>3 DEF TypeOf, ValueOf
  <2>5. TypeOf(NoMember) = "absent"
    BY DEF TypeOf, NoMember, GcJ
  <2>6. new[g] # NoMember
    BY <2>4, <2>5
  <2>7. Take(g, new[g]) = c[g]
    BY <2>1, <2>4, TakeIs
  <2> QED
    BY <2>6, <2>7
<1>4. ASSUME e # f PROVE Take(e, new[e]) = c[e] /\ c[e] \in 0 .. MaxElements
  <2>1. /\ e \in Settings /\ WriterOf(e) = "array" /\ TestOf(e) \in {"array", "array8"}
        /\ ElementOf(e) = e /\ e \notin {"mix_gain", "fsk.bandwidth", "scan_time_us"}
    BY <1>4, ElementFacts
  <2> HIDE DEF e
  <2>2. new[e] = writeSetting(e, c[e])
    BY <2>1
  <2>3. ~LostWhenWritten(e, c[e])
    BY <2>1 DEF LostWhenWritten
  <2>4. c[e] \in 0 .. MaxElements
    BY <1>1, <2>1 DEF SettingOK
  <2> QED
    BY <1>2, <2>1, <2>2, <2>3, <2>4
<1>5. CASE GateOpen(new, f) /\ ElementsThere(new, f)
  <2>1. e # f => c[e] # 0
    <3>1. ASSUME e # f PROVE c[e] # 0
      <4>1. c[e] > 0 /\ c[e] \in 0 .. MaxElements
        BY <1>4, <1>5, <3>1 DEF ElementsThere
      <4> HIDE DEF e
      <4> QED
        BY <4>1
    <3> QED
      BY <3>1
  <2>2. new[f] = writeSetting(f, c[f])
    BY <2>1
  <2>3. f = "mix_gain" => IsUint(new[f])
    <3> SUFFICES ASSUME f = "mix_gain" PROVE IsUint(new[f])
      OBVIOUS
    <3>1. WriterOf(f) = "uint" /\ TestOf(f) = "uint"
      BY RowOf DEF RowOK, WriterOf, TestOf
    <3>2. c[f] \in Nat
      BY <1>1, <3>1 DEF SettingOK
    <3> DEFINE v == c[f]
               j == new[f]
    <3>3. j = <<"number", v>>
      BY <2>2, <3>1, <3>2, WriteIs
    <3>4. v \in Nat
      BY <3>2
    <3> HIDE DEF v, j
    <3>5. TypeOf(j) = "number" /\ ValueOf(j) = v
      BY <3>3 DEF TypeOf, ValueOf
    <3>6. IsUint(j)
      BY <3>4, <3>5 DEF IsUint
    <3> QED
      BY <3>6 DEF j
  <2>3a. f = "fsk.bandwidth" => fskBandwidth(new) = Take(f, new[f])
    <3> SUFFICES ASSUME f = "fsk.bandwidth" PROVE fskBandwidth(new) = Take(f, new[f])
      OBVIOUS
    <3> DEFINE j == new[f]
               hz == bandwidthIndex2hz(c[f])
    <3>1. WriterOf(f) = "bandwidth" /\ TestOf(f) = "fskwidth"
      BY RowOf DEF RowOK, WriterOf, TestOf
    <3>2. hz \in Nat /\ hz # 0
      BY DEF bandwidthIndex2hz
    <3>3. j = <<"number", hz>>
      BY <2>2, <3>1, WriteIs
    <3> HIDE DEF hz, j
    <3>4. TypeOf(j) = "number" /\ ValueOf(j) = hz
      BY <3>3 DEF TypeOf, ValueOf
    <3>5. IsUint(j)
      BY <3>2, <3>4 DEF IsUint
    <3>6. Take(f, j) = fsk2bandwidth(ValueOf(j))
      BY <3>1, <3>5, TakeIs
    <3>7. fskBandwidth(new) = fsk2bandwidth(ValueOf(j))
      BY <3>2, <3>4, <3>5, FskIs DEF j
    <3> QED
      BY <3>6, <3>7 DEF j
  <2>4. parseSetting(new, f) = Take(f, new[f])
    BY <1>5, <2>3, <2>3a, ParseSettingIs
  <2> QED
    BY <1>2, <2>2, <2>4
\* What is switched off, or in an empty array, has been so in the first file.
<1>6. CASE ~GateOpen(new, f)
  <2>1. g # f /\ GcRow[f][2] \in OnlyWhenTrue /\ ~Take(g, new[g])
    BY <1>3, <1>6 DEF GateOpen
  <2>2. g \in Settings /\ ElementOf(g) = g /\ GateOf(g) = g /\ g \notin {"mix_gain", "fsk.bandwidth"}
    BY <2>1, GateFacts
  <2>3. GateOpen(doc, g) /\ ElementsThere(doc, g)
    BY <2>2 DEF GateOpen, ElementsThere
  <2>4. c[g] = Take(g, doc[g])
    BY <2>2, <2>3, ParseSettingIs
  <2>5. ~Take(g, doc[g])
    BY <1>3, <2>1, <2>4
  <2>6. ~GateOpen(doc, f)
    BY <2>1, <2>5 DEF GateOpen
  <2>7. c[f] = Default(f) /\ parseSetting(new, f) = Default(f)
    BY <1>6, <2>6, ParseSettingIs
  <2> QED
    BY <2>7
<1>7. CASE GateOpen(new, f) /\ ~ElementsThere(new, f)
  <2>1. e # f /\ ~(Take(e, new[e]) > 0)
    BY <1>7 DEF ElementsThere
  <2>2. /\ e \in Settings /\ ElementOf(e) = e /\ e \notin {"mix_gain", "fsk.bandwidth"}
        /\ GateOpen(doc, e) <=> GateOpen(doc, f)
    BY <2>1, ElementFacts
  <2>3. ~(c[e] > 0)
    BY <1>4, <2>1
  <2>4. ~(GateOpen(doc, f) /\ ElementsThere(doc, f))
    <3> SUFFICES ASSUME GateOpen(doc, f), ElementsThere(doc, f) PROVE FALSE
      OBVIOUS
    <3>1. GateOpen(doc, e) /\ ElementsThere(doc, e)
      BY <2>2 DEF ElementsThere
    <3>2. c[e] = Take(e, doc[e])
      BY <2>2, <3>1, ParseSettingIs
    <3>3. Take(e, doc[e]) > 0
      BY <2>1 DEF ElementsThere
    <3> QED
      BY <2>3, <3>2, <3>3
  <2>5. c[f] = Default(f) /\ parseSetting(new, f) = Default(f)
    BY <1>7, <2>4, ParseSettingIs
  <2> QED
    BY <2>5
<1> QED
  BY <1>5, <1>6, <1>7

(***************************************************************************)
(* The four classes together.                                              *)
(***************************************************************************)
LEMMA JoinedGives ==
  ASSUME NEW c, NEW d, NEW f, NEW x, f \in DOMAIN c => c[f] = x, f \in DOMAIN d => d[f] = x
  PROVE  /\ DOMAIN Joined(c, d) = DOMAIN c \cup DOMAIN d
         /\ f \in DOMAIN c \cup DOMAIN d => Joined(c, d)[f] = x
BY DEF Joined

LEMMA NamesOfJoined == ASSUME NEW R, NEW S PROVE NamesOf(R \cup S) = NamesOf(R) \cup NamesOf(S)
BY DEF NamesOf

LEMMA TablesOfSettings ==
  ASSUME NEW f \in Settings
  PROVE  \/ f \in NamesOf(Sx1261Rows)
         \/ f \in NamesOf(RadioRows \cup BoardRows) /\ f \in NamesOf(RadioRows) \cup NamesOf(BoardRows)
         \/ f \in NamesOf(ServerRows) \cup NamesOf(DebugRows)
<1>1. GcRows = Sx1261Rows \cup ((RadioRows \cup BoardRows) \cup (ServerRows \cup DebugRows))
  <2> DEFINE A == Sx1261Rows
             B == RadioRows
             C == BoardRows
             D == ServerRows
             E == DebugRows
  <2>1. GcRows = A \cup B \cup C \cup D \cup E
    BY DEF GcRows
  <2> HIDE DEF A, B, C, D, E
  <2>2. GcRows = A \cup ((B \cup C) \cup (D \cup E))
    BY <2>1
  <2> QED
    BY <2>2 DEF A, B, C, D, E
<1>2. f \in NamesOf(Sx1261Rows) \cup (NamesOf(RadioRows \cup BoardRows) \cup NamesOf(ServerRows \cup DebugRows))
  <2> DEFINE A == Sx1261Rows
             B == RadioRows \cup BoardRows
             C == ServerRows \cup DebugRows
  <2>1. f \in NamesOf(A \cup (B \cup C))
    BY <1>1 DEF Settings
  <2> HIDE DEF A, B, C
  <2>2. /\ NamesOf(A \cup (B \cup C)) = NamesOf(A) \cup NamesOf(B \cup C)
        /\ NamesOf(B \cup C) = NamesOf(B) \cup NamesOf(C)
    BY NamesOfJoined
  <2>3. f \in NamesOf(A) \cup (NamesOf(B) \cup NamesOf(C))
    BY <2>1, <2>2
  <2> QED
    BY <2>3 DEF A, B, C
<1>3. /\ NamesOf(RadioRows \cup BoardRows) = NamesOf(RadioRows) \cup NamesOf(BoardRows)
      /\ NamesOf(ServerRows \cup DebugRows) = NamesOf(ServerRows) \cup NamesOf(DebugRows)
  BY NamesOfJoined
<1> QED
  BY <1>2, <1>3

LEMMA MembersAt ==
  ASSUME NEW doc, NEW f \in Settings
  PROVE  f \in DOMAIN parseMembers(doc) /\ parseMembers(doc)[f] = parseSetting(doc, f)
<1> DEFINE x == parseSetting(doc, f)
           a == parseSX1261(doc)
           b == parseSX130x(doc)
           c == parseGateway(doc)
           d == parseDebug(doc)
<1>1. /\ DOMAIN a = NamesOf(Sx1261Rows) /\ (f \in DOMAIN a => a[f] = x)
      /\ DOMAIN b = NamesOf(RadioRows \cup BoardRows) /\ (f \in DOMAIN b => b[f] = x)
      /\ DOMAIN c = NamesOf(ServerRows) /\ (f \in DOMAIN c => c[f] = x)
      /\ DOMAIN d = NamesOf(DebugRows) /\ (f \in DOMAIN d => d[f] = x)
  BY DEF parseSX1261, parseSX130x, parseGateway, parseDebug, parseRows
<1> HIDE DEF x, a, b, c, d
<1>2. /\ DOMAIN Joined(a, b) = DOMAIN a \cup DOMAIN b
      /\ f \in DOMAIN a \cup DOMAIN b => Joined(a, b)[f] = x
  <2>1. (f \in DOMAIN a => a[f] = x) /\ (f \in DOMAIN b => b[f] = x)
    BY <1>1, Zenon
  <2> QED
    BY <2>1, JoinedGives, Zenon
<1>3. /\ DOMAIN Joined(c, d) = DOMAIN c \cup DOMAIN d
      /\ f \in DOMAIN c \cup DOMAIN d => Joined(c, d)[f] = x
  <2>1. (f \in DOMAIN c => c[f] = x) /\ (f \in DOMAIN d => d[f] = x)
    BY <1>1, Zenon
  <2> QED
    BY <2>1, JoinedGives, Zenon
<1>4. f \in DOMAIN Joined(a, b) \cup DOMAIN Joined(c, d)
  BY <1>1, <1>2, <1>3, TablesOfSettings
<1> DEFINE u == Joined(a, b)
           v == Joined(c, d)
<1> HIDE DEF u, v
<1>5. Joined(u, v)[f] = x
  <2>1. /\ f \in DOMAIN u \cup DOMAIN v
        /\ f \in DOMAIN u => u[f] = x
        /\ f \in DOMAIN v => v[f] = x
    BY <1>2, <1>3, <1>4 DEF u, v
  <2> QED
    BY <2>1, JoinedGives
<1>6. f \in DOMAIN Joined(u, v)
  BY <1>4 DEF Joined, u, v
<1> QED
  BY <1>5, <1>6 DEF parseMembers, a, b, c, d, u, v, x

LEMMA SwitchesKnown == Switches \cap Settings = {} /\ Switches = {"sx1261.enable", "gpsEnabled"}
<1>1. \A r \in GcRows : r[1] # "sx1261.enable" /\ r[1] # "gpsEnabled"
  <2>1. \A r \in Sx1261Rows : r[1] # "sx1261.enable" /\ r[1] # "gpsEnabled"
    BY DEF Sx1261Rows
  <2>2. \A r \in RadioRows : r[1] # "sx1261.enable" /\ r[1] # "gpsEnabled"
    BY DEF RadioRows
  <2>3. \A r \in BoardRows : r[1] # "sx1261.enable" /\ r[1] # "gpsEnabled"
    BY DEF BoardRows
  <2>4. \A r \in ServerRows : r[1] # "sx1261.enable" /\ r[1] # "gpsEnabled"
    BY DEF ServerRows
  <2>5. \A r \in DebugRows : r[1] # "sx1261.enable" /\ r[1] # "gpsEnabled"
    BY DEF DebugRows
  <2> QED
    BY <2>1, <2>2, <2>3, <2>4, <2>5 DEF GcRows
<1> QED
  BY <1>1 DEF Settings, NamesOf, Switches

LEMMA ParseAt ==
  ASSUME NEW doc
  PROVE  /\ \A f \in Settings : parse(doc)[f] = parseSetting(doc, f)
         /\ \A f \in Switches : parse(doc)[f] = switchOf(parse(doc), f)
<1> DEFINE c == parseMembers(doc)
           d == [f \in Switches |-> switchOf(c, f)]
<1>1. parse(doc) = Joined(c, d)
  BY DEF parse, withSwitches
<1>2. \A f \in Settings : f \in DOMAIN c /\ c[f] = parseSetting(doc, f)
  BY MembersAt
<1>3. DOMAIN c \cap Switches = {}
  <2>1. DOMAIN c = Settings
    <3>1. DOMAIN c = (NamesOf(Sx1261Rows) \cup NamesOf(RadioRows \cup BoardRows))
                       \cup (NamesOf(ServerRows) \cup NamesOf(DebugRows))
      BY DEF parseMembers, Joined, parseSX1261, parseSX130x, parseGateway, parseDebug, parseRows
    <3>2. NamesOf(RadioRows \cup BoardRows) = NamesOf(RadioRows) \cup NamesOf(BoardRows)
      BY NamesOfJoined
    <3>3. DOMAIN c \subseteq Settings
      BY <3>1, <3>2 DEF Settings, NamesOf, GcRows
    <3> QED
      BY <1>2, <3>3
  <2> QED
    BY <2>1, SwitchesKnown
<1>4. DOMAIN d = Switches /\ \A f \in Switches : d[f] = switchOf(c, f)
  OBVIOUS
<1> HIDE DEF c, d
<1>5. \A f \in Settings : parse(doc)[f] = c[f]
  BY <1>1, <1>2 DEF Joined
<1>6. \A f \in Switches : parse(doc)[f] = switchOf(c, f)
  BY <1>1, <1>3, <1>4 DEF Joined
<1>7. \A f \in Switches : switchOf(parse(doc), f) = switchOf(c, f)
  <2>1. "gps_tty_path" \in Settings /\ "scan" \in Settings /\ "lbt" \in Settings
    BY NamesKnown DEF Gates
  <2> QED
    BY <1>5, <2>1 DEF switchOf
<1> QED
  BY <1>2, <1>5, <1>6, <1>7

LEMMA WriteAt ==
  ASSUME NEW c, NEW f \in Settings
  PROVE  toJSON(c)[f] = IF ElementOf(f) # f /\ c[ElementOf(f)] = 0 THEN NoMember ELSE writeSetting(f, c[f])
<1> DEFINE x == IF ElementOf(f) # f /\ c[ElementOf(f)] = 0 THEN NoMember ELSE writeSetting(f, c[f])
           p == toJSONSX1261(c)
           q == toJSONRadios(c)
           r == toJSONBoard(c)
           s == toJSONGateway(c)
           t == toJSONDebug(c)
<1>1. /\ DOMAIN p = NamesOf(Sx1261Rows) /\ (f \in DOMAIN p => p[f] = x)
      /\ DOMAIN q = NamesOf(RadioRows) /\ (f \in DOMAIN q => q[f] = x)
      /\ DOMAIN r = NamesOf(BoardRows) /\ (f \in DOMAIN r => r[f] = x)
      /\ DOMAIN s = NamesOf(ServerRows) /\ (f \in DOMAIN s => s[f] = x)
      /\ DOMAIN t = NamesOf(DebugRows) /\ (f \in DOMAIN t => t[f] = x)
  BY DEF toJSONSX1261, toJSONRadios, toJSONBoard, toJSONGateway, toJSONDebug, writeRows
<1> HIDE DEF x, p, q, r, s, t
<1>2. /\ DOMAIN Joined(p, q) = DOMAIN p \cup DOMAIN q
      /\ f \in DOMAIN p \cup DOMAIN q => Joined(p, q)[f] = x
  <2>1. (f \in DOMAIN p => p[f] = x) /\ (f \in DOMAIN q => q[f] = x)
    BY <1>1, Zenon
  <2> QED
    BY <2>1, JoinedGives, Zenon
<1> DEFINE u == Joined(p, q)
<1> HIDE DEF u
<1>2a. /\ DOMAIN u = DOMAIN p \cup DOMAIN q
       /\ f \in DOMAIN u => u[f] = x
  BY <1>2 DEF u
<1>3. /\ DOMAIN Joined(u, r) = DOMAIN u \cup DOMAIN r
      /\ f \in DOMAIN u \cup DOMAIN r => Joined(u, r)[f] = x
  <2>1. (f \in DOMAIN u => u[f] = x) /\ (f \in DOMAIN r => r[f] = x)
    BY <1>1, <1>2a
  <2> QED
    BY <2>1, JoinedGives
<1>4. /\ DOMAIN Joined(s, t) = DOMAIN s \cup DOMAIN t
      /\ f \in DOMAIN s \cup DOMAIN t => Joined(s, t)[f] = x
  <2>1. (f \in DOMAIN s => s[f] = x) /\ (f \in DOMAIN t => t[f] = x)
    BY <1>1
  <2> QED
    BY <2>1, JoinedGives
<1>5. f \in DOMAIN Joined(u, r) \cup DOMAIN Joined(s, t)
  BY <1>1, <1>2a, <1>3, <1>4, TablesOfSettings
<1> DEFINE y == Joined(u, r)
           z == Joined(s, t)
<1> HIDE DEF y, z
<1>6. Joined(y, z)[f] = x
  <2>1. /\ f \in DOMAIN y \cup DOMAIN z
        /\ f \in DOMAIN y => y[f] = x
        /\ f \in DOMAIN z => z[f] = x
    BY <1>3, <1>4, <1>5 DEF y, z
  <2> QED
    BY <2>1, JoinedGives
<1> QED
  BY <1>6 DEF toJSON, p, q, r, s, t, u, y, z, x

LEMMA CompiledAt ==
  ASSUME NEW c, NEW f \in Settings \ {"rssi_target", "beacon_power", "freq_deviation"}
  PROVE  toCpp(c)[f] = IF WriterOf(f) = "double" THEN SixDigits(c[f]) ELSE c[f]
<1> DEFINE x == IF WriterOf(f) = "double" THEN SixDigits(c[f]) ELSE c[f]
           p == toCppSX1261(c)
           q == toCppSX130x(c)
           r == toCppGateway(c)
           s == toCppDebug(c)
<1>1. /\ DOMAIN p = NamesOf(Sx1261Rows) /\ (f \in DOMAIN p => p[f] = x)
      /\ DOMAIN q = NamesOf(RadioRows \cup BoardRows) /\ (f \in DOMAIN q => q[f] = x)
      /\ DOMAIN r = NamesOf(ServerRows) /\ (f \in DOMAIN r => r[f] = x)
      /\ DOMAIN s = NamesOf(DebugRows) /\ (f \in DOMAIN s => s[f] = x)
  BY DEF toCppSX1261, toCppSX130x, toCppGateway, toCppDebug, cppRows
<1> HIDE DEF x, p, q, r, s
<1>2. /\ DOMAIN Joined(p, q) = DOMAIN p \cup DOMAIN q
      /\ f \in DOMAIN p \cup DOMAIN q => Joined(p, q)[f] = x
  <2>1. (f \in DOMAIN p => p[f] = x) /\ (f \in DOMAIN q => q[f] = x)
    BY <1>1, Zenon
  <2> QED
    BY <2>1, JoinedGives, Zenon
<1>3. /\ DOMAIN Joined(r, s) = DOMAIN r \cup DOMAIN s
      /\ f \in DOMAIN r \cup DOMAIN s => Joined(r, s)[f] = x
  <2>1. (f \in DOMAIN r => r[f] = x) /\ (f \in DOMAIN s => s[f] = x)
    BY <1>1, Zenon
  <2> QED
    BY <2>1, JoinedGives, Zenon
<1>4. f \in DOMAIN Joined(p, q) \cup DOMAIN Joined(r, s)
  BY <1>1, <1>2, <1>3, TablesOfSettings
<1> DEFINE u == Joined(p, q)
           v == Joined(r, s)
<1> HIDE DEF u, v
<1>5. Joined(u, v)[f] = x
  <2>1. /\ f \in DOMAIN u \cup DOMAIN v
        /\ f \in DOMAIN u => u[f] = x
        /\ f \in DOMAIN v => v[f] = x
    BY <1>2, <1>3, <1>4 DEF u, v
  <2> QED
    BY <2>1, JoinedGives
<1> DEFINE w == Joined(u, v)
           z == [g \in Switches |-> FALSE]
<1>6. f \in DOMAIN w
  BY <1>4 DEF Joined, u, v
<1>7. Joined(w, z)[f] = w[f]
  <2> HIDE DEF w, z
  <2> QED
    BY <1>6 DEF Joined
<1>8. toCpp(c) = Joined(w, z)
  BY DEF toCpp, p, q, r, s, u, v
<1> QED
  BY <1>5, <1>7, <1>8 DEF x

\* Six digits: at most half a unit of the last one is lost.
LEMMA RoundedIsNear ==
  ASSUME NEW n \in Nat
  PROVE  /\ Rounded(n) \in Nat
         /\ n < 1000000 => Rounded(n) = n
         /\ n >= 1000000 => (Rounded(n) - n) * 200000 <= n /\ (n - Rounded(n)) * 200000 <= n
<1> DEFINE u == SixthDigit(n)
           r == n % u
           x == Rounded(n)
<1>1. /\ u \in {1, 10, 100, 1000, 10000}
      /\ n < 1000000 => u = 1
      /\ n >= 1000000 => 100000 * u <= n
  BY DEF SixthDigit
<1>2. r \in 0 .. u - 1 /\ r <= n
  <2>1. u = 1 => r \in 0 .. u - 1 /\ r <= n
    OBVIOUS
  <2>2. u = 10 => r \in 0 .. u - 1 /\ r <= n
    OBVIOUS
  <2>3. u = 100 => r \in 0 .. u - 1 /\ r <= n
    OBVIOUS
  <2>4. u = 1000 => r \in 0 .. u - 1 /\ r <= n
    OBVIOUS
  <2>5. u = 10000 => r \in 0 .. u - 1 /\ r <= n
    OBVIOUS
  <2> QED
    BY <1>1, <2>1, <2>2, <2>3, <2>4, <2>5
<1>3. \/ x = n - r /\ 2 * r <= u
      \/ x = n - r + u /\ 2 * r >= u
  <2>1. x = IF 2 * r < u \/ (2 * r = u /\ ((n - r) \div u) % 2 = 0) THEN n - r ELSE n - r + u
    BY DEF Rounded
  <2> HIDE DEF x, r, u
  <2> QED
    BY <1>1, <1>2, <2>1
<1> HIDE DEF u, r, x
<1>4. x \in Nat
  BY <1>1, <1>2, <1>3
<1>5. n < 1000000 => x = n
  BY <1>1, <1>2, <1>3
<1>6. ASSUME n >= 1000000 PROVE (x - n) * 200000 <= n /\ (n - x) * 200000 <= n
  <2>1. 2 * (x - n) <= u /\ 2 * (n - x) <= u
    BY <1>1, <1>2, <1>3
  <2>2. 100000 * u <= n
    BY <1>1, <1>6
  <2> QED
    BY <1>1, <1>4, <2>1, <2>2
<1> QED
  BY <1>4, <1>5, <1>6 DEF x

LEMMA SixDigitsKept == ASSUME NEW v \in Int PROVE SameSixDigits(SixDigits(v), v)
<1>1. CASE v < 0
  <2> DEFINE n == 0 - v
             x == Rounded(n)
  <2>1. n \in Nat
    BY <1>1
  <2>2. /\ x \in Nat
        /\ n < 1000000 => x = n
        /\ n >= 1000000 => (x - n) * 200000 <= n /\ (n - x) * 200000 <= n
    BY <2>1, RoundedIsNear
  <2>3. SixDigits(v) = 0 - x
    BY <1>1 DEF SixDigits
  <2> HIDE DEF x
  <2> QED
    BY <1>1, <2>1, <2>2, <2>3 DEF SameSixDigits
<1>2. CASE ~(v < 0)
  <2> DEFINE x == Rounded(v)
  <2>1. /\ x \in Nat
        /\ v < 1000000 => x = v
        /\ v >= 1000000 => (x - v) * 200000 <= v /\ (v - x) * 200000 <= v
    BY <1>2, RoundedIsNear
  <2>2. SixDigits(v) = x
    BY <1>2 DEF SixDigits
  <2> HIDE DEF x
  <2> QED
    BY <1>2, <2>1, <2>2 DEF SameSixDigits
<1> QED
  BY <1>1, <1>2

(***************************************************************************)
(* The way of a file through the program.                                  *)
(***************************************************************************)
GcInv ==
    /\ \A h \in Settings : Json(gcFile[h])
    /\ gcStage \in {"file", "refused", "aborted", "parsed", "written", "done"}
    /\ gcStage \in {"parsed", "written", "done"} =>
         /\ \A h \in Settings : gcConfig[h] = parseSetting(gcFile, h)
         /\ \A h \in Switches : gcConfig[h] = switchOf(gcConfig, h)
    /\ gcStage \in {"written", "done"} =>
         /\ \A h \in Settings : gcAgain[h] = gcConfig[h] \/ LostWhenWritten(h, gcConfig[h])
         /\ \A h \in Switches : gcAgain[h] = gcConfig[h]
    /\ CompiledAsParsed

LEMMA JsonIs ==
  /\ \A v : Json(GcJ("bool", v)) /\ Json(GcJ("string", v)) /\ Json(GcJ("absent", v))
  /\ \A v : Json(GcJ("digits", v)) /\ Json(GcJ("factors", v))
  /\ \A v \in Int : Json(GcJ("number", v)) /\ Json(GcJ("double", v))
  /\ \A v \in Nat : Json(GcJ("array", v))
BY DEF Json, GcJ, TypeOf, ValueOf

LEMMA PlainIsJson == ASSUME NEW f PROVE Json(Plain(f))
<1> DEFINE w == WriterOf(f)
           t == TestOf(f)
           two == 2
           seven == 7
           width == 250000
<1>1. two \in Nat /\ seven \in Int /\ width \in Int
  OBVIOUS
<1>2. Plain(f) = CASE w = "bool" -> GcJ("bool", TRUE)
      [] w = "double" -> GcJ("double", seven)
      [] w = "array" -> GcJ("array", two)
      [] w = "bandwidth" -> GcJ("number", width)
      [] w = "digits" -> GcJ("digits", seven)
      [] w = "factors" -> GcJ("factors", {7, 9})
      [] t = "comtype" -> GcJ("string", "USB")
      [] t = "radiotype" -> GcJ("string", "SX1250")
      [] t = "mode" -> GcJ("string", "all_sf")
      [] t = "string" -> GcJ("string", "text")
      [] OTHER -> GcJ("number", seven)
  BY DEF Plain
<1> HIDE DEF w, t, two, seven, width
<1> QED
  BY <1>1, <1>2, JsonIs

LEMMA OtherIsJson == ASSUME NEW f, NEW j \in Other(f) PROVE Json(j)
<1>1. \/ j = NoMember \/ j = GcJ("bool", FALSE) \/ j = GcJ("string", "other")
      \/ \E n \in GcNumbers : j = GcJ("number", n)
      \/ \E n \in GcNumbers : j = GcJ("double", n)
      \/ \E n \in GcNumbers : j = GcJ("number", 0 - n)
      \/ \E n \in GcNumbers : j = GcJ("array", n)
      \/ \E n \in SUBSET {5, 12, 13} : j = GcJ("factors", n)
  BY DEF Other
<1>2. \A n \in GcNumbers : n \in Nat /\ n \in Int /\ 0 - n \in Int
  BY GcAssumption
<1> QED
  BY <1>1, <1>2, JsonIs DEF NoMember

LEMMA GcInitInv == GcInit => GcInv
<1> SUFFICES ASSUME GcInit PROVE GcInv
  OBVIOUS
<1>1. PICK f \in Settings, g \in Settings :
        \E v \in Other(f), w \in {Plain(g), NoMember, GcJ("bool", FALSE)} :
          gcFile = [[h \in Settings |-> Plain(h)] EXCEPT ![g] = w, ![f] = v]
  BY DEF GcInit
<1>2. PICK v \in Other(f), w \in {Plain(g), NoMember, GcJ("bool", FALSE)} :
        gcFile = [[h \in Settings |-> Plain(h)] EXCEPT ![g] = w, ![f] = v]
  BY <1>1
<1>3. Json(v)
  BY OtherIsJson
<1>4. Json(w)
  <2>1. NoMember \in Other(g) /\ GcJ("bool", FALSE) \in Other(g)
    BY DEF Other
  <2> QED
    BY <2>1, OtherIsJson, PlainIsJson
<1>5. \A h \in Settings : Json(gcFile[h])
  <2> SUFFICES ASSUME NEW h \in Settings PROVE Json(gcFile[h])
    OBVIOUS
  <2>1. gcFile[h] = v \/ gcFile[h] = w \/ gcFile[h] = Plain(h)
    BY <1>2
  <2> QED
    BY <1>3, <1>4, <2>1, PlainIsJson
<1>6. gcStage = "file"
  BY DEF GcInit
<1> QED
  BY <1>5, <1>6 DEF GcInv, CompiledAsParsed

LEMMA GcNextInv == GcInv /\ [GcNext]_gcVars => GcInv'
<1> SUFFICES ASSUME GcInv, [GcNext]_gcVars PROVE GcInv'
  OBVIOUS
<1>1. CASE ParseFile
  <2>1. /\ gcFile' = gcFile /\ gcStage' \in {"refused", "aborted", "parsed"}
        /\ gcStage' = "parsed" => gcConfig' = parse(gcFile)
    BY <1>1 DEF ParseFile
  <2>2. gcStage' = "parsed" => /\ \A h \in Settings : gcConfig'[h] = parseSetting(gcFile', h)
                               /\ \A h \in Switches : gcConfig'[h] = switchOf(gcConfig', h)
    BY <2>1, ParseAt
  <2>3. (\A h \in Settings : Json(gcFile[h]))'
    BY <2>1 DEF GcInv
  <2> QED
    BY <2>1, <2>2, <2>3 DEF GcInv, CompiledAsParsed
<1>2. CASE WriteAndParse
  <2>1. /\ gcStage = "parsed" /\ gcStage' = "written" /\ gcAgain' = parse(toJSON(gcConfig))
        /\ UNCHANGED <<gcFile, gcConfig, gcCompiled>>
    BY <1>2 DEF WriteAndParse
  <2>2. /\ \A h \in Settings : Json(gcFile[h])
        /\ \A h \in Settings : gcConfig[h] = parseSetting(gcFile, h)
        /\ \A h \in Switches : gcConfig[h] = switchOf(gcConfig, h)
    BY <2>1 DEF GcInv
  <2> DEFINE new == toJSON(gcConfig)
  <2>3. \A h \in Settings : new[h] = IF ElementOf(h) # h /\ gcConfig[ElementOf(h)] = 0 THEN NoMember
                                     ELSE writeSetting(h, gcConfig[h])
    BY WriteAt
  <2> HIDE DEF new
  <2>4. \A h \in Settings : parseSetting(new, h) = gcConfig[h] \/ LostWhenWritten(h, gcConfig[h])
    BY <2>2, <2>3, ReadAgain
  <2>5. /\ \A h \in Settings : gcAgain'[h] = parseSetting(new, h)
        /\ \A h \in Switches : gcAgain'[h] = switchOf(gcAgain', h)
    BY <2>1, ParseAt DEF new
  <2>6. \A h \in Settings : gcAgain'[h] = gcConfig'[h] \/ LostWhenWritten(h, gcConfig'[h])
    BY <2>1, <2>4, <2>5
  <2>7. \A h \in Settings : Json(gcFile'[h]) /\ gcConfig'[h] = parseSetting(gcFile', h)
    BY <2>1, <2>2
  \* The switches depend on settings that are not lost.
  <2>8. \A h \in Switches : gcAgain'[h] = gcConfig'[h] /\ gcConfig'[h] = switchOf(gcConfig', h)
    <3>1. \A h \in {"scan", "lbt", "gps_tty_path"} : h \in Settings /\ ~LostWhenWritten(h, gcConfig[h])
      <4> SUFFICES ASSUME NEW h \in {"scan", "lbt", "gps_tty_path"}
                   PROVE  h \in Settings /\ ~LostWhenWritten(h, gcConfig[h])
        OBVIOUS
      <4>1. h \in Settings
        BY NamesKnown DEF Gates
      <4>2. WriterOf(h) \in {"bool", "string"}
        <5>1. RowOK(GcRow[h]) /\ GcRow[h][1] = h
          BY <4>1, RowOf
        <5>2. /\ h \in Gates => GcRow[h][3] = "bool"
              /\ h = "gps_tty_path" => GcRow[h][3] = "string"
          BY <5>1 DEF RowOK
        <5> QED
          BY <5>2 DEF WriterOf, Gates
      <4> QED
        BY <4>1, <4>2 DEF LostWhenWritten
    <3>2. \A h \in {"scan", "lbt", "gps_tty_path"} : gcAgain'[h] = gcConfig[h]
      BY <2>1, <2>6, <3>1
    <3>3. \A h : switchOf(gcAgain', h) = switchOf(gcConfig, h)
      BY <3>2 DEF switchOf
    <3> QED
      BY <2>1, <2>2, <2>5, <3>3
  <2> QED
    BY <2>1, <2>6, <2>7, <2>8 DEF GcInv, CompiledAsParsed
<1>3. CASE CompileIn
  <2>1. /\ gcStage = "written" /\ gcStage' = "done" /\ gcCompiled' = toCpp(gcConfig)
        /\ UNCHANGED <<gcFile, gcConfig, gcAgain>>
    BY <1>3 DEF CompileIn
  <2>2. /\ \A h \in Settings : /\ Json(gcFile[h]) /\ gcConfig[h] = parseSetting(gcFile, h)
                               /\ gcAgain[h] = gcConfig[h] \/ LostWhenWritten(h, gcConfig[h])
        /\ \A h \in Switches : gcAgain[h] = gcConfig[h] /\ gcConfig[h] = switchOf(gcConfig, h)
    BY <2>1 DEF GcInv
  <2>3. /\ \A h \in Settings : /\ Json(gcFile'[h]) /\ gcConfig'[h] = parseSetting(gcFile', h)
                               /\ gcAgain'[h] = gcConfig'[h] \/ LostWhenWritten(h, gcConfig'[h])
        /\ \A h \in Switches : gcAgain'[h] = gcConfig'[h] /\ gcConfig'[h] = switchOf(gcConfig', h)
    BY <2>1, <2>2
  <2>4. CompiledAsParsed'
    <3> SUFFICES ASSUME NEW f \in Settings \ {"rssi_target", "beacon_power", "freq_deviation"}
                 PROVE  IF WriterOf(f) = "double" THEN SameSixDigits(gcCompiled'[f], gcConfig'[f])
                        ELSE gcCompiled'[f] = gcConfig'[f]
      BY DEF CompiledAsParsed
    <3>1. gcCompiled'[f] = IF WriterOf(f) = "double" THEN SixDigits(gcConfig[f]) ELSE gcConfig[f]
      BY <2>1, CompiledAt
    <3>2. WriterOf(f) = "double" => gcConfig[f] \in Int
      <4> SUFFICES ASSUME WriterOf(f) = "double" PROVE gcConfig[f] \in Int
        OBVIOUS
      <4>1. TestOf(f) \in {"double", "number"}
        BY RowOf DEF RowOK, WrittenAndRead, WriterOf, TestOf
      <4>2. SettingOK(f, gcConfig[f])
        BY <2>2, ParsedOK
      <4> QED
        BY <4>1, <4>2 DEF SettingOK
    <3> QED
      BY <2>1, <3>1, <3>2, SixDigitsKept
  <2> QED
    BY <2>1, <2>3, <2>4 DEF GcInv
<1>4. CASE UNCHANGED gcVars
  <2>1. UNCHANGED <<gcFile, gcConfig, gcAgain, gcCompiled, gcStage>>
    BY <1>4 DEF gcVars
  <2> QED
    BY <2>1 DEF GcInv, CompiledAsParsed
<1> QED
  BY <1>1, <1>2, <1>3, <1>4 DEF GcNext

LEMMA GcAlways == GcSpec => []GcInv
<1> QED
  BY GcInitInv, GcNextInv, PTL DEF GcSpec

\* An array of the settings is never longer than that of the file nor than its place.
LEMMA ArraysFit ==
  ASSUME NEW doc, NEW f \in Settings, Json(doc[f]), WriterOf(f) = "array"
  PROVE  /\ parseSetting(doc, f) \in 0 .. MaxElements
         /\ TypeOf(doc[f]) = "array" => parseSetting(doc, f) <= ValueOf(doc[f])
<1> DEFINE v == parseSetting(doc, f)
           n == ValueOf(doc[f])
<1>1. TestOf(f) \in {"array", "array8"} /\ f \notin {"mix_gain", "fsk.bandwidth"}
  <2>1. RowOK(GcRow[f]) /\ GcRow[f][1] = f
    BY RowOf
  <2>2. TestOf(f) \in {"array", "array8"}
    BY <2>1 DEF RowOK, WrittenAndRead, WriterOf, TestOf
  <2>3. f \notin {"mix_gain", "fsk.bandwidth"}
    BY <2>1 DEF RowOK, WriterOf
  <2> QED
    BY <2>2, <2>3
<1>2. SettingOK(f, v) /\ Default(f) = 0
  BY <1>1, ParsedOK, DefaultIs
<1>3. v \in 0 .. MaxElements
  BY <1>1, <1>2 DEF SettingOK
<1>4. ASSUME TypeOf(doc[f]) = "array" PROVE v <= n
  <2>1. v = 0 \/ v = Take(f, doc[f])
    BY <1>1, <1>2, ParseSettingIs
  <2>2. Take(f, doc[f]) = Clip(n) \/ Take(f, doc[f]) = Clip(n % 256)
    BY <1>1, <1>4, TakeIs
  <2>3. n \in Nat
    BY <1>4 DEF Json
  <2> HIDE DEF n, v
  <2>4. 0 <= n /\ Clip(n) <= n /\ Clip(n % 256) <= n
    BY <2>3 DEF Clip, MaxElements
  <2> QED
    BY <2>1, <2>2, <2>4
<1> QED
  BY <1>3, <1>4

(***************************************************************************)
(* Settings read from a file with any numbers in it, written as JSON and   *)
(* read again are the same, but for the losses the property names; and no  *)
(* array is filled past its end (gateway-file-json.cpp).                   *)
(***************************************************************************)
THEOREM SettingsAreReadBack == GcSpec => []SettingsReadBack
<1>1. GcInv => SettingsReadBack
  BY ArraysFit DEF GcInv, SettingsReadBack
<1> QED
  BY <1>1, GcAlways, PTL

(***************************************************************************)
(* The program that gateway-config2cpp generates has every setting of the  *)
(* file but those that the property names, a coordinate or a coefficient   *)
(* to half a unit of its sixth digit, whatever numbers the file holds.     *)
(***************************************************************************)
THEOREM CompiledLikeParsed == GcSpec => []CompiledAsParsed
<1>1. GcInv => CompiledAsParsed
  BY DEF GcInv
<1> QED
  BY <1>1, GcAlways, PTL
=============================================================================
