------------------------------- MODULE DevAddr -------------------------------
(***************************************************************************)
(* Device addresses and network identifiers (dev-addr.cpp, net-id.cpp and  *)
(* the tool print-netid.cpp).  A 32-bit or 24-bit word is the set of the   *)
(* positions of its one bits, so that every mask, shift and width of the   *)
(* code is kept.  Both layouts of the address are here: the one of the     *)
(* Backend Interfaces 1.0 and the one of 1.1, which                        *)
(* DEFAULT_LORAWAN_BACKEND_VERSION_MINOR compiles in.                      *)
(***************************************************************************)
EXTENDS Integers, FiniteSets

CONSTANTS DaMinors,    \* versions of the layout: a subset of {0, 1}
          DaWords,     \* words given to the setters, each a set of bit positions
          DaStale,     \* what the memory of a new DevAddr may hold
          DaMaxMoves   \* bound: increments and decrements of one address

ASSUME DaAssumption == /\ DaMinors \subseteq {0, 1}
                       /\ DaWords \subseteq SUBSET (0 .. 31)
                       /\ DaStale \subseteq SUBSET (0 .. 31)
                       /\ DaMaxMoves \in Nat

VARIABLES daMinor,     \* the layout in use
          netid,       \* NetId::netid, a subset of 0 .. 23
          devaddr,     \* DevAddr::devaddr
          daAsked,     \* the type, the network and the number last asked for
          daMoves,     \* 0: no object yet; else 1 + the moves made
          daErr        \* result of the last call: TRUE when it is not 0

daVars == <<daMinor, netid, devaddr, daAsked, daMoves, daErr>>

DaTypes == 0 .. 7

\* Bits lo .. hi of a word, moved down to position 0.
Slice(w, lo, hi) == {b - lo : b \in w \cap (lo .. hi)}
ShiftLeft(w, n) == {b + n : b \in w} \cap (0 .. 31)
Fits(w, width) == \A b \in w : b < width
WithBits(w, width, n) == {b \in w : b >= width} \cup n

\* Unsigned 32-bit addition and subtraction of one, both modulo 2^32.
PlusOne(w) == LET zeros == (0 .. 31) \ w
              IN IF zeros = {} THEN {}
                 ELSE LET z == CHOOSE z \in zeros : \A y \in zeros : z <= y
                      IN {z} \cup {b \in w : b > z}
MinusOne(w) == (0 .. 31) \ PlusOne((0 .. 31) \ w)

(***************************************************************************)
(* The tables: bits of the network identifier and of the address by type.  *)
(***************************************************************************)
NwkIdBits(minor) == IF minor = 1 THEN <<6, 6, 9, 11, 12, 13, 15, 17>>
                    ELSE <<6, 6, 9, 10, 11, 13, 15, 17>>
NwkAddrBits(minor) == IF minor = 1 THEN <<25, 24, 20, 17, 15, 13, 10, 7>>
                      ELSE <<25, 24, 20, 18, 16, 13, 10, 7>>

\* NWKID_CLEAR_* clears the bits from here up to the type prefix and
\* NWKADDR_CLEAR_* the bits below; the shift is 32 - prefix_n_mnwkid_len.
ClearFrom(minor) == IF minor = 1 THEN <<25, 24, 20, 17, 15, 15, 10, 7>>
                    ELSE <<25, 24, 20, 18, 16, 15, 10, 7>>
NwkIdShift == <<25, 24, 20, 18, 16, 13, 10, 7>>

\* The type is told by the number of leading ones; 8 is an invalid address.
getNetIdType(a) ==
    IF (24 .. 31) \subseteq a THEN 8
    ELSE CHOOSE t \in DaTypes : /\ 31 - t \notin a
                                /\ \A b \in (32 - t) .. 31 : b \in a

\* In layout 1.1 the lowest bit of type 4 is read from the lowest byte.
getNwkId(minor, a) ==
    LET t == getNetIdType(a)
    IN CASE t = 8 -> 0 .. 31
         [] t = 4 /\ minor = 1 -> {b + 1 : b \in Slice(a, 16, 26)} \cup Slice(a, 7, 7)
         [] OTHER -> Slice(a, 31 - t - NwkIdBits(minor)[t + 1], 30 - t)

getNwkAddr(minor, a) ==
    LET t == getNetIdType(a)
    IN IF t = 8 THEN 0 .. 31 ELSE Slice(a, 0, NwkAddrBits(minor)[t + 1] - 1)

setNetIdType(a, t) == {b \in a : b < 31 - t} \cup ((32 - t) .. 31)

\* Each setter returns the new word and whether it refused the value.
Done(w) == [word |-> w, err |-> FALSE]
Refused(w) == [word |-> w, err |-> TRUE]

setNwkId(minor, a, t, v) ==
    IF t = 8 \/ ~Fits(v, NwkIdBits(minor)[t + 1]) THEN Refused(a)
    ELSE Done((a \ (ClearFrom(minor)[t + 1] .. (30 - t)))
                \cup ShiftLeft(v, NwkIdShift[t + 1]))

\* Mutants: the bits of the old number stay; a limit one bit too wide.
setNwkAddrNoClear(minor, a, t, v) ==
    IF t = 8 \/ ~Fits(v, NwkAddrBits(minor)[t + 1]) THEN Refused(a) ELSE Done(a \cup v)
setNwkAddrWide(minor, a, t, v) ==
    IF t = 8 \/ ~Fits(v, NwkAddrBits(minor)[t + 1] + 1) THEN Refused(a)
    ELSE Done(WithBits(a, ClearFrom(minor)[t + 1], v))

setNwkAddr(minor, a, t, v) ==
    IF t = 8 \/ ~Fits(v, NwkAddrBits(minor)[t + 1]) THEN Refused(a)
    ELSE Done(WithBits(a, ClearFrom(minor)[t + 1], v))

\* A failed step leaves what the steps before it have written.
setParts(minor, a, t, id, addr) ==
    IF t > 7 THEN Refused(a)
    ELSE LET i == setNwkId(minor, setNetIdType(a, t), t, id)
         IN IF i.err THEN i ELSE setNwkAddr(minor, i.word, t, addr)

setAddr(minor, a, v) == setNwkAddr(minor, a, getNetIdType(a), v)

getMaxNwkAddr(minor, t) == 0 .. (NwkAddrBits(minor)[t + 1] - 1)

(***************************************************************************)
(* NetId                                                                   *)
(***************************************************************************)
NetIdType(n) == CHOOSE t \in DaTypes :
                    \A i \in 0 .. 2 : (21 + i \in n) = ((t \div 2 ^ i) % 2 = 1)
TypeBits(t) == {21 + i : i \in {j \in 0 .. 2 : (t \div 2 ^ j) % 2 = 1}}

\* The width MASK_NWK_ID gives is the one of layout 1.0 in both builds.
NetIdNwkId(n) == Slice(n, 0, NwkIdBits(0)[NetIdType(n) + 1] - 1)
NetIdBits(t) == IF t \in {0, 1} THEN 6 ELSE IF t = 2 THEN 9 ELSE 21
getNetId(n) == Slice(n, 0, NetIdBits(NetIdType(n)) - 1)

\* NetId::set(type, value)
setNetId(n, t, v) == IF t > 7 \/ ~Fits(v, NetIdBits(t)) THEN Refused(n)
                     ELSE Done({b \in v : b < 21} \cup TypeBits(t))

-----------------------------------------------------------------------------
\* A constructor does not tell that set() failed: the object then holds what
\* the steps before the failure have left.
NoAddress == [type |-> 8, id |-> {}, addr |-> {}]

DaInit ==
    /\ daMinor \in DaMinors
    /\ netid = {}
    /\ devaddr \in DaStale
    /\ daAsked = NoAddress
    /\ daMoves = 0
    /\ daErr = FALSE

\* NetId::set(uint32_t): the 24 bits of a value, type included.
SetNetIdValue(w) ==
    /\ daMoves = 0
    /\ netid' = {b \in w : b < 24}
    /\ daErr' = FALSE
    /\ UNCHANGED <<daMinor, devaddr, daAsked, daMoves>>

\* NetId::set(type, value), as print-netid -t -n calls it.
SetNetIdParts(t, w) ==
    LET r == setNetId(netid, t, w)
    IN /\ daMoves = 0
       /\ netid' = r.word
       /\ daErr' = r.err
       /\ UNCHANGED <<daMinor, devaddr, daAsked, daMoves>>

\* An address made in memory that holds anything: DevAddr(netid, nwkAddr),
\* DevAddr(netid, min or max), DevAddr(type, nwkId, nwkAddr).
Construct(t, id, addr) ==
    LET r == setParts(daMinor, devaddr, t, id, addr)
    IN /\ daMoves = 0
       /\ daMoves' = 1
       /\ devaddr' = r.word
       /\ daErr' = r.err
       /\ daAsked' = IF r.err THEN NoAddress ELSE [type |-> t, id |-> id, addr |-> addr]
       /\ UNCHANGED <<daMinor, netid>>

ConstructInNet(addr) ==
    Construct(NetIdType(netid), NetIdNwkId(netid), addr)

ConstructBound(retMax) ==
    ConstructInNet(IF retMax THEN getMaxNwkAddr(daMinor, NetIdType(netid)) ELSE {})

\* increment() and decrement(): the number is computed modulo 2^32.
Move(number) ==
    LET r == setAddr(daMinor, devaddr, number)
    IN /\ daMoves \in 1 .. DaMaxMoves
       /\ daMoves' = daMoves + 1
       /\ devaddr' = r.word
       /\ daErr' = r.err
       /\ daAsked' = IF r.err \/ daAsked = NoAddress THEN daAsked
                     ELSE [daAsked EXCEPT !.addr = number]
       /\ UNCHANGED <<daMinor, netid>>

Increment == Move(PlusOne(getNwkAddr(daMinor, devaddr)))
Decrement == Move(MinusOne(getNwkAddr(daMinor, devaddr)))

DaNext ==
    \/ \E w \in DaWords : SetNetIdValue(w)
    \/ \E t \in 0 .. 8, w \in DaWords : SetNetIdParts(t, w)
    \/ \E t \in 0 .. 8, id, addr \in DaWords : Construct(t, id, addr)
    \/ \E addr \in DaWords : ConstructInNet(addr)
    \/ \E m \in BOOLEAN : ConstructBound(m)
    \/ Increment
    \/ Decrement

DaSpec == DaInit /\ [][DaNext]_daVars

-----------------------------------------------------------------------------
\* Types 3 and 4 of layout 1.1 and type 5 of both are set and read at
\* different places.
SoundTypes(minor) == IF minor = 1 THEN {0, 1, 2, 6, 7} ELSE DaTypes \ {5}

ReadsBack ==
    /\ getNetIdType(devaddr) = daAsked.type
    /\ getNwkId(daMinor, devaddr) = daAsked.id
    /\ getNwkAddr(daMinor, devaddr) = daAsked.addr

(***************************************************************************)
(* An address made by a set() that succeeded, and moved by any number of   *)
(* increments and decrements, has the type, the network identifier and the *)
(* number it was asked for, whatever the memory held before: the masks,    *)
(* the shifts and the getters agree and no stale bit survives.  The        *)
(* identity service hands such addresses to devices that join.             *)
(***************************************************************************)
NetworkReadBack ==
    (~daErr /\ daAsked.type \in SoundTypes(daMinor)) => ReadsBack

(***************************************************************************)
(* The same for every type, which is what the tables above getNwkId_1_1()  *)
(* and getNwkAddr_1_1() draw.                                              *)
(***************************************************************************)
EveryTypeReadsBack == (~daErr /\ daAsked.type \in DaTypes) => ReadsBack

(***************************************************************************)
(* A move never leaves the network: it changes only the number, and at the *)
(* first and the last address it is refused with the address unchanged,    *)
(* which is what ends the search of nextBruteForce().                      *)
(***************************************************************************)
MoveStaysInNetwork ==
    [][(Increment \/ Decrement) /\ ~daErr /\ daAsked.type \in SoundTypes(daMinor)
        => /\ getNwkId(daMinor, devaddr') = getNwkId(daMinor, devaddr)
           /\ daErr' => /\ devaddr' = devaddr
                        /\ daAsked.addr \in {{}, getMaxNwkAddr(daMinor, daAsked.type)}]_daVars
=============================================================================
