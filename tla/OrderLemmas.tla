---------------------------- MODULE OrderLemmas ----------------------------
(***************************************************************************)
(* Facts about finite sets that have an order, used by the proofs about    *)
(* the queues: a minimal element exists, how many entries of a deque hold  *)
(* a given value, which values a sequence holds, and what loops compute.   *)
(***************************************************************************)
EXTENDS Integers, SequencesExt, FiniteSets, FiniteSetTheorems,
        SequenceTheorems, WellFoundedInduction, TLAPS

\* Every nonempty set of naturals has a smallest element.
LEMMA LeastNat ==
  ASSUME NEW T, T \subseteq Nat, T # {}
  PROVE  \E x \in T : \A y \in T : x <= y
<1>1. \E x \in T : \A y \in T : ~ (<<y, x>> \in OpToRel(<, Nat))
  BY NatLessThanWellFounded, WFMin
<1>2. \A x, y \in Nat : x < y => <<x, y>> \in OpToRel(<, Nat)
  BY Zenon DEF OpToRel
<1>3. PICK x \in T : \A y \in T : ~ (<<y, x>> \in OpToRel(<, Nat))
  BY <1>1
<1>4. ASSUME NEW y \in T
      PROVE  ~ (y < x)
  BY <1>2, <1>3
<1>5. QED
  BY <1>4

\* A set that holds 0, and with every natural the next one, holds them all.
LEMMA EveryNat ==
  ASSUME NEW T, 0 \in T, \A n \in Nat : n \in T => n + 1 \in T
  PROVE  Nat \subseteq T
<1> SUFFICES ASSUME NEW n \in Nat, n \notin T PROVE FALSE
  OBVIOUS
<1> DEFINE U == {k \in Nat : k \notin T}
<1>1. PICK k \in U : \A j \in U : k <= j
  <2>1. U \subseteq Nat /\ U # {}
    OBVIOUS
  <2> HIDE DEF U
  <2> QED
    BY <2>1, LeastNat
<1>2. k \in Nat /\ k # 0 /\ k \notin T
  BY <1>1
<1>3. k - 1 \in Nat /\ k - 1 \notin U
  BY <1>1, <1>2
<1>4. k - 1 + 1 \in T
  BY <1>3
<1> QED
  BY <1>2, <1>4

\* r is what a loop of n passes holds after each of them, when it starts with
\* base and pass i takes x to step[i][x].
LoopRun(r, S, base, n, step) ==
  /\ r \in [0 .. n -> S] /\ r[0] = base
  /\ \A i \in 1 .. n : r[i] = step[i][r[i - 1]]

\* Such a loop has a run.
LEMMA LoopRuns ==
  ASSUME NEW S, NEW base \in S, NEW n \in Nat, NEW step \in [1 .. n -> [S -> S]]
  PROVE  \E r : LoopRun(r, S, base, n, step)
<1> DEFINE Runs(k, r) == r[0] = base /\ \A i \in 1 .. k : r[i] = step[i][r[i - 1]]
           T == {k \in Nat : k <= n => \E r \in [0 .. k -> S] : Runs(k, r)}
<1>1. 0 \in T
  <2>1. Runs(0, [i \in 0 .. 0 |-> base])
    OBVIOUS
  <2>2. [i \in 0 .. 0 |-> base] \in [0 .. 0 -> S]
    OBVIOUS
  <2> QED
    BY <2>1, <2>2
<1>2. ASSUME NEW k \in Nat, k \in T PROVE k + 1 \in T
  <2> SUFFICES ASSUME k + 1 <= n PROVE \E r \in [0 .. k + 1 -> S] : Runs(k + 1, r)
    OBVIOUS
  <2>1. PICK r \in [0 .. k -> S] : Runs(k, r)
    BY <1>2
  <2> DEFINE q == [i \in 0 .. k + 1 |-> IF i <= k THEN r[i] ELSE step[k + 1][r[k]]]
  <2>2. step[k + 1] \in [S -> S] /\ r[k] \in S
    BY <2>1
  <2>3. q \in [0 .. k + 1 -> S]
    BY <2>1, <2>2
  <2>4. q[0] = base
    BY <2>1
  <2>5. ASSUME NEW i \in 1 .. k + 1 PROVE q[i] = step[i][q[i - 1]]
    <3>1. CASE i <= k
      <4>1. q[i] = r[i] /\ q[i - 1] = r[i - 1] /\ i \in 1 .. k
        BY <3>1
      <4> HIDE DEF q
      <4> QED
        BY <2>1, <4>1
    <3>2. CASE i = k + 1
      <4>1. q[i] = step[i][r[k]] /\ q[i - 1] = r[k]
        BY <3>2
      <4> HIDE DEF q
      <4> QED
        BY <4>1
    <3> QED
      BY <3>1, <3>2
  <2> HIDE DEF q
  <2> QED
    BY <2>3, <2>4, <2>5
<1>3. n \in T
  <2> HIDE DEF T
  <2> QED
    BY <1>1, <1>2, EveryNat
<1> QED
  BY <1>3 DEF LoopRun

\* A finite nonempty set with a strict partial order R has a minimal element:
\* one with the fewest elements below it.
LEMMA FiniteMinimal ==
  ASSUME NEW S, IsFiniteSet(S), S # {}, NEW R,
         \A x \in S : <<x, x>> \notin R,
         \A x, y, z \in S : <<x, y>> \in R /\ <<y, z>> \in R => <<x, z>> \in R
  PROVE  \E x \in S : \A y \in S : <<y, x>> \notin R
<1> DEFINE Below(x) == {y \in S : <<y, x>> \in R}
           ranks == {Cardinality(Below(x)) : x \in S}
<1>1. \A x \in S : IsFiniteSet(Below(x)) /\ Cardinality(Below(x)) \in Nat
  <2>1. ASSUME NEW x \in S
        PROVE  IsFiniteSet(Below(x))
    <3>1. Below(x) \in SUBSET S
      OBVIOUS
    <3>2. QED
      BY <3>1, FS_Subset
  <2>2. QED
    BY <2>1, FS_CardinalityType
<1>2. PICK r \in ranks : \A q \in ranks : r <= q
  <2>1. ranks \subseteq Nat /\ ranks # {}
    <3> HIDE DEF Below
    <3> QED BY <1>1
  <2> HIDE DEF ranks
  <2>2. QED
    BY <2>1, LeastNat
<1>3. PICK x \in S : r = Cardinality(Below(x))
  BY <1>2
<1>4. ASSUME NEW y \in S, <<y, x>> \in R
      PROVE  FALSE
  <2>1. Below(y) \in SUBSET Below(x)
    BY <1>4
  <2>2. Below(x) # Below(y)
    BY <1>4
  <2>3. /\ Cardinality(Below(y)) <= Cardinality(Below(x))
        /\ Cardinality(Below(x)) = Cardinality(Below(y)) => Below(x) = Below(y)
    <3> HIDE DEF Below
    <3> QED BY <2>1, <1>1, FS_Subset
  <2>4. r <= Cardinality(Below(y))
    <3>1. Cardinality(Below(y)) \in ranks
      OBVIOUS
    <3> HIDE DEF Below, ranks
    <3>2. QED
      BY <1>2, <3>1
  <2> HIDE DEF Below
  <2>5. QED
    BY <1>1, <1>3, <2>2, <2>3, <2>4
<1>5. QED
  BY <1>4

\* The places of a value in a sequence.
PlacesOf(s, a) == {i \in 1 .. Len(s) : s[i] = a}

\* The places of a value are finitely many, and none exactly when the value
\* does not occur.
LEMMA PlacesFinite ==
  ASSUME NEW D, NEW s \in Seq(D), NEW a
  PROVE  /\ IsFiniteSet(PlacesOf(s, a))
         /\ Cardinality(PlacesOf(s, a)) \in Nat
<1>1. IsFiniteSet(1 .. Len(s))
  BY FS_Interval
<1>2. PlacesOf(s, a) \in SUBSET (1 .. Len(s))
  BY DEF PlacesOf
<1>3. QED
  BY <1>1, <1>2, FS_Subset, FS_CardinalityType

\* Append adds one place for the value appended and for no other.
LEMMA PlacesAppend ==
  ASSUME NEW D, NEW s \in Seq(D), NEW b \in D, NEW a
  PROVE  Cardinality(PlacesOf(Append(s, b), a)) =
           Cardinality(PlacesOf(s, a)) + (IF a = b THEN 1 ELSE 0)
<1>1. CASE a = b
  <2>1. PlacesOf(Append(s, b), a) = PlacesOf(s, a) \cup {Len(s) + 1}
    BY <1>1, AppendProperties DEF PlacesOf
  <2>2. Len(s) + 1 \notin PlacesOf(s, a)
    BY DEF PlacesOf
  <2>3. QED
    BY <1>1, <2>1, <2>2, PlacesFinite, FS_AddElement
<1>2. CASE a # b
  <2>1. PlacesOf(Append(s, b), a) = PlacesOf(s, a)
    BY <1>2, AppendProperties DEF PlacesOf
  <2>2. QED
    BY <1>2, <2>1, PlacesFinite
<1>3. QED
  BY <1>1, <1>2

\* Tail removes one place of the first value and none of any other.
LEMMA PlacesTail ==
  ASSUME NEW D, NEW s \in Seq(D), s # <<>>, NEW a
  PROVE  Cardinality(PlacesOf(Tail(s), a)) =
           Cardinality(PlacesOf(s, a)) - (IF a = Head(s) THEN 1 ELSE 0)
<1> DEFINE f == [i \in PlacesOf(Tail(s), a) |-> i + 1]
           rest == PlacesOf(s, a) \ {1}
<1>1. Tail(s) \in Seq(D) /\ Len(Tail(s)) = Len(s) - 1 /\ Len(s) \in Nat \ {0}
  BY HeadTailProperties, LenProperties
<1>2. \A i \in 1 .. Len(Tail(s)) : Tail(s)[i] = s[i + 1]
  BY HeadTailProperties
<1>3. f \in [PlacesOf(Tail(s), a) -> rest]
  BY <1>1, <1>2 DEF PlacesOf
<1>4. \A i, j \in PlacesOf(Tail(s), a) : f[i] = f[j] => i = j
  BY DEF PlacesOf
<1>5. \A j \in rest : \E i \in PlacesOf(Tail(s), a) : f[i] = j
  <2> SUFFICES ASSUME NEW j \in rest
               PROVE  j - 1 \in PlacesOf(Tail(s), a) /\ f[j - 1] = j
    OBVIOUS
  <2>1. j - 1 \in PlacesOf(Tail(s), a)
    BY <1>1, <1>2 DEF PlacesOf
  <2>2. QED
    BY <2>1 DEF PlacesOf
<1>6. ExistsBijection(PlacesOf(Tail(s), a), rest)
  <2> HIDE DEF f, rest
  <2>1. f \in Bijection(PlacesOf(Tail(s), a), rest)
    BY <1>3, <1>4, <1>5 DEF Bijection, Injection, Surjection, IsInjective
  <2>2. QED
    BY <2>1 DEF ExistsBijection
<1>7. Cardinality(rest) = Cardinality(PlacesOf(Tail(s), a))
  <2> HIDE DEF f, rest
  <2> QED BY <1>1, <1>6, PlacesFinite, FS_Bijection
<1>8. 1 \in PlacesOf(s, a) <=> a = Head(s)
  BY <1>1 DEF PlacesOf
<1>9. Cardinality(rest) = Cardinality(PlacesOf(s, a))
                            - (IF a = Head(s) THEN 1 ELSE 0)
  <2>1. /\ IsFiniteSet(PlacesOf(s, a))
        /\ Cardinality(PlacesOf(s, a)) \in Nat
    BY PlacesFinite
  <2>2. Cardinality(rest) = IF 1 \in PlacesOf(s, a)
                            THEN Cardinality(PlacesOf(s, a)) - 1
                            ELSE Cardinality(PlacesOf(s, a))
    BY <2>1, FS_RemoveElement
  <2> HIDE DEF rest
  <2>3. QED
    BY <1>8, <2>1, <2>2
<1>10. QED
  BY <1>7, <1>9

\* Append adds one value to the values of a sequence.
LEMMA RangeAppend ==
  ASSUME NEW D, NEW s \in Seq(D), NEW e \in D
  PROVE  Range(Append(s, e)) = Range(s) \cup {e}
<1>1. /\ Append(s, e) \in Seq(D) /\ Len(Append(s, e)) = Len(s) + 1
      /\ \A i \in 1 .. Len(s) : Append(s, e)[i] = s[i]
      /\ Append(s, e)[Len(s) + 1] = e
  BY AppendProperties
<1>2. Range(s) = {s[i] : i \in 1 .. Len(s)} /\ Len(s) \in Nat
  BY RangeEquality, LenProperties
<1>3. Range(Append(s, e)) = {Append(s, e)[i] : i \in 1 .. Len(s) + 1}
  BY <1>1, RangeEquality
<1>4. 1 .. Len(s) + 1 = (1 .. Len(s)) \cup {Len(s) + 1}
  BY <1>2
<1> QED
  BY <1>1, <1>2, <1>3, <1>4

\* A sequence without repetitions has as many values as places.
LEMMA RangeCardinality ==
  ASSUME NEW D, NEW s \in Seq(D), IsInjective(s)
  PROVE  IsFiniteSet(Range(s)) /\ Cardinality(Range(s)) = Len(s)
<1>1. Len(s) \in Nat /\ s \in [1 .. Len(s) -> D] /\ DOMAIN s = 1 .. Len(s)
  BY LenProperties
<1>2. s \in [1 .. Len(s) -> Range(s)]
  BY <1>1 DEF Range
<1>3. \A t \in Range(s) : \E i \in 1 .. Len(s) : s[i] = t
  BY <1>1 DEF Range
<1>4. s \in Bijection(1 .. Len(s), Range(s))
  BY <1>2, <1>3 DEF Bijection, Injection, Surjection
<1>5. ExistsBijection(1 .. Len(s), Range(s))
  BY <1>4 DEF ExistsBijection
<1>6. IsFiniteSet(1 .. Len(s)) /\ Cardinality(1 .. Len(s)) = Len(s)
  BY <1>1, FS_Interval
<1> QED
  BY <1>5, <1>6, FS_Bijection

\* Append keeps a sequence free of repetitions when its value is new.
LEMMA InjectiveAppend ==
  ASSUME NEW D, NEW s \in Seq(D), IsInjective(s), NEW e \in D, e \notin Range(s)
  PROVE  IsInjective(Append(s, e))
<1>1. /\ Append(s, e) \in Seq(D) /\ Len(Append(s, e)) = Len(s) + 1
      /\ \A i \in 1 .. Len(s) : Append(s, e)[i] = s[i]
      /\ Append(s, e)[Len(s) + 1] = e
  BY AppendProperties
<1>2. /\ DOMAIN Append(s, e) = 1 .. Len(s) + 1 /\ DOMAIN s = 1 .. Len(s)
      /\ Len(s) \in Nat
  BY <1>1, LenProperties
<1>3. \A i \in 1 .. Len(s) : s[i] # e
  BY <1>2 DEF Range
<1> QED
  BY <1>1, <1>2, <1>3 DEF IsInjective

\* An injection between a finite set and 1 .. n, n its cardinality, meets every
\* element.
LEMMA InjectionIsOnto ==
  ASSUME NEW S, IsFiniteSet(S), NEW T, IsFiniteSet(T), Cardinality(S) = Cardinality(T),
         NEW f \in [S -> T], \A x, y \in S : f[x] = f[y] => x = y
  PROVE  \A z \in T : \E x \in S : f[x] = z
<1>1. f \in Injection(S, T)
  BY DEF Injection, IsInjective
<1>2. f \in Surjection(S, T)
  BY <1>1, FS_Injection
<1> QED
  BY <1>2 DEF Surjection

\* A finite set with a strict total order can be written down in that order:
\* the place of an element is the number of those below it.
LEMMA SortedEnumeration ==
  ASSUME NEW S, IsFiniteSet(S), NEW R,
         \A x \in S : <<x, x>> \notin R,
         \A x, y, z \in S : <<x, y>> \in R /\ <<y, z>> \in R => <<x, z>> \in R,
         \A x, y \in S : x = y \/ <<x, y>> \in R \/ <<y, x>> \in R
  PROVE  \E s \in [1 .. Cardinality(S) -> S] :
           \A i, j \in 1 .. Cardinality(S) : i < j => <<s[i], s[j]>> \in R
<1> DEFINE n == Cardinality(S)
           Below(x) == {y \in S : <<y, x>> \in R}
           place == [x \in S |-> Cardinality(Below(x)) + 1]
<1>1. n \in Nat
  BY FS_CardinalityType
<1>2. ASSUME NEW x \in S
      PROVE  /\ IsFiniteSet(Below(x)) /\ Cardinality(Below(x)) \in Nat
             /\ Cardinality(Below(x)) <= n /\ Cardinality(Below(x)) # n
  <2>1. Below(x) \in SUBSET S /\ x \notin Below(x)
    OBVIOUS
  <2>2. S # Below(x)
    BY <2>1
  <2> HIDE DEF Below
  <2> QED
    BY <2>1, <2>2, FS_Subset, FS_CardinalityType
<1>3. ASSUME NEW x \in S, NEW y \in S, <<x, y>> \in R
      PROVE  Cardinality(Below(x)) < Cardinality(Below(y))
  <2>1. Below(x) \in SUBSET Below(y) /\ x \in Below(y) /\ x \notin Below(x)
    BY <1>3
  <2> HIDE DEF Below
  <2>2. /\ Cardinality(Below(x)) <= Cardinality(Below(y))
        /\ Cardinality(Below(y)) = Cardinality(Below(x)) => Below(y) = Below(x)
    BY <1>2, <2>1, FS_Subset
  <2> QED
    BY <1>2, <2>1, <2>2
<1> HIDE DEF Below
<1>4. place \in [S -> 1 .. n] /\ \A x \in S : place[x] = Cardinality(Below(x)) + 1
  <2>1. \A x \in S : Cardinality(Below(x)) + 1 \in 1 .. n
    <3> HIDE DEF n
    <3> QED
      BY <1>1, <1>2
  <2> QED
    BY <2>1
<1> HIDE DEF place
<1>5. \A x, y \in S : <<x, y>> \in R => place[x] < place[y]
  BY <1>2, <1>3, <1>4
<1>6. \A x, y \in S : place[x] = place[y] => x = y
  <2> SUFFICES ASSUME NEW x \in S, NEW y \in S, place[x] = place[y], x # y PROVE FALSE
    OBVIOUS
  <2>1. place[x] \in Int /\ place[y] \in Int
    BY <1>1, <1>4
  <2>2. <<x, y>> \notin R /\ <<y, x>> \notin R
    BY <1>5, <2>1
  <2> QED
    BY <2>2
<1>7. \A i \in 1 .. n : \E x \in S : place[x] = i
  <2>1. IsFiniteSet(1 .. n) /\ Cardinality(1 .. n) = n
    BY <1>1, FS_Interval
  <2>2. Cardinality(S) = Cardinality(1 .. n)
    BY <2>1
  <2> HIDE DEF n
  <2> DEFINE T == 1 .. n
  <2>3. IsFiniteSet(T) /\ Cardinality(S) = Cardinality(T) /\ place \in [S -> T]
    BY <1>4, <2>1, <2>2
  <2> HIDE DEF T
  <2>4. \A i \in T : \E x \in S : place[x] = i
    BY <1>6, <2>3, InjectionIsOnto
  <2> QED
    BY <2>4 DEF T
<1> DEFINE s == [i \in 1 .. n |-> CHOOSE x \in S : place[x] = i]
<1>8. \A i \in 1 .. n : s[i] \in S /\ place[s[i]] = i
  BY <1>7
<1>9. s \in [1 .. n -> S]
  BY <1>7
<1> HIDE DEF s, n
<1>10. ASSUME NEW i \in 1 .. n, NEW j \in 1 .. n, i < j PROVE <<s[i], s[j]>> \in R
  <2>1. s[i] \in S /\ s[j] \in S /\ place[s[i]] = i /\ place[s[j]] = j
    BY <1>8
  <2>2. i \in Int /\ j \in Int /\ ~(j < i) /\ i # j
    BY <1>1, <1>10
  <2>3. s[i] # s[j]
    BY <2>1, <2>2
  <2>4. <<s[j], s[i]>> \notin R
    BY <1>5, <2>1, <2>2
  <2> QED
    BY <2>1, <2>3, <2>4
<1> QED
  BY <1>9, <1>10 DEF n

(***************************************************************************)
(* FlattenSeq, as the loop that appends one sequence after another.        *)
(***************************************************************************)
FlattenRun(r, ss, D) ==
  /\ r \in [0 .. Len(ss) -> Seq(D)] /\ r[0] = <<>>
  /\ \A i \in 1 .. Len(ss) : r[i] = r[i - 1] \o ss[i]
  /\ FlattenSeq(ss) = r[Len(ss)]

LEMMA FlattenSteps ==
  ASSUME NEW D, NEW ss \in Seq(Seq(D))
  PROVE  \E r : FlattenRun(r, ss, D)
<1> DEFINE L == Len(ss)
<1>1. L \in Nat /\ \A i \in 1 .. L : ss[i] \in Seq(D)
  OBVIOUS
<1> DEFINE S == Seq(D)
           step == [i \in 1 .. L |-> [x \in S |-> x \o ss[i]]]
           J(x, y) == x \o y
<1>2. step \in [1 .. L -> [S -> S]] /\ <<>> \in S
  BY <1>1, ConcatProperties
<1>3. \A i \in 1 .. L : \A x \in S : step[i][x] = x \o ss[i]
  OBVIOUS
<1>4. PICK r : LoopRun(r, S, <<>>, L, step)
  <2> HIDE DEF L, S, step
  <2> QED
    BY <1>1, <1>2, LoopRuns
<1>5. r \in [0 .. L -> Seq(D)] /\ r[0] = <<>> /\ \A i \in 1 .. L : r[i] = J(r[i - 1], ss[i])
  <2> HIDE DEF step
  <2>1. \A i \in 1 .. L : i \in 0 .. L /\ i - 1 \in 0 .. L
    BY <1>1
  <2> HIDE DEF L
  <2>2. \A i \in 1 .. L : r[i - 1] \in S /\ r[i] = step[i][r[i - 1]]
    BY <1>4, <2>1 DEF LoopRun
  <2>3. \A i \in 1 .. L : r[i] = r[i - 1] \o ss[i]
    BY <1>3, <2>2
  <2> QED
    BY <1>4, <2>3 DEF LoopRun
<1>6. CASE L = 0
  <2>1. ss = <<>> /\ FlattenSeq(ss) = <<>>
    BY <1>6 DEF FlattenSeq
  <2> QED
    BY <1>5, <1>6, <2>1 DEF FlattenRun
<1>7. CASE L # 0
  <2> DEFINE Loop(t) == t = [i \in 1 .. Len(ss) |-> IF i = 1 THEN ss[i] ELSE t[i - 1] \o ss[i]]
             flat == CHOOSE t : Loop(t)
             f == [i \in 1 .. Len(ss) |-> r[i]]
  <2>1. 1 \in 1 .. L /\ 1 - 1 = 0 /\ r[1] = ss[1]
    <3>1. 1 \in 1 .. L /\ 1 - 1 = 0
      BY <1>1, <1>7
    <3>2. r[1] = J(r[1 - 1], ss[1])
      BY <1>5, <3>1, Zenon
    <3>3. J(<<>>, ss[1]) = ss[1]
      BY <1>1, <3>1
    <3> QED
      BY <1>5, <3>1, <3>2, <3>3, Zenon
  <2>2. Loop(f)
    <3>1. ASSUME NEW i \in 1 .. L PROVE r[i] = IF i = 1 THEN ss[i] ELSE f[i - 1] \o ss[i]
      <4>1. CASE i = 1
        BY <2>1, <4>1
      <4>2. CASE i # 1
        <5>1. i - 1 \in 1 .. L
          BY <1>1, <4>2
        <5>2. f[i - 1] = r[i - 1]
          BY <5>1
        <5> QED
          BY <1>5, <4>2, <5>2
      <4> QED
        BY <4>1, <4>2
    <3> QED
      BY <3>1
  <2>3. Loop(flat)
    BY <2>2, Zenon
  <2>4. FlattenSeq(ss) = flat[L]
    BY <1>7 DEF FlattenSeq
  <2> HIDE DEF flat
  <2>5. flat[1] = ss[1] /\ \A i \in 2 .. L : flat[i] = J(flat[i - 1], ss[i])
    <3>1. flat = [i \in 1 .. L |-> IF i = 1 THEN ss[i] ELSE J(flat[i - 1], ss[i])]
      BY <2>3
    <3> HIDE DEF J
    <3>2. flat[1] = ss[1]
      BY <1>1, <1>7, <3>1
    <3>3. ASSUME NEW i \in 2 .. L PROVE flat[i] = J(flat[i - 1], ss[i])
      <4>1. i \in 1 .. L /\ i # 1
        BY <1>1
      <4> HIDE DEF L
      <4> QED
        BY <3>1, <4>1
    <3> QED
      BY <3>2, <3>3
  <2> HIDE DEF Loop, J
  <2> DEFINE T == {k \in Nat : k + 1 <= L => flat[k + 1] = r[k + 1]}
  <2>6. 0 \in T
    BY <2>1, <2>5
  <2>7. ASSUME NEW k \in Nat, k \in T PROVE k + 1 \in T
    <3> DEFINE n == k + 1 + 1
    <3> SUFFICES ASSUME n <= L PROVE flat[n] = r[n]
      OBVIOUS
    <3>1. n \in 2 .. L /\ n \in 1 .. L /\ n - 1 = k + 1 /\ k + 1 <= L
      BY <1>1
    <3> HIDE DEF n
    <3>2. flat[n] = J(flat[n - 1], ss[n]) /\ r[n] = J(r[n - 1], ss[n])
      BY <1>5, <2>5, <3>1
    <3>3. flat[n - 1] = r[n - 1]
      BY <2>7, <3>1
    <3> QED
      BY <3>2, <3>3, Zenon
  <2>8. flat[L] = r[L]
    <3>1. Nat \subseteq T
      <4> HIDE DEF T
      <4> QED
        BY <2>6, <2>7, EveryNat
    <3>2. L - 1 \in Nat /\ L - 1 + 1 = L
      BY <1>1, <1>7
    <3>3. L - 1 \in T
      BY <3>1, <3>2, Zenon
    <3> HIDE DEF L
    <3> QED
      BY <1>1, <3>2, <3>3
  <2> QED
    BY <1>5, <2>4, <2>8 DEF FlattenRun, J
<1> QED
  BY <1>6, <1>7
=============================================================================
