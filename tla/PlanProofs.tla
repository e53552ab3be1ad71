----------------------------- MODULE PlanProofs ------------------------------
(***************************************************************************)
(* Channel plans: what toJsonString() writes is read back by the handler   *)
(* of the JSON reader, for files of any number of plans, with any number   *)
(* of data rates, channels and offsets.  The file is taken in pieces, each *)
(* of which leads the handler from one known state to the next.            *)
(***************************************************************************)
EXTENDS RegionalParameters, OrderLemmas

(***************************************************************************)
(* Channel plans: the handler over a sequence of events.                   *)
(***************************************************************************)
Kinds == {"int", "bool", "double", "string", "{", "}", "[", "]", "key"}
Values == Int \cup BOOLEAN \cup STRING \cup Attributes \cup {Blank, Version, "LORA", "FSK"}
Events == [ev : Kinds, v : Values]

\* The reader stops with the first event that the handler refuses.
Taken(h, e) == IF h.result = "ok" THEN Handle(h, e) ELSE h

\* r holds what the handler is after each of the events es, from h to g.
EventRun(r, h, es, g) ==
  /\ r[0] = h /\ r[Len(es)] = g
  /\ \A i \in 1 .. Len(es) : r[i] = Taken(r[i - 1], es[i])
ReadsTo(h, es, g) == es \in Seq(Events) /\ \E r : EventRun(r, h, es, g)

\* One event.
LEMMA ReadsOne ==
  ASSUME NEW h, NEW e \in Events
  PROVE  ReadsTo(h, <<e>>, Taken(h, e))
<1> DEFINE r == [i \in 0 .. 1 |-> IF i = 0 THEN h ELSE Taken(h, e)]
           s == <<e>>
<1>1. s \in Seq(Events) /\ Len(s) = 1 /\ s[1] = e
  OBVIOUS
<1>2. r[0] = h /\ r[1] = Taken(h, e)
  OBVIOUS
<1> HIDE DEF r
<1>3. ASSUME NEW i \in 1 .. Len(s) PROVE r[i] = Taken(r[i - 1], s[i])
  <2>1. i = 1 /\ i - 1 = 0
    BY <1>1
  <2> HIDE DEF s
  <2> QED
    BY <1>1, <1>2, <2>1, Zenon
<1> HIDE DEF s
<1>4. EventRun(r, h, s, Taken(h, e))
  BY <1>1, <1>2, <1>3, Zenon DEF EventRun
<1>5. ReadsTo(h, s, Taken(h, e))
  BY <1>1, <1>4, Zenon DEF ReadsTo
<1> QED
  BY <1>5 DEF s

\* Two sequences of events, one after the other.
LEMMA ReadsMore ==
  ASSUME NEW h, NEW a, NEW g, NEW b, NEW f, ReadsTo(h, a, g), ReadsTo(g, b, f)
  PROVE  ReadsTo(h, a \o b, f)
<1> DEFINE s == a \o b
           n == Len(a)
           m == Len(b)
<1>1. a \in Seq(Events) /\ b \in Seq(Events)
  BY DEF ReadsTo
<1>2. s \in Seq(Events) /\ Len(s) = n + m /\ n \in Nat /\ m \in Nat
  BY <1>1, ConcatProperties
<1>3. \A i \in 1 .. n + m : s[i] = IF i <= n THEN a[i] ELSE b[i - n]
  BY <1>1, ConcatProperties
<1>4. PICK q : EventRun(q, h, a, g)
  BY Zenon DEF ReadsTo
<1>5. PICK t : EventRun(t, g, b, f)
  BY Zenon DEF ReadsTo
<1> HIDE DEF s
<1> DEFINE r == [i \in 0 .. n + m |-> IF i <= n THEN q[i] ELSE t[i - n]]
<1>6. /\ q[0] = h /\ q[n] = g /\ t[0] = g /\ t[m] = f
      /\ \A i \in 1 .. n : q[i] = Taken(q[i - 1], a[i])
      /\ \A i \in 1 .. m : t[i] = Taken(t[i - 1], b[i])
  BY <1>4, <1>5, Zenon DEF EventRun
<1> HIDE DEF n, m
<1>7. /\ \A i \in 0 .. n : r[i] = q[i]
      /\ \A i \in 0 .. m : r[n + i] = t[i]
  <2>1. \A i \in 0 .. n : r[i] = q[i]
    BY <1>2
  <2>2. ASSUME NEW i \in 0 .. m PROVE r[n + i] = t[i]
    <3>1. CASE i = 0
      BY <1>2, <1>6, <2>1, <3>1
    <3>2. CASE i # 0
      <4>1. \A j \in 0 .. n + m : ~(j <= n) => r[j] = t[j - n]
        BY <1>2
      <4>2. n + i \in 0 .. n + m /\ ~(n + i <= n) /\ n + i - n = i
        BY <1>2, <3>2
      <4> HIDE DEF r
      <4>3. ASSUME NEW j \in 0 .. n + m, ~(j <= n), j - n = i PROVE r[j] = t[i]
        BY <4>1, <4>3, Zenon
      <4> QED
        BY <1>2, <4>2, <4>3
    <3> QED
      BY <3>1, <3>2
  <2> QED
    BY <2>1, <2>2
<1> HIDE DEF r
<1>8. ASSUME NEW i \in 1 .. n + m PROVE r[i] = Taken(r[i - 1], s[i])
  <2>1. CASE i <= n
    <3>1. i \in 1 .. n /\ i \in 0 .. n /\ i - 1 \in 0 .. n
      BY <1>2, <2>1
    <3>2. s[i] = a[i] /\ r[i] = q[i] /\ r[i - 1] = q[i - 1]
      BY <1>3, <1>7, <2>1, <3>1
    <3> QED
      BY <1>6, <3>1, <3>2, Zenon
  <2>2. CASE ~(i <= n)
    <3> DEFINE j == i - n
    <3>1. j \in 1 .. m /\ j \in 0 .. m /\ j - 1 \in 0 .. m /\ i = n + j /\ i - 1 = n + (j - 1)
      BY <1>2, <2>2
    <3>2. s[i] = b[j]
      BY <1>3, <2>2
    <3> HIDE DEF j
    <3>3. r[i] = t[j] /\ r[i - 1] = t[j - 1]
      BY <1>7, <3>1
    <3> QED
      BY <1>6, <3>1, <3>2, <3>3, Zenon
  <2> QED
    BY <2>1, <2>2
<1>9. r[0] = h /\ r[n + m] = f
  <2>1. 0 \in 0 .. n /\ m \in 0 .. m
    BY <1>2
  <2> QED
    BY <1>6, <1>7, <2>1
<1>10. EventRun(r, h, s, f)
  BY <1>2, <1>8, <1>9 DEF EventRun
<1>11. ReadsTo(h, s, f)
  BY <1>2, <1>10, Zenon DEF ReadsTo
<1> QED
  BY <1>11 DEF s

\* The first event, and the rest.
LEMMA ReadsHead ==
  ASSUME NEW h, NEW es, NEW g, ReadsTo(h, es, g), es # <<>>
  PROVE  ReadsTo(Taken(h, Head(es)), Tail(es), g)
<1>1. es \in Seq(Events)
  BY DEF ReadsTo
<1> DEFINE n == Len(es)
           s == Tail(es)
<1>2. n \in Nat /\ n >= 1 /\ s \in Seq(Events) /\ Len(s) = n - 1 /\ Head(es) = es[1]
  BY <1>1
<1>3. \A i \in 1 .. n - 1 : s[i] = es[i + 1]
  BY <1>1
<1>4. PICK q : EventRun(q, h, es, g)
  BY Zenon DEF ReadsTo
<1>5. q[0] = h /\ q[n] = g /\ \A i \in 1 .. n : q[i] = Taken(q[i - 1], es[i])
  BY <1>4, Zenon DEF EventRun
<1> HIDE DEF n, s
<1> DEFINE r == [i \in 0 .. n - 1 |-> q[i + 1]]
<1>6. r[0] = Taken(h, Head(es)) /\ r[n - 1] = g
  <2>1. r[0] = q[1] /\ r[n - 1] = q[n]
    BY <1>2
  <2>2. 1 \in 1 .. n /\ 1 - 1 = 0
    BY <1>2
  <2> QED
    BY <1>2, <1>5, <2>1, <2>2, Zenon
<1>7. ASSUME NEW i \in 1 .. n - 1 PROVE r[i] = Taken(r[i - 1], s[i])
  <2>1. i + 1 \in 1 .. n /\ i + 1 - 1 = i /\ i \in 0 .. n - 1 /\ i - 1 \in 0 .. n - 1 /\ i - 1 + 1 = i
    BY <1>2
  <2>2. r[i] = q[i + 1] /\ r[i - 1] = q[i]
    BY <2>1
  <2> HIDE DEF r
  <2>3. ASSUME NEW j \in 1 .. n, j - 1 = i PROVE q[j] = Taken(q[i], es[j])
    BY <1>5, <2>3, Zenon
  <2>4. q[i + 1] = Taken(q[i], es[i + 1])
    BY <2>1, <2>3
  <2> QED
    BY <1>3, <2>1, <2>2, <2>4, Zenon
<1> HIDE DEF r
<1>8. EventRun(r, Taken(h, Head(es)), s, g)
  BY <1>2, <1>6, <1>7 DEF EventRun
<1>9. ReadsTo(Taken(h, Head(es)), s, g)
  BY <1>2, <1>8, Zenon DEF ReadsTo
<1> QED
  BY <1>9 DEF s

\* A handler that has failed stays as it is.
LEMMA FailedStays ==
  ASSUME NEW h, h.result # "ok"
  PROVE  /\ \A es \in Seq(Events) : ReadsTo(h, es, h)
         /\ \A es, g : ReadsTo(h, es, g) => g = h
<1>1. \A e : Taken(h, e) = h
  BY Zenon DEF Taken
<1>2. ASSUME NEW es \in Seq(Events) PROVE ReadsTo(h, es, h)
  <2> DEFINE n == Len(es)
             r == [i \in 0 .. n |-> h]
  <2>1. n \in Nat
    OBVIOUS
  <2>2. r[0] = h /\ r[n] = h /\ \A i \in 1 .. n : r[i] = h /\ r[i - 1] = h
    BY <2>1
  <2> HIDE DEF r
  <2>3. \A i \in 1 .. n : r[i] = Taken(r[i - 1], es[i])
    BY <1>1, <2>2, Zenon
  <2>4. EventRun(r, h, es, h)
    BY <2>2, <2>3, Zenon DEF EventRun
  <2> QED
    BY <2>4, Zenon DEF ReadsTo
<1>3. ASSUME NEW es, NEW g, ReadsTo(h, es, g) PROVE g = h
  <2> DEFINE n == Len(es)
  <2>1. n \in Nat
    BY <1>3 DEF ReadsTo
  <2>2. PICK q : EventRun(q, h, es, g)
    BY <1>3, Zenon DEF ReadsTo
  <2>3. q[0] = h /\ q[n] = g /\ \A i \in 1 .. n : q[i] = Taken(q[i - 1], es[i])
    BY <2>2, Zenon DEF EventRun
  <2> DEFINE T == {k \in Nat : k <= n => q[k] = h}
  <2> HIDE DEF n
  <2>4. 0 \in T
    BY <2>3
  <2>5. ASSUME NEW k \in Nat, k \in T PROVE k + 1 \in T
    <3> SUFFICES ASSUME k + 1 <= n PROVE q[k + 1] = h
      OBVIOUS
    <3>1. k + 1 \in 1 .. n /\ k + 1 - 1 = k /\ k <= n
      BY <2>1
    <3>2. q[k] = h
      BY <2>5, <3>1
    <3>3. ASSUME NEW j \in 1 .. n, j - 1 = k PROVE q[j] = Taken(q[k], es[j])
      BY <2>3, <3>3, Zenon
    <3>4. q[k + 1] = Taken(q[k], es[k + 1])
      BY <3>1, <3>3
    <3> QED
      BY <1>1, <3>2, <3>4, Zenon
  <2>6. n \in T
    <3> HIDE DEF T
    <3>1. Nat \subseteq T
      BY <2>4, <2>5, EveryNat
    <3> QED
      BY <2>1, <3>1
  <2> QED
    BY <2>1, <2>3, <2>6
<1> QED
  BY <1>2, <1>3, Zenon

(***************************************************************************)
(* Which attribute was read last matters for no more than one event, so    *)
(* what a piece of the file does is said for every key before it.          *)
(***************************************************************************)
Cn(r, s, p, x, o) == [rates |-> r, sizes |-> s, repeater |-> p, rx1 |-> x, offsets |-> o]
Hd(st, k, pv, c, bs) ==
  [state |-> st, key |-> k, prev |-> pv, rates |-> c.rates, sizes |-> c.sizes,
   repeater |-> c.repeater, rx1 |-> c.rx1, offsets |-> c.offsets, bands |-> bs, result |-> "ok"]
Hx(st, pv, c, bs) == Hd(st, Blank, pv, c, bs)
WithKey(h, k) == [h EXCEPT !.key = k]

Takes(x, es, y) ==
  es \in Seq(Events) /\ \A k : \E l : ReadsTo(WithKey(x, k), es, WithKey(y, l))

LEMMA KeyOf ==
  ASSUME NEW st, NEW pv, NEW c, NEW bs, NEW k
  PROVE  WithKey(Hx(st, pv, c, bs), k) = Hd(st, k, pv, c, bs)
BY DEF WithKey, Hx, Hd

\* Two pieces of a file, one after the other.
LEMMA TakesMore ==
  ASSUME NEW x, NEW a, NEW y, NEW b, NEW z, Takes(x, a, y), Takes(y, b, z)
  PROVE  Takes(x, a \o b, z)
<1>1. a \in Seq(Events) /\ b \in Seq(Events)
  BY Zenon DEF Takes
<1>2. a \o b \in Seq(Events)
  BY <1>1, ConcatProperties
<1>3. ASSUME NEW k PROVE \E l : ReadsTo(WithKey(x, k), a \o b, WithKey(z, l))
  <2>1. PICK l : ReadsTo(WithKey(x, k), a, WithKey(y, l))
    BY Zenon DEF Takes
  <2>2. PICK n : ReadsTo(WithKey(y, l), b, WithKey(z, n))
    BY Zenon DEF Takes
  <2>3. ReadsTo(WithKey(x, k), a \o b, WithKey(z, n))
    BY <2>1, <2>2, ReadsMore, Zenon
  <2> QED
    BY <2>3, Zenon
<1> QED
  BY <1>2, <1>3, Zenon DEF Takes

LEMMA TakesNothing ==
  ASSUME NEW x
  PROVE  Takes(x, <<>>, x)
<1>1. ASSUME NEW h PROVE ReadsTo(h, <<>>, h)
  <2> DEFINE r == [i \in 0 .. 0 |-> h]
             s == <<>>
  <2>1. s \in Seq(Events) /\ Len(s) = 0 /\ r[0] = h /\ 1 .. 0 = {}
    OBVIOUS
  <2> HIDE DEF r, s
  <2>2. EventRun(r, h, s, h)
    BY <2>1, Zenon DEF EventRun
  <2>3. ReadsTo(h, s, h)
    BY <2>1, <2>2, Zenon DEF ReadsTo
  <2> QED
    BY <2>3 DEF s
<1>2. <<>> \in Seq(Events)
  OBVIOUS
<1> QED
  BY <1>1, <1>2, Zenon DEF Takes

\* An event that the handler takes whatever the key.
LEMMA TakesEvent ==
  ASSUME NEW st, NEW pv, NEW c, NEW bs, NEW y, NEW e \in Events,
         \A k : Handle(Hd(st, k, pv, c, bs), e) = WithKey(y, k)
  PROVE  Takes(Hx(st, pv, c, bs), <<e>>, y)
<1>1. <<e>> \in Seq(Events)
  OBVIOUS
<1>2. ASSUME NEW k PROVE \E l : ReadsTo(WithKey(Hx(st, pv, c, bs), k), <<e>>, WithKey(y, l))
  <2> DEFINE h == Hd(st, k, pv, c, bs)
  <2>1. h.result = "ok"
    BY DEF Hd
  <2> HIDE DEF h
  <2>2. Taken(h, e) = Handle(h, e)
    BY <2>1 DEF Taken
  <2>3. Taken(h, e) = WithKey(y, k)
    BY <2>2, Zenon DEF h
  <2>4. ReadsTo(h, <<e>>, Taken(h, e))
    BY ReadsOne
  <2>5. WithKey(Hx(st, pv, c, bs), k) = h
    BY DEF WithKey, Hx, Hd, h
  <2> QED
    BY <2>3, <2>4, <2>5, Zenon
<1> QED
  BY <1>1, <1>2, Zenon DEF Takes

LEMMA EventIs ==
  ASSUME NEW kind \in Kinds, NEW v \in Values
  PROVE  /\ Ev(kind, v) = <<[ev |-> kind, v |-> v]>>
         /\ [ev |-> kind, v |-> v] \in Events
BY DEF Ev, Events

\* A key and the event after it.
LEMMA TakesMember ==
  ASSUME NEW st, NEW pv, NEW c, NEW bs, NEW y, NEW key \in Attributes,
         NEW kind \in Kinds, NEW v \in Values,
         Handle(Hd(st, key, pv, c, bs), [ev |-> kind, v |-> v]) = WithKey(y, key)
  PROVE  Takes(Hx(st, pv, c, bs), Member(key, Ev(kind, v)), y)
<1> DEFINE e == [ev |-> kind, v |-> v]
           d == [ev |-> "key", v |-> key]
           x == Hx(st, pv, c, bs)
           g == Hd(st, key, pv, c, bs)
<1>1. key \in Values /\ "key" \in Kinds
  BY Zenon DEF Values, Kinds
<1>2. e \in Events /\ d \in Events /\ Ev("key", key) = <<d>> /\ Ev(kind, v) = <<e>>
  BY <1>1, EventIs, Zenon
<1>3. Handle(g, e) = WithKey(y, key)
  OBVIOUS
<1>4. ASSUME NEW k PROVE Taken(Hd(st, k, pv, c, bs), d) = g
  <2> DEFINE h == Hd(st, k, pv, c, bs)
  <2>1. h.result = "ok"
    BY DEF Hd
  <2>2. Taken(h, d) = Handle(h, d)
    <3> HIDE DEF h
    <3> QED
      BY <2>1 DEF Taken
  <2>3. d.ev = "key" /\ d.v = key
    OBVIOUS
  <2> HIDE DEF d, h
  <2>4. Handle(h, d) = Key(h, key)
    BY <2>3 DEF Handle
  <2>5. Key(h, key) = WithKey(h, key)
    BY DEF Key, WithKey
  <2>6. WithKey(h, key) = g
    BY DEF h, Hd, WithKey
  <2> QED
    BY <2>2, <2>4, <2>5, <2>6, Zenon DEF h
<1>5. g.result = "ok"
  BY DEF Hd
<1> HIDE DEF g, e, d, x
<1>6. Taken(g, e) = WithKey(y, key)
  BY <1>3, <1>5 DEF Taken
<1>7. ReadsTo(g, <<e>>, WithKey(y, key))
  BY <1>2, <1>6, ReadsOne, Zenon
<1>8. ASSUME NEW k PROVE ReadsTo(WithKey(x, k), <<d>> \o <<e>>, WithKey(y, key))
  <2>1. ReadsTo(Hd(st, k, pv, c, bs), <<d>>, g)
    BY <1>2, <1>4, ReadsOne, Zenon
  <2>2. WithKey(x, k) = Hd(st, k, pv, c, bs)
    BY DEF WithKey, Hx, Hd, x
  <2> QED
    BY <1>7, <2>1, <2>2, ReadsMore, Zenon
<1>9. <<d>> \o <<e>> \in Seq(Events)
  BY <1>2
<1>10. Takes(x, <<d>> \o <<e>>, y)
  BY <1>8, <1>9, Zenon DEF Takes
<1>11. Member(key, Ev(kind, v)) = <<d>> \o <<e>>
  BY <1>2, Zenon DEF Member
<1> QED
  BY <1>10, <1>11, Zenon DEF x

(***************************************************************************)
(* Pieces of the file, one after another.                                  *)
(***************************************************************************)
PieceRun(hs, x, ms, y) ==
  /\ hs[0] = x /\ hs[Len(ms)] = y
  /\ \A i \in 1 .. Len(ms) : Takes(hs[i - 1], ms[i], hs[i])
TakesAll(x, ms, y) == ms \in Seq(Seq(Events)) /\ \E hs : PieceRun(hs, x, ms, y)

LEMMA AllOne ==
  ASSUME NEW x, NEW m, NEW y, Takes(x, m, y)
  PROVE  TakesAll(x, <<m>>, y)
<1> DEFINE r == [i \in 0 .. 1 |-> IF i = 0 THEN x ELSE y]
           s == <<m>>
<1>1. m \in Seq(Events)
  BY Zenon DEF Takes
<1>2. s \in Seq(Seq(Events)) /\ Len(s) = 1 /\ s[1] = m
  BY <1>1
<1>3. r[0] = x /\ r[1] = y
  OBVIOUS
<1> HIDE DEF r
<1>4. ASSUME NEW i \in 1 .. Len(s) PROVE Takes(r[i - 1], s[i], r[i])
  <2>1. i = 1 /\ i - 1 = 0
    BY <1>2
  <2> HIDE DEF s
  <2> QED
    BY <1>2, <1>3, <2>1, Zenon
<1> HIDE DEF s
<1>5. PieceRun(r, x, s, y)
  BY <1>2, <1>3, <1>4, Zenon DEF PieceRun
<1>6. TakesAll(x, s, y)
  BY <1>2, <1>5, Zenon DEF TakesAll
<1> QED
  BY <1>6 DEF s

\* Two lists of pieces, one after the other.
LEMMA AllMore ==
  ASSUME NEW x, NEW a, NEW y, NEW b, NEW z, TakesAll(x, a, y), TakesAll(y, b, z)
  PROVE  TakesAll(x, a \o b, z)
<1> DEFINE s == a \o b
           n == Len(a)
           m == Len(b)
<1>1. a \in Seq(Seq(Events)) /\ b \in Seq(Seq(Events))
  BY DEF TakesAll
<1>2. s \in Seq(Seq(Events)) /\ Len(s) = n + m /\ n \in Nat /\ m \in Nat
  BY <1>1, ConcatProperties
<1>3. \A i \in 1 .. n + m : s[i] = IF i <= n THEN a[i] ELSE b[i - n]
  BY <1>1, ConcatProperties
<1>4. PICK q : PieceRun(q, x, a, y)
  BY Zenon DEF TakesAll
<1>5. PICK t : PieceRun(t, y, b, z)
  BY Zenon DEF TakesAll
<1> HIDE DEF s
<1> DEFINE r == [i \in 0 .. n + m |-> IF i <= n THEN q[i] ELSE t[i - n]]
<1>6. /\ q[0] = x /\ q[n] = y /\ t[0] = y /\ t[m] = z
      /\ \A i \in 1 .. n : Takes(q[i - 1], a[i], q[i])
      /\ \A i \in 1 .. m : Takes(t[i - 1], b[i], t[i])
  BY <1>4, <1>5, Zenon DEF PieceRun
<1> HIDE DEF n, m
<1>7. /\ \A i \in 0 .. n : r[i] = q[i]
      /\ \A i \in 0 .. m : r[n + i] = t[i]
  <2>1. \A i \in 0 .. n : r[i] = q[i]
    BY <1>2
  <2>2. ASSUME NEW i \in 0 .. m PROVE r[n + i] = t[i]
    <3>1. CASE i = 0
      BY <1>2, <1>6, <2>1, <3>1
    <3>2. CASE i # 0
      <4>1. \A j \in 0 .. n + m : ~(j <= n) => r[j] = t[j - n]
        BY <1>2
      <4>2. n + i \in 0 .. n + m /\ ~(n + i <= n) /\ n + i - n = i
        BY <1>2, <3>2
      <4> HIDE DEF r
      <4>3. ASSUME NEW j \in 0 .. n + m, ~(j <= n), j - n = i PROVE r[j] = t[i]
        BY <4>1, <4>3, Zenon
      <4> QED
        BY <1>2, <4>2, <4>3
    <3> QED
      BY <3>1, <3>2
  <2> QED
    BY <2>1, <2>2
<1> HIDE DEF r
<1>8. ASSUME NEW i \in 1 .. n + m PROVE Takes(r[i - 1], s[i], r[i])
  <2>1. CASE i <= n
    <3>1. i \in 1 .. n /\ i \in 0 .. n /\ i - 1 \in 0 .. n
      BY <1>2, <2>1
    <3>2. s[i] = a[i] /\ r[i] = q[i] /\ r[i - 1] = q[i - 1]
      BY <1>3, <1>7, <2>1, <3>1
    <3> QED
      BY <1>6, <3>1, <3>2, Zenon
  <2>2. CASE ~(i <= n)
    <3> DEFINE j == i - n
    <3>1. j \in 1 .. m /\ j \in 0 .. m /\ j - 1 \in 0 .. m /\ i = n + j /\ i - 1 = n + (j - 1)
      BY <1>2, <2>2
    <3>2. s[i] = b[j]
      BY <1>3, <2>2
    <3> HIDE DEF j
    <3>3. r[i] = t[j] /\ r[i - 1] = t[j - 1]
      BY <1>7, <3>1
    <3> QED
      BY <1>6, <3>1, <3>2, <3>3, Zenon
  <2> QED
    BY <2>1, <2>2
<1>9. r[0] = x /\ r[n + m] = z
  <2>1. 0 \in 0 .. n /\ m \in 0 .. m
    BY <1>2
  <2> QED
    BY <1>6, <1>7, <2>1
<1>10. PieceRun(r, x, s, z)
  BY <1>2, <1>8, <1>9 DEF PieceRun
<1>11. TakesAll(x, s, z)
  BY <1>2, <1>10, Zenon DEF TakesAll
<1> QED
  BY <1>11 DEF s

\* The pieces written one after another, which is what FlattenSeq() makes of them.
LEMMA AllFlatten ==
  ASSUME NEW x, NEW ms, NEW y, TakesAll(x, ms, y)
  PROVE  Takes(x, FlattenSeq(ms), y)
<1> DEFINE n == Len(ms)
           J(a, b) == a \o b
<1>1. ms \in Seq(Seq(Events)) /\ n \in Nat
  BY DEF TakesAll
<1>2. PICK hs : PieceRun(hs, x, ms, y)
  BY Zenon DEF TakesAll
<1>3. hs[0] = x /\ hs[n] = y /\ \A i \in 1 .. n : Takes(hs[i - 1], ms[i], hs[i])
  BY <1>2, Zenon DEF PieceRun
<1>4. PICK r : FlattenRun(r, ms, Events)
  BY <1>1, FlattenSteps
<1>5. /\ r[0] = <<>> /\ FlattenSeq(ms) = r[n]
      /\ \A i \in 1 .. n : r[i] = J(r[i - 1], ms[i])
  BY <1>4 DEF FlattenRun
<1> HIDE DEF n
<1> DEFINE T == {k \in Nat : k <= n => Takes(x, r[k], hs[k])}
<1>6. 0 \in T
  BY <1>3, <1>5, TakesNothing
<1>7. ASSUME NEW k \in Nat, k \in T PROVE k + 1 \in T
  <2> SUFFICES ASSUME k + 1 <= n PROVE Takes(x, r[k + 1], hs[k + 1])
    OBVIOUS
  <2>1. k + 1 \in 1 .. n /\ k + 1 - 1 = k /\ k <= n
    BY <1>1
  <2>2. Takes(x, r[k], hs[k])
    BY <1>7, <2>1
  <2>3. ASSUME NEW j \in 1 .. n, j - 1 = k PROVE Takes(x, r[j], hs[j])
    <3>1. Takes(hs[k], ms[j], hs[j]) /\ r[j] = J(r[k], ms[j])
      BY <1>3, <1>5, <2>3, Zenon
    <3>2. Takes(x, J(r[k], ms[j]), hs[j])
      BY <2>2, <3>1, TakesMore, Zenon
    <3> QED
      BY <3>1, <3>2, Zenon
  <2> QED
    BY <2>1, <2>3
<1>8. n \in T
  <2> HIDE DEF T
  <2>1. Nat \subseteq T
    BY <1>6, <1>7, EveryNat
  <2> QED
    BY <1>1, <2>1
<1> QED
  BY <1>1, <1>3, <1>5, <1>8

\* What stands between brackets, alone or as the value of a key.
Between(open, items, close) == Ev(open, Blank) \o FlattenSeq(items) \o Ev(close, Blank)

LEMMA TakesBetween ==
  ASSUME NEW open, NEW close, NEW items, NEW x, NEW y, NEW z, NEW w,
         Takes(x, Ev(open, Blank), y), TakesAll(y, items, z), Takes(z, Ev(close, Blank), w)
  PROVE  Takes(x, Between(open, items, close), w)
<1>1. Takes(y, FlattenSeq(items), z)
  BY AllFlatten
<1>2. Takes(x, Ev(open, Blank) \o FlattenSeq(items), z)
  BY <1>1, TakesMore
<1> QED
  BY <1>2, TakesMore DEF Between

LEMMA TakesMemberBetween ==
  ASSUME NEW open, NEW close, NEW items, NEW x, NEW y, NEW z, NEW w, NEW key \in Attributes,
         Takes(x, Member(key, Ev(open, Blank)), y), TakesAll(y, items, z),
         open \in Kinds, Takes(z, Ev(close, Blank), w)
  PROVE  Takes(x, Member(key, Between(open, items, close)), w)
<1> DEFINE K == Ev("key", key)
           O == Ev(open, Blank)
           F == FlattenSeq(items)
           C == Ev(close, Blank)
<1>1. Takes(y, F, z)
  BY AllFlatten
<1>2. K \in Seq(Events) /\ O \in Seq(Events)
  <2>1. key \in Values /\ "key" \in Kinds /\ Blank \in Values
    BY Zenon DEF Values, Kinds
  <2>2. [ev |-> "key", v |-> key] \in Events /\ [ev |-> open, v |-> Blank] \in Events
    BY <2>1, EventIs, Zenon
  <2> QED
    BY <2>2 DEF Ev
<1>3. F \in Seq(Events) /\ C \in Seq(Events)
  BY <1>1, Zenon DEF Takes
<1>4. Takes(x, K \o O, y)
  BY DEF Member
<1> HIDE DEF K, O, F, C
<1>5. Takes(x, (K \o O) \o F, z)
  BY <1>1, <1>4, TakesMore, Zenon
<1>6. Takes(z, C, w)
  BY DEF C
<1>7. Takes(x, ((K \o O) \o F) \o C, w)
  BY <1>5, <1>6, TakesMore, Zenon
<1>8. (K \o O) \o F = K \o (O \o F)
  BY <1>2, <1>3, ConcatAssociative, SMTT(30)
<1>9. O \o F \in Seq(Events)
  BY <1>2, <1>3, ConcatProperties, Zenon
<1>10. (K \o (O \o F)) \o C = K \o ((O \o F) \o C)
  <2> DEFINE G == O \o F
  <2>1. G \in Seq(Events)
    BY <1>9
  <2> HIDE DEF G
  <2>2. (K \o G) \o C = K \o (G \o C)
    BY <1>2, <1>3, <2>1, ConcatAssociative, SMTT(30)
  <2> QED
    BY <2>2, Zenon DEF G
<1>11. Takes(x, K \o ((O \o F) \o C), w)
  BY <1>7, <1>8, <1>10, Zenon
<1> QED
  BY <1>11, Zenon DEF Member, Between, K, O, F, C

(***************************************************************************)
(* The attributes of a plan.                                               *)
(***************************************************************************)
B(attr, rates, sizes, repeater, rx1, offsets, up, down) ==
  [attr |-> attr, rates |-> rates, sizes |-> sizes, repeater |-> repeater,
   rx1 |-> rx1, offsets |-> offsets, up |-> up, down |-> down]

SetBands(h, cs) == [h EXCEPT !.bands = cs]

LEMMA BandsSet ==
  ASSUME NEW st, NEW key, NEW pv, NEW c, NEW bs, NEW cs
  PROVE  SetBands(Hd(st, key, pv, c, bs), cs) = Hd(st, key, pv, c, cs)
BY DEF Hd, SetBands

\* What SetAttr() and the others do to the last band.
LEMMA LastBand ==
  ASSUME NEW D, NEW done \in Seq(D), NEW b
  PROVE  /\ Len(Append(done, b)) = Len(done) + 1
         /\ Append(done, b)[Len(done) + 1] = b
         /\ Append(done, b) # <<>>
         /\ \A a : [Append(done, b) EXCEPT ![Len(done) + 1] = a] = Append(done, a)
<1>1. Len(Append(done, b)) = Len(done) + 1
  OBVIOUS
<1>2. Append(done, b)[Len(done) + 1] = b
  OBVIOUS
<1>3. Append(done, b) # <<>>
  <2>1. Len(done) + 1 # 0
    OBVIOUS
  <2> DEFINE s == Append(done, b)
  <2>2. Len(s) = Len(done) + 1
    BY <1>1
  <2> HIDE DEF s
  <2>3. s # <<>>
    BY <2>1, <2>2
  <2> QED
    BY <2>3 DEF s
<1>4. ASSUME NEW a PROVE [Append(done, b) EXCEPT ![Len(done) + 1] = a] = Append(done, a)
  <2> DEFINE n == Len(done) + 1
             E == D \cup {a, b}
             s == Append(done, b)
             t == Append(done, a)
  <2>1. done \in Seq(E) /\ a \in E /\ b \in E /\ n \in Nat
    OBVIOUS
  <2>2. /\ s \in Seq(E) /\ Len(s) = n /\ s[n] = b /\ \A i \in 1 .. Len(done) : s[i] = done[i]
        /\ t \in Seq(E) /\ Len(t) = n /\ t[n] = a /\ \A i \in 1 .. Len(done) : t[i] = done[i]
    <3> HIDE DEF E
    <3> QED
      BY <2>1, AppendProperties
  <2>3. s = [i \in 1 .. n |-> s[i]] /\ t = [i \in 1 .. n |-> t[i]]
    <3> HIDE DEF s, t, E
    <3> QED
      BY <2>2
  <2>4. \A i \in 1 .. n : t[i] = IF i = n THEN a ELSE s[i]
    <3>1. \A i \in 1 .. n : i # n => i \in 1 .. Len(done)
      BY <2>1
    <3> HIDE DEF s, t, E, n
    <3> QED
      BY <2>2, <3>1
  <2> HIDE DEF s, t, n
  <2>5. [s EXCEPT ![n] = a] = t
    BY <2>3, <2>4
  <2> QED
    BY <2>5 DEF s, t, n
<1> QED
  BY <1>1, <1>2, <1>3, <1>4

\* The attributes K are those of p, the others those of a new plan.
Attr(p, K) == [k \in PlanAttrs |-> IF k \in K THEN p.attr[k] ELSE NewPlan.attr[k]]

Fits(st, kind, key) ==
  \/ st = "band" /\ kind = "int" /\ key \in BandInts
  \/ st = "band" /\ kind = "double" /\ key = "maxUplinkEIRP"
  \/ st = "band" /\ kind = "string" /\ key \in BandStrings
  \/ st = "band" /\ kind = "bool" /\ key \in BandBools
  \/ st = "bandDefaults" /\ kind = "int" /\ key \in DefaultInts

InAttr(st, pv, c, done, p, K) ==
  Hx(st, pv, c, Append(done, B(Attr(p, K), NewPlan.rates, NewPlan.sizes, NewPlan.repeater,
                               NewPlan.rx1, NewPlan.offsets, NewPlan.up, NewPlan.down)))

\* SetAttr() adds one attribute to those that are read.
LEMMA AttrSet ==
  ASSUME NEW D, NEW done \in Seq(D), NEW st, NEW key, NEW pv, NEW c, NEW v,
         NEW attr, NEW rates, NEW sizes, NEW repeater, NEW rx1, NEW offsets, NEW up, NEW down
  PROVE  SetAttr(Hd(st, key, pv, c,
                    Append(done, B(attr, rates, sizes, repeater, rx1, offsets, up, down))), v)
         = Hd(st, key, pv, c, Append(done, B([attr EXCEPT ![key] = Cast(key, v)],
                                             rates, sizes, repeater, rx1, offsets, up, down)))
<1> DEFINE b == B(attr, rates, sizes, repeater, rx1, offsets, up, down)
           a == B([attr EXCEPT ![key] = Cast(key, v)], rates, sizes, repeater, rx1, offsets, up, down)
           bs == Append(done, b)
           n == Len(done) + 1
           h == Hd(st, key, pv, c, bs)
<1>1. SetAttr(h, v) = [h EXCEPT !.bands = [bs EXCEPT ![n] = [bs[n] EXCEPT !.attr = [bs[n].attr EXCEPT ![key] = Cast(key, v)]]]]
  <2>1. Last1(h) = n /\ h.key = key
    BY LastBand DEF Last1, Hd
  <2> QED
    BY <2>1 DEF SetAttr, Hd
<1>2. bs[n] = b /\ [bs EXCEPT ![n] = a] = Append(done, a)
  <2> HIDE DEF a, b
  <2> QED
    BY LastBand
<1>3. [b EXCEPT !.attr = [b.attr EXCEPT ![key] = Cast(key, v)]] = a
  BY DEF B
<1>4. SetAttr(h, v) = SetBands(h, Append(done, a))
  <2> HIDE DEF a, b, bs, h, n
  <2> QED
    BY <1>1, <1>2, <1>3 DEF SetBands
<1>5. SetBands(h, Append(done, a)) = Hd(st, key, pv, c, Append(done, a))
  <2> HIDE DEF a, b, bs
  <2> QED
    BY BandsSet
<1> QED
  BY <1>4, <1>5

\* A key and its value set the attribute of that name.
LEMMA AttrTaken ==
  ASSUME NEW D, NEW done \in Seq(D), NEW st, NEW kind, NEW key, Fits(st, kind, key),
         NEW pv, NEW c, NEW p, AttrOK(p.attr), NEW K
  PROVE  Takes(InAttr(st, pv, c, done, p, K), Member(key, Ev(kind, p.attr[key])),
               InAttr(st, pv, c, done, p, K \cup {key}))
<1> DEFINE v == p.attr[key]
           b == B(Attr(p, K), NewPlan.rates, NewPlan.sizes, NewPlan.repeater,
                  NewPlan.rx1, NewPlan.offsets, NewPlan.up, NewPlan.down)
           bs == Append(done, b)
           h == Hd(st, key, pv, c, bs)
           e == [ev |-> kind, v |-> v]
<1>1. key \in PlanAttrs /\ key \in Attributes /\ kind \in Kinds
  BY DEF Fits, BandInts, PlanAttrs, Attributes, Kinds
<1>2. v \in Values
  BY DEF Fits, BandInts, AttrOK, Values
<1>3. Cast(key, v) = v
  <2>1. CASE key = "id"
    <3>1. v \in 0 .. 255
      BY <2>1 DEF AttrOK
    <3> HIDE DEF v
    <3>2. v % 256 = v
      BY <3>1
    <3> QED
      BY <2>1, <3>2 DEF Cast
  <2>2. CASE key # "id"
    <3>1. key \notin {"id", "m", "n"} /\ key # "bandwidth" /\ key # "modulation"
      BY <2>2 DEF Fits, BandInts, BandStrings, BandBools, DefaultInts
    <3> HIDE DEF v
    <3> QED
      BY <3>1 DEF Cast
  <2> QED
    BY <2>1, <2>2
<1>4. h.state = st /\ h.key = key /\ h.bands = bs
  BY DEF Hd
<1>5. InBand(h)
  <2> HIDE DEF b
  <2>1. bs # <<>>
    BY LastBand
  <2> QED
    BY <1>4, <2>1 DEF InBand
<1>6. e.ev = kind /\ e.v = v
  OBVIOUS
<1> HIDE DEF h, e, v
<1>7. Handle(h, e) = SetAttr(h, v)
  <2>1. CASE st = "band" /\ kind = "int" /\ key \in BandInts
    BY <1>4, <1>5, <1>6, <2>1 DEF Handle, Integer
  <2>2. CASE st = "band" /\ kind = "string" /\ key \in BandStrings
    <3>1. key # "regionalParametersVersion"
      BY <2>2 DEF BandStrings
    <3> QED
      BY <1>4, <1>5, <1>6, <2>2, <3>1 DEF Handle, String
  <2>3. CASE st = "band" /\ kind = "bool" /\ key \in BandBools
    <3>1. key \notin RateBools /\ key \notin ChannelBools
      BY <2>3 DEF BandBools, RateBools, ChannelBools
    <3>2. Handle(h, e) = Bool(h, v)
      BY <1>6, <2>3 DEF Handle
    <3>3. Bool(h, v) = SetAttr(h, v)
      BY <1>4, <1>5, <2>3, <3>1 DEF Bool
    <3> QED
      BY <3>2, <3>3
  <2>4. CASE st = "bandDefaults" /\ kind = "int" /\ key \in DefaultInts
    BY <1>4, <1>5, <1>6, <2>4 DEF Handle, Integer
  <2>5. CASE st = "band" /\ kind = "double" /\ key = "maxUplinkEIRP"
    BY <1>4, <1>5, <1>6, <2>5 DEF Handle, Double
  <2> QED
    BY <2>1, <2>2, <2>3, <2>4, <2>5 DEF Fits
<1>8. [Attr(p, K) EXCEPT ![key] = v] = Attr(p, K \cup {key})
  BY <1>1 DEF Attr, v
<1>9. Handle(h, e) = WithKey(InAttr(st, pv, c, done, p, K \cup {key}), key)
  BY <1>3, <1>7, <1>8, AttrSet, KeyOf DEF InAttr, h
<1> QED
  BY <1>1, <1>2, <1>9, TakesMember DEF InAttr, h, e, v

\* Pieces that are written by a loop, each between two states of hs.
LEMMA PieceAll ==
  ASSUME NEW n \in Nat, NEW w, NEW hs, \A i \in 1 .. n : Takes(hs[i - 1], w[i], hs[i])
  PROVE  TakesAll(hs[0], [i \in 1 .. n |-> w[i]], hs[n])
<1> DEFINE ms == [i \in 1 .. n |-> w[i]]
<1>1. \A i \in 1 .. n : w[i] \in Seq(Events)
  BY Zenon DEF Takes
<1>2. ms \in Seq(Seq(Events)) /\ Len(ms) = n /\ \A i \in 1 .. n : ms[i] = w[i]
  BY <1>1
<1> HIDE DEF ms
<1>3. PieceRun(hs, hs[0], ms, hs[n])
  BY <1>2, Zenon DEF PieceRun
<1>4. TakesAll(hs[0], ms, hs[n])
  BY <1>2, <1>3, Zenon DEF TakesAll
<1> QED
  BY <1>4 DEF ms

LEMMA ScalarsAll ==
  ASSUME NEW kind, NEW keys, Len(keys) \in Nat, NEW f, NEW hs,
         \A i \in 1 .. Len(keys) : Takes(hs[i - 1], Member(keys[i], Ev(kind, f[keys[i]])), hs[i])
  PROVE  TakesAll(hs[0], Scalars(kind, keys, f), hs[Len(keys)])
<1> DEFINE n == Len(keys)
           w == [i \in 1 .. n |-> Member(keys[i], Ev(kind, f[keys[i]]))]
<1>1. ASSUME NEW i \in 1 .. n PROVE Takes(hs[i - 1], w[i], hs[i])
  <2>1. w[i] = Member(keys[i], Ev(kind, f[keys[i]]))
    OBVIOUS
  <2> QED
    BY <2>1, Zenon
<1>2. Scalars(kind, keys, f) = w
  BY DEF Scalars
<1>3. w = [i \in 1 .. n |-> w[i]]
  OBVIOUS
<1> HIDE DEF w, n
<1>4. n \in Nat
  BY DEF n
<1>5. TakesAll(hs[0], [i \in 1 .. n |-> w[i]], hs[n])
  BY <1>1, <1>4, PieceAll
<1> QED
  BY <1>2, <1>3, <1>5, Zenon DEF n

KeySet(keys) == {keys[i] : i \in 1 .. Len(keys)}
AllFit(st, kind, keys) == Len(keys) \in Nat /\ \A i \in 1 .. Len(keys) : Fits(st, kind, keys[i])

\* The attributes that Scalars() writes.
LEMMA AttrsTaken ==
  ASSUME NEW D, NEW done \in Seq(D), NEW st, NEW kind, NEW keys, AllFit(st, kind, keys),
         NEW pv, NEW c, NEW p, AttrOK(p.attr), NEW K
  PROVE  TakesAll(InAttr(st, pv, c, done, p, K), Scalars(kind, keys, p.attr),
                  InAttr(st, pv, c, done, p, K \cup KeySet(keys)))
<1>1. Len(keys) \in Nat /\ \A i \in 1 .. Len(keys) : Fits(st, kind, keys[i])
  BY DEF AllFit
<1> DEFINE n == Len(keys)
           X(L) == InAttr(st, pv, c, done, p, L)
           L(i) == K \cup {keys[j] : j \in 1 .. i}
           hs == [i \in 0 .. n |-> X(L(i))]
<1> HIDE DEF X
<1>2. \A i \in 0 .. n : hs[i] = X(L(i))
  OBVIOUS
<1>3. ASSUME NEW i \in 1 .. n PROVE Takes(hs[i - 1], Member(keys[i], Ev(kind, p.attr[keys[i]])), hs[i])
  <2>1. i - 1 \in 0 .. n /\ i \in 0 .. n
    BY <1>1
  <2>2. L(i) = L(i - 1) \cup {keys[i]}
    BY <1>1
  <2>3. Fits(st, kind, keys[i])
    BY <1>1
  <2> HIDE DEF L
  <2>4. Takes(X(L(i - 1)), Member(keys[i], Ev(kind, p.attr[keys[i]])), X(L(i - 1) \cup {keys[i]}))
    BY <2>3, AttrTaken DEF X
  <2> HIDE DEF hs
  <2> QED
    BY <1>2, <2>1, <2>2, <2>4
<1>4. L(0) = K
  OBVIOUS
<1>5. hs[0] = X(K) /\ hs[n] = X(L(n))
  <2>1. 0 \in 0 .. n /\ n \in 0 .. n
    BY <1>1
  <2> HIDE DEF L, hs
  <2> QED
    BY <1>2, <1>4, <2>1
<1> HIDE DEF hs
<1>6. TakesAll(hs[0], Scalars(kind, keys, p.attr), hs[n])
  BY <1>1, <1>3, ScalarsAll
<1> QED
  BY <1>5, <1>6, Zenon DEF X, KeySet

(***************************************************************************)
(* The brackets.                                                           *)
(***************************************************************************)
Zero == Cn(0, 0, 0, 0, 0)

LEMMA BracketEvents ==
  /\ Blank \in Values
  /\ \A k \in {"{", "}", "[", "]"} : k \in Kinds /\ Ev(k, Blank) = <<[ev |-> k, v |-> Blank]>>
                                      /\ [ev |-> k, v |-> Blank] \in Events
<1>1. Blank \in Values
  BY DEF Values
<1>2. ASSUME NEW k \in {"{", "}", "[", "]"} PROVE k \in Kinds
  BY DEF Kinds
<1> QED
  BY <1>1, <1>2, EventIs

LEMMA DefaultsOpened ==
  ASSUME NEW pv, NEW c, NEW bs
  PROVE  Takes(Hx("band", pv, c, bs), Member("bandDefaults", Ev("{", Blank)), Hx("bandDefaults", pv, Zero, bs))
<1> DEFINE key == "bandDefaults"
           h == Hd("band", key, pv, c, bs)
           e == [ev |-> "{", v |-> Blank]
<1>1. Handle(h, e) = StartObject(h)
  BY DEF Handle
<1>2. StartObject(h) = Hd("bandDefaults", key, pv, Zero, bs)
  BY DEF StartObject, ResetCounts, Hd, Zero, Cn
<1>3. Handle(h, e) = WithKey(Hx("bandDefaults", pv, Zero, bs), key)
  <2>1. WithKey(Hx("bandDefaults", pv, Zero, bs), key) = Hd("bandDefaults", key, pv, Zero, bs)
    BY DEF WithKey, Hx, Hd
  <2> QED
    BY <1>1, <1>2, <2>1, Zenon
<1>4. key \in Attributes
  BY DEF Attributes
<1> QED
  BY <1>3, <1>4, BracketEvents, TakesMember

LEMMA DefaultsClosed ==
  ASSUME NEW pv, NEW c, NEW bs
  PROVE  Takes(Hx("bandDefaults", pv, c, bs), Ev("}", Blank), Hx("band", pv, c, bs))
<1> DEFINE e == [ev |-> "}", v |-> Blank]
<1>1. ASSUME NEW k PROVE Handle(Hd("bandDefaults", k, pv, c, bs), e) = WithKey(Hx("band", pv, c, bs), k)
  <2>1. Handle(Hd("bandDefaults", k, pv, c, bs), e) = EndObject(Hd("bandDefaults", k, pv, c, bs))
    BY DEF Handle
  <2>2. EndObject(Hd("bandDefaults", k, pv, c, bs)) = Hd("band", k, pv, c, bs)
    BY DEF EndObject, Hd
  <2>3. WithKey(Hx("band", pv, c, bs), k) = Hd("band", k, pv, c, bs)
    BY DEF WithKey, Hx, Hd
  <2> QED
    BY <2>1, <2>2, <2>3, Zenon
<1>2. e \in Events /\ Ev("}", Blank) = <<e>>
  BY BracketEvents
<1> HIDE DEF e
<1> QED
  BY <1>1, <1>2, TakesEvent

LEMMA ArrayOpened ==
  ASSUME NEW key \in Arrays, NEW pv, NEW c, NEW bs
  PROVE  Takes(Hx("band", pv, c, bs), Member(key, Ev("[", Blank)),
               Hx(ArrayState[key], IF ArrayState[key] \in {"up", "down"} THEN ArrayState[key] ELSE pv, c, bs))
<1> DEFINE h == Hd("band", key, pv, c, bs)
           e == [ev |-> "[", v |-> Blank]
           s == ArrayState[key]
           q == IF s \in {"up", "down"} THEN s ELSE pv
<1>1. Handle(h, e) = StartArray(h)
  BY DEF Handle
<1>2. StartArray(h) = Hd(s, key, q, c, bs)
  BY DEF StartArray, Hd
<1>3. Handle(h, e) = WithKey(Hx(s, q, c, bs), key)
  <2> HIDE DEF s, q
  <2> QED
    BY <1>1, <1>2, KeyOf
<1>4. key \in Attributes
  BY DEF Attributes
<1> HIDE DEF q
<1> QED
  BY <1>3, <1>4, BracketEvents, TakesMember DEF q

LEMMA ArrayClosed ==
  ASSUME NEW key \in Arrays, NEW pv, NEW c, NEW bs
  PROVE  Takes(Hx(ArrayState[key], pv, c, bs), Ev("]", Blank), Hx("band", pv, c, bs))
<1> DEFINE e == [ev |-> "]", v |-> Blank]
           s == ArrayState[key]
<1>1. s \in {ArrayState[k] : k \in Arrays}
  OBVIOUS
<1>2. s \in {"rates", "up", "down", "sizes", "repeater", "rx1", "offsets"}
  BY DEF Arrays, ArrayState
<1> HIDE DEF s
<1>3. ASSUME NEW k PROVE Handle(Hd(s, k, pv, c, bs), e) = WithKey(Hx("band", pv, c, bs), k)
  <2> DEFINE h == Hd(s, k, pv, c, bs)
  <2>1. Handle(h, e) = EndArray(h)
    BY DEF Handle
  <2>2. h.state = s /\ [h EXCEPT !.state = "band"] = Hd("band", k, pv, c, bs)
    BY DEF Hd
  <2> HIDE DEF h
  <2>3. EndArray(h) = [h EXCEPT !.state = "band"]
    BY <1>1, <1>2, <2>2 DEF EndArray
  <2> QED
    BY <2>1, <2>2, <2>3, KeyOf DEF h
<1>4. e \in Events /\ Ev("]", Blank) = <<e>>
  BY BracketEvents
<1> HIDE DEF e
<1> QED
  BY <1>3, <1>4, TakesEvent DEF s

\* A plan that has just begun, and one of which all attributes are read.
LEMMA AttrEnds ==
  ASSUME NEW p, AttrOK(p.attr)
  PROVE  /\ Attr(p, {}) = NewPlan.attr
         /\ Attr(p, PlanAttrs) = p.attr
<1>1. NewPlan.attr = [k \in PlanAttrs |-> NewPlan.attr[k]]
  BY DEF NewPlan
<1>2. Attr(p, {}) = NewPlan.attr
  BY <1>1 DEF Attr
<1>3. Attr(p, PlanAttrs) = [k \in PlanAttrs |-> p.attr[k]]
  BY DEF Attr
<1>4. p.attr = [k \in PlanAttrs |-> p.attr[k]]
  BY Zenon DEF AttrOK
<1> QED
  BY <1>2, <1>3, <1>4, Zenon

BandKeys == BandInts \cup BandStrings \cup BandBools

\* What a plan has before bandDefaults.
LEMMA BandAttrsTaken ==
  ASSUME NEW D, NEW done \in Seq(D), NEW pv, NEW c, NEW p, AttrOK(p.attr)
  PROVE  TakesAll(InAttr("band", pv, c, done, p, {}),
           Scalars("int", <<"id">>, p.attr) \o Scalars("string", <<"name", "cn">>, p.attr)
             \o Scalars("bool", <<"implementsTXParamSetup">>, p.attr)
             \o Scalars(EIRPKind(p.attr["maxUplinkEIRP"]), <<"maxUplinkEIRP">>, p.attr)
             \o Scalars("int", <<"pingSlotFrequency", "defaultDownlinkTXPower">>, p.attr)
             \o Scalars("bool", <<"supportsExtraChannels", "defaultRegion">>, p.attr),
           InAttr("band", pv, c, done, p, BandKeys))
<1> DEFINE X(K) == InAttr("band", pv, c, done, p, K)
           kind == EIRPKind(p.attr["maxUplinkEIRP"])
           k1 == <<"id">>
           k2 == <<"name", "cn">>
           k3 == <<"implementsTXParamSetup">>
           k4 == <<"maxUplinkEIRP">>
           k5 == <<"pingSlotFrequency", "defaultDownlinkTXPower">>
           k6 == <<"supportsExtraChannels", "defaultRegion">>
           s1 == Scalars("int", k1, p.attr)
           s2 == Scalars("string", k2, p.attr)
           s3 == Scalars("bool", k3, p.attr)
           s4 == Scalars(kind, k4, p.attr)
           s5 == Scalars("int", k5, p.attr)
           s6 == Scalars("bool", k6, p.attr)
<1> HIDE DEF X
<1>1. AllFit("band", "int", k1) /\ KeySet(k1) = {"id"}
  BY DEF AllFit, KeySet, Fits, BandInts
<1>2. AllFit("band", "string", k2) /\ KeySet(k2) = {"name", "cn"}
  BY DEF AllFit, KeySet, Fits, BandStrings
<1>3. AllFit("band", "bool", k3) /\ KeySet(k3) = {"implementsTXParamSetup"}
  BY DEF AllFit, KeySet, Fits, BandBools
<1>4. AllFit("band", kind, k4) /\ KeySet(k4) = {"maxUplinkEIRP"}
  <2>1. kind \in {"int", "double"}
    BY DEF EIRPKind
  <2> HIDE DEF kind
  <2> QED
    BY <2>1 DEF AllFit, KeySet, Fits, BandInts
<1>5. AllFit("band", "int", k5) /\ KeySet(k5) = {"pingSlotFrequency", "defaultDownlinkTXPower"}
  BY DEF AllFit, KeySet, Fits, BandInts
<1>6. AllFit("band", "bool", k6) /\ KeySet(k6) = {"supportsExtraChannels", "defaultRegion"}
  BY DEF AllFit, KeySet, Fits, BandBools
<1> DEFINE K1 == {} \cup KeySet(k1)
           K2 == K1 \cup KeySet(k2)
           K3 == K2 \cup KeySet(k3)
           K4 == K3 \cup KeySet(k4)
           K5 == K4 \cup KeySet(k5)
           K6 == K5 \cup KeySet(k6)
<1>7. K6 = BandKeys
  BY <1>1, <1>2, <1>3, <1>4, <1>5, <1>6 DEF BandKeys, BandInts, BandStrings, BandBools
<1> HIDE DEF k1, k2, k3, k4, k5, k6, kind
<1>8. TakesAll(X({}), s1, X(K1)) /\ TakesAll(X(K1), s2, X(K2)) /\ TakesAll(X(K2), s3, X(K3))
  <2> HIDE DEF K1, K2
  <2> QED
    BY <1>1, <1>2, <1>3, AttrsTaken, Zenon DEF X, K1, K2
<1>9. TakesAll(X(K3), s4, X(K4)) /\ TakesAll(X(K4), s5, X(K5)) /\ TakesAll(X(K5), s6, X(K6))
  <2> HIDE DEF K3
  <2> QED
    BY <1>4, <1>5, <1>6, AttrsTaken, Zenon DEF X
<1> HIDE DEF K1, K2, K3, K4, K5, K6, s1, s2, s3, s4, s5, s6
<1>10. TakesAll(X({}), s1 \o s2, X(K2))
  BY <1>8, AllMore, Zenon
<1>11. TakesAll(X({}), s1 \o s2 \o s3, X(K3))
  BY <1>8, <1>10, AllMore, Zenon
<1>12. TakesAll(X({}), s1 \o s2 \o s3 \o s4, X(K4))
  BY <1>9, <1>11, AllMore, Zenon
<1>13. TakesAll(X({}), s1 \o s2 \o s3 \o s4 \o s5, X(K5))
  BY <1>9, <1>12, AllMore, Zenon
<1>14. TakesAll(X({}), s1 \o s2 \o s3 \o s4 \o s5 \o s6, X(K6))
  BY <1>9, <1>13, AllMore, Zenon
<1> QED
  BY <1>7, <1>14, Zenon DEF X, k1, k2, k3, k4, k5, k6, kind, s1, s2, s3, s4, s5, s6

\* bandDefaults, where the counters start again.
LEMMA DefaultsTaken ==
  ASSUME NEW D, NEW done \in Seq(D), NEW pv, NEW c, NEW p, AttrOK(p.attr)
  PROVE  Takes(InAttr("band", pv, c, done, p, BandKeys),
               Member("bandDefaults", Object(Scalars("int", <<"RX2Frequency", "RX2DataRate",
                   "ReceiveDelay1", "ReceiveDelay2", "JoinAcceptDelay1", "JoinAcceptDelay2">>, p.attr))),
               InAttr("band", pv, Zero, done, p, PlanAttrs))
<1> DEFINE k1 == <<"RX2Frequency", "RX2DataRate", "ReceiveDelay1", "ReceiveDelay2",
                   "JoinAcceptDelay1", "JoinAcceptDelay2">>
           ms == Scalars("int", k1, p.attr)
           x == InAttr("band", pv, c, done, p, BandKeys)
           y == InAttr("bandDefaults", pv, Zero, done, p, BandKeys)
           z == InAttr("bandDefaults", pv, Zero, done, p, PlanAttrs)
           w == InAttr("band", pv, Zero, done, p, PlanAttrs)
<1>1. /\ AllFit("bandDefaults", "int", k1)
      /\ KeySet(k1) = DefaultInts
  BY DEF AllFit, KeySet, Fits, DefaultInts
<1>2. BandKeys \cup KeySet(k1) = PlanAttrs
  BY <1>1 DEF BandKeys, PlanAttrs
<1> HIDE DEF k1
<1>3. TakesAll(y, ms, z)
  BY <1>1, <1>2, AttrsTaken, Zenon
<1>4. Takes(x, Member("bandDefaults", Ev("{", Blank)), y)
  BY DefaultsOpened DEF InAttr
<1>5. Takes(z, Ev("}", Blank), w)
  BY DefaultsClosed DEF InAttr
<1>6. "bandDefaults" \in Attributes /\ "{" \in Kinds
  BY DEF Attributes, Kinds
<1> HIDE DEF ms, x, y, z, w
<1>7. Takes(x, Member("bandDefaults", Between("{", ms, "}")), w)
  BY <1>3, <1>4, <1>5, <1>6, TakesMemberBetween
<1> QED
  BY <1>7 DEF Object, Between, x, w, ms, k1

(***************************************************************************)
(* Arrays of a fixed size: the data rates and the two tables of payload    *)
(* sizes.                                                                  *)
(***************************************************************************)
\* The members K of a record are those of old, the others those of new.
Mix(S, new, old, K) == [k \in S |-> IF k \in K THEN old[k] ELSE new[k]]

\* Element i is being read, and its members K have been.
ArrayAt(f, S, new, i, K) ==
  [j \in 1 .. RbRateSize |-> IF j < i THEN f[j] ELSE IF j = i THEN Mix(S, new, f[j], K) ELSE new]

IsRecord(r, S) == r = [k \in S |-> r[k]]

\* Member key of element i of a set to m.
SetIn(a, i, key, m) == [a EXCEPT ![i] = [a[i] EXCEPT ![key] = m]]

LEMMA ArraySet ==
  ASSUME NEW f, NEW S, NEW new, NEW i \in 1 .. RbRateSize, NEW K, NEW key \in S, NEW m, m = f[i][key]
  PROVE  SetIn(ArrayAt(f, S, new, i, K), i, key, m) = ArrayAt(f, S, new, i, K \cup {key})
<1> DEFINE a == ArrayAt(f, S, new, i, K)
<1>1. RbRateSize \in Nat
  BY RbAssumption
<1>2. a[i] = Mix(S, new, f[i], K)
  BY <1>1 DEF ArrayAt
<1>3. [Mix(S, new, f[i], K) EXCEPT ![key] = f[i][key]] = Mix(S, new, f[i], K \cup {key})
  BY DEF Mix
<1>4. [a[i] EXCEPT ![key] = f[i][key]] = Mix(S, new, f[i], K \cup {key})
  BY <1>2, <1>3, Zenon
<1> DEFINE g == ArrayAt(f, S, new, i, K \cup {key})
           N == 1 .. RbRateSize
<1>5. a = [j \in N |-> a[j]] /\ g = [j \in N |-> g[j]]
  BY DEF ArrayAt
<1>6. g[i] = Mix(S, new, f[i], K \cup {key}) /\ \A j \in N : j # i => g[j] = a[j]
  BY <1>1 DEF ArrayAt
<1> DEFINE q == Mix(S, new, f[i], K \cup {key})
<1> HIDE DEF a, g, q, N
<1>7. i \in N
  BY DEF N
<1>8. [a EXCEPT ![i] = q] = g
  BY <1>5, <1>6, <1>7 DEF q
<1>9. SetIn(a, i, key, m) = g
  BY <1>4, <1>8, Zenon DEF q, SetIn
<1> QED
  BY <1>9 DEF a, g

LEMMA ArrayNext ==
  ASSUME NEW f, NEW S, NEW new, NEW i \in 1 .. RbRateSize, IsRecord(f[i], S), IsRecord(new, S)
  PROVE  ArrayAt(f, S, new, i, S) = ArrayAt(f, S, new, i + 1, {})
<1>1. RbRateSize \in Nat
  BY RbAssumption
<1>2. Mix(S, new, f[i], S) = f[i]
  <2>1. Mix(S, new, f[i], S) = [k \in S |-> f[i][k]]
    BY DEF Mix
  <2> QED
    BY <2>1 DEF IsRecord
<1>3. \A j : Mix(S, new, f[j], {}) = new
  <2>1. ASSUME NEW j PROVE Mix(S, new, f[j], {}) = [k \in S |-> new[k]]
    BY DEF Mix
  <2> QED
    BY <2>1 DEF IsRecord
<1> DEFINE lhs(j) == IF j < i THEN f[j] ELSE IF j = i THEN Mix(S, new, f[j], S) ELSE new
           rhs(j) == IF j < i + 1 THEN f[j] ELSE IF j = i + 1 THEN Mix(S, new, f[j], {}) ELSE new
<1>4. ASSUME NEW j \in 1 .. RbRateSize PROVE lhs(j) = rhs(j)
  BY <1>1, <1>2, <1>3
<1>5. [j \in 1 .. RbRateSize |-> lhs(j)] = [j \in 1 .. RbRateSize |-> rhs(j)]
  <2> HIDE DEF lhs, rhs
  <2> QED
    BY <1>4
<1> QED
  BY <1>5 DEF ArrayAt

LEMMA ArrayEnds ==
  ASSUME NEW f, NEW S, NEW new, IsRecord(new, S)
  PROVE  /\ ArrayAt(f, S, new, 0 + 1, {}) = [j \in 1 .. RbRateSize |-> new]
         /\ f = [j \in 1 .. RbRateSize |-> f[j]] => ArrayAt(f, S, new, RbRateSize + 1, {}) = f
<1>1. RbRateSize \in Nat
  BY RbAssumption
<1>2. \A j : Mix(S, new, f[j], {}) = new
  <2>1. ASSUME NEW j PROVE Mix(S, new, f[j], {}) = [k \in S |-> new[k]]
    BY DEF Mix
  <2> QED
    BY <2>1 DEF IsRecord
<1>3. ArrayAt(f, S, new, 0 + 1, {}) = [j \in 1 .. RbRateSize |-> new]
  BY <1>1, <1>2 DEF ArrayAt
<1>4. ArrayAt(f, S, new, RbRateSize + 1, {}) = [j \in 1 .. RbRateSize |-> f[j]]
  BY <1>1 DEF ArrayAt
<1> QED
  BY <1>3, <1>4, Zenon

LEMMA AllTwo ==
  ASSUME NEW x, NEW m, NEW y, NEW q, NEW z, Takes(x, m, y), Takes(y, q, z)
  PROVE  TakesAll(x, <<m, q>>, z)
<1>1. TakesAll(x, <<m>>, y) /\ TakesAll(y, <<q>>, z)
  BY AllOne
<1>2. <<m>> \o <<q>> = <<m, q>>
  <2> DEFINE S == {m, q}
             a == <<m>>
             b == <<q>>
             s == a \o b
  <2>1. a \in Seq(S) /\ b \in Seq(S) /\ Len(a) = 1 /\ Len(b) = 1 /\ a[1] = m /\ b[1] = q
    OBVIOUS
  <2> HIDE DEF a, b, S
  <2>2. s \in Seq(S) /\ Len(s) = 2 /\ s[1] = m /\ s[2] = q
    BY <2>1, ConcatProperties
  <2> HIDE DEF s
  <2>3. s = <<m, q>>
    BY <2>2
  <2> QED
    BY <2>3 DEF s, a, b
<1>3. TakesAll(x, <<m>> \o <<q>>, z)
  BY <1>1, AllMore, Zenon
<1> QED
  BY <1>2, <1>3

RateKeys == {"uplink", "downlink", "modulation", "bandwidth", "spreadingFactor", "bps"}

LEMMA BandwidthReadBack ==
  ASSUME NEW b \in 1 .. 10
  PROVE  int2BANDWIDTH(BANDWIDTH2String[b]) = b /\ BANDWIDTH2String[b] \in Int
<1> DEFINE T == BANDWIDTH2String
           khz == <<7, 10, 15, 20, 31, 41, 62, 125, 250, 500>>
           found == {i \in 1 .. 10 : T[i] \div 10 = T[b] \div 10}
<1>1. \A i \in 1 .. 10 : T[i] \in Int /\ T[i] \div 10 = khz[i]
  BY DEF BANDWIDTH2String
<1>2. ASSUME NEW i \in 1 .. 10, khz[i] = khz[b] PROVE i = b
  BY <1>2
<1>3. found = {b}
  <2> HIDE DEF T, khz
  <2> QED
    BY <1>1, <1>2
<1>4. int2BANDWIDTH(T[b]) = IF found = {} THEN 1 ELSE CHOOSE i \in found : TRUE
  BY DEF int2BANDWIDTH
<1>5. (CHOOSE i \in {b} : TRUE) = b
  OBVIOUS
<1> HIDE DEF found
<1> QED
  BY <1>1, <1>3, <1>4, <1>5

(***************************************************************************)
(* The data rates.                                                         *)
(***************************************************************************)
InRates(st, pv, n, done, p, i, K) ==
  Hx(st, pv, Cn(n, 0, 0, 0, 0),
     Append(done, B(p.attr, ArrayAt(p.rates, RateKeys, NewRate, i, K), NewPlan.sizes, NewPlan.repeater,
                    NewPlan.rx1, NewPlan.offsets, NewPlan.up, NewPlan.down)))

LEMMA RateSet ==
  ASSUME NEW D, NEW done \in Seq(D), NEW key, NEW pv, NEW i \in 1 .. RbRateSize, NEW v,
         NEW attr, NEW rates, NEW sizes, NEW repeater, NEW rx1, NEW offsets, NEW up, NEW down
  PROVE  SetRate(Hd("rates[]", key, pv, Cn(i, 0, 0, 0, 0),
                    Append(done, B(attr, rates, sizes, repeater, rx1, offsets, up, down))), v)
         = Hd("rates[]", key, pv, Cn(i, 0, 0, 0, 0),
              Append(done, B(attr, SetIn(rates, i, key, Cast(key, v)), sizes,
                             repeater, rx1, offsets, up, down)))
<1> DEFINE st == "rates[]"
           c == Cn(i, 0, 0, 0, 0)
           b == B(attr, rates, sizes, repeater, rx1, offsets, up, down)
           f == SetIn(rates, i, key, Cast(key, v))
           g == B(attr, f, sizes, repeater, rx1, offsets, up, down)
           bs == Append(done, b)
           n == Len(done) + 1
           h == Hd(st, key, pv, c, bs)
<1>1. Last1(h) = n /\ h.key = key /\ h.rates = i /\ h.bands = bs
  BY LastBand DEF Last1, Hd, Cn
<1>2. InBand(h) /\ ~(h.rates > RbRateSize)
  <2>1. bs # <<>>
    <3> HIDE DEF b
    <3> QED
      BY LastBand
  <2>2. RbRateSize \in Nat
    BY RbAssumption
  <2> HIDE DEF h
  <2> QED
    BY <1>1, <2>1, <2>2 DEF InBand
<1>3. SetRate(h, v) = [h EXCEPT !.bands = [bs EXCEPT ![n] = [bs[n] EXCEPT !.rates =
                          [bs[n].rates EXCEPT ![i] = [bs[n].rates[i] EXCEPT ![key] = Cast(key, v)]]]]]
  <2> HIDE DEF h, bs
  <2> QED
    BY <1>1, <1>2 DEF SetRate
<1>4. bs[n] = b /\ [bs EXCEPT ![n] = g] = Append(done, g)
  <2> HIDE DEF g, b
  <2> QED
    BY LastBand
<1>5. [b EXCEPT !.rates = [b.rates EXCEPT ![i] = [b.rates[i] EXCEPT ![key] = Cast(key, v)]]] = g
  BY DEF B, SetIn
<1>6. SetRate(h, v) = SetBands(h, Append(done, g))
  <2> HIDE DEF g, b, bs, h, n
  <2> QED
    BY <1>3, <1>4, <1>5 DEF SetBands
<1>7. SetBands(h, Append(done, g)) = Hd(st, key, pv, c, Append(done, g))
  <2> HIDE DEF g, b, bs, c
  <2> QED
    BY BandsSet
<1> QED
  BY <1>6, <1>7

\* What is written for a member of a rate.
RateFits(kind, key, v, r) ==
  \/ kind = "bool" /\ key \in RateBools /\ v = r[key]
  \/ kind = "string" /\ key = "modulation" /\ v = r[key]
  \/ kind = "int" /\ key \in {"spreadingFactor", "bps"} /\ v = r[key]
  \/ kind \in {"int", "double"} /\ key = "bandwidth" /\ v = BANDWIDTH2String[r[key]]

\* One attribute of a data rate.
LEMMA RateTaken ==
  ASSUME NEW D, NEW done \in Seq(D), NEW pv, NEW p, NEW i \in 1 .. RbRateSize, NEW K,
         NEW r \in Rates, p.rates[i] = r, NEW kind, NEW key, NEW v, RateFits(kind, key, v, r)
  PROVE  Takes(InRates("rates[]", pv, i, done, p, i, K), Member(key, Ev(kind, v)),
               InRates("rates[]", pv, i, done, p, i, K \cup {key}))
<1> DEFINE c == Cn(i, 0, 0, 0, 0)
           bs == Append(done, B(p.attr, ArrayAt(p.rates, RateKeys, NewRate, i, K), NewPlan.sizes,
                                NewPlan.repeater, NewPlan.rx1, NewPlan.offsets, NewPlan.up, NewPlan.down))
           h == Hd("rates[]", key, pv, c, bs)
           e == [ev |-> kind, v |-> v]
<1>1. key \in RateKeys /\ key \in Attributes /\ kind \in Kinds
  BY DEF RateFits, RateKeys, RateBools, RateInts, Attributes, Kinds
<1>2. Cast(key, v) = r[key] /\ v \in Values
  <2>1. CASE kind = "bool" /\ key \in RateBools /\ v = r[key]
    <3>1. key \in {"uplink", "downlink"} /\ r[key] \in BOOLEAN
      BY <2>1 DEF RateBools, Rates
    <3> QED
      BY <2>1, <3>1 DEF Cast, Values
  <2>2. CASE kind = "string" /\ key = "modulation" /\ v = r[key]
    <3>1. r[key] \in {"LORA", "FSK"}
      BY <2>2 DEF Rates
    <3> QED
      BY <2>2, <3>1 DEF Cast, Values
  <2>3. CASE kind = "int" /\ key \in {"spreadingFactor", "bps"} /\ v = r[key]
    <3>1. r[key] \in Int
      BY <2>3 DEF Rates
    <3> QED
      BY <2>3, <3>1 DEF Cast, Values
  <2>4. CASE kind \in {"int", "double"} /\ key = "bandwidth" /\ v = BANDWIDTH2String[r[key]]
    <3>1. r[key] \in 1 .. 10
      BY <2>4 DEF Rates
    <3>2. int2BANDWIDTH(v) = r[key] /\ v \in Int
      BY <2>4, <3>1, BandwidthReadBack, Zenon
    <3> QED
      BY <2>4, <3>2 DEF Cast, Values
  <2> QED
    BY <2>1, <2>2, <2>3, <2>4 DEF RateFits
<1>3. h.state = "rates[]" /\ h.key = key
  BY DEF Hd
<1>4. e.ev = kind /\ e.v = v
  OBVIOUS
<1> HIDE DEF h, e
<1>5. Handle(h, e) = SetRate(h, v)
  <2>1. CASE kind = "bool" /\ key \in RateBools
    <3>1. key \notin BandBools /\ key \notin ChannelBools
      BY <2>1 DEF BandBools, RateBools, ChannelBools
    <3> QED
      BY <1>3, <1>4, <2>1, <3>1 DEF Handle, Bool
  <2>2. CASE kind = "string" /\ key = "modulation"
    <3>1. key \notin BandStrings
      BY <2>2 DEF BandStrings
    <3> QED
      BY <1>3, <1>4, <2>2, <3>1 DEF Handle, String
  <2>3. CASE kind = "int" /\ key \in RateInts
    BY <1>3, <1>4, <2>3 DEF Handle, Integer
  <2>4. CASE kind = "double" /\ key = "bandwidth"
    BY <1>3, <1>4, <2>4 DEF Handle, Double
  <2> QED
    BY <2>1, <2>2, <2>3, <2>4 DEF RateFits, RateInts
<1>6. SetIn(ArrayAt(p.rates, RateKeys, NewRate, i, K), i, key, Cast(key, v))
      = ArrayAt(p.rates, RateKeys, NewRate, i, K \cup {key})
  <2> DEFINE f == p.rates
             m == Cast(key, v)
  <2>1. m = f[i][key]
    BY <1>2, Zenon
  <2> HIDE DEF f, m
  <2>2. SetIn(ArrayAt(f, RateKeys, NewRate, i, K), i, key, m) = ArrayAt(f, RateKeys, NewRate, i, K \cup {key})
    BY <1>1, <2>1, ArraySet
  <2> QED
    BY <2>2 DEF f, m
<1>7. Handle(h, e) = WithKey(InRates("rates[]", pv, i, done, p, i, K \cup {key}), key)
  BY <1>5, <1>6, RateSet, KeyOf DEF InRates, h
<1> QED
  BY <1>1, <1>2, <1>7, TakesMember DEF InRates, h, e

\* Brackets that the handler takes whatever the key.
LEMMA ObjectOpens ==
  ASSUME NEW st, NEW pv, NEW c, NEW bs, NEW st2, NEW c2, NEW bs2,
         \A k : StartObject(Hd(st, k, pv, c, bs)) = Hd(st2, k, pv, c2, bs2)
  PROVE  Takes(Hx(st, pv, c, bs), Ev("{", Blank), Hx(st2, pv, c2, bs2))
<1> DEFINE e == [ev |-> "{", v |-> Blank]
<1>1. ASSUME NEW k PROVE Handle(Hd(st, k, pv, c, bs), e) = WithKey(Hx(st2, pv, c2, bs2), k)
  <2>1. Handle(Hd(st, k, pv, c, bs), e) = StartObject(Hd(st, k, pv, c, bs))
    BY DEF Handle
  <2>2. WithKey(Hx(st2, pv, c2, bs2), k) = Hd(st2, k, pv, c2, bs2)
    BY DEF WithKey, Hx, Hd
  <2> QED
    BY <2>1, <2>2, Zenon
<1>2. e \in Events /\ Ev("{", Blank) = <<e>>
  BY BracketEvents
<1> HIDE DEF e
<1> QED
  BY <1>1, <1>2, TakesEvent

LEMMA ObjectCloses ==
  ASSUME NEW st, NEW pv, NEW c, NEW bs, NEW st2, NEW c2, NEW bs2,
         \A k : EndObject(Hd(st, k, pv, c, bs)) = Hd(st2, k, pv, c2, bs2)
  PROVE  Takes(Hx(st, pv, c, bs), Ev("}", Blank), Hx(st2, pv, c2, bs2))
<1> DEFINE e == [ev |-> "}", v |-> Blank]
<1>1. ASSUME NEW k PROVE Handle(Hd(st, k, pv, c, bs), e) = WithKey(Hx(st2, pv, c2, bs2), k)
  <2>1. Handle(Hd(st, k, pv, c, bs), e) = EndObject(Hd(st, k, pv, c, bs))
    BY DEF Handle
  <2>2. WithKey(Hx(st2, pv, c2, bs2), k) = Hd(st2, k, pv, c2, bs2)
    BY DEF WithKey, Hx, Hd
  <2> QED
    BY <2>1, <2>2, Zenon
<1>2. e \in Events /\ Ev("}", Blank) = <<e>>
  BY BracketEvents
<1> HIDE DEF e
<1> QED
  BY <1>1, <1>2, TakesEvent

\* A list of elements as the value of a key.
LEMMA TakesListMember ==
  ASSUME NEW key \in Arrays, NEW x, NEW y, NEW w, NEW n \in Nat, NEW m, NEW hs,
         Takes(x, Member(key, Ev("[", Blank)), hs[0]),
         \A i \in 1 .. n : Takes(hs[i - 1], m[i], hs[i]),
         Takes(hs[n], Ev("]", Blank), w)
  PROVE  Takes(x, Member(key, List([i \in 1 .. n |-> m[i]])), w)
<1> DEFINE items == [i \in 1 .. n |-> m[i]]
<1>1. TakesAll(hs[0], items, hs[n])
  BY PieceAll
<1>2. key \in Attributes /\ "[" \in Kinds
  BY DEF Attributes, Kinds
<1> HIDE DEF items
<1>3. Takes(x, Member(key, Between("[", items, "]")), w)
  BY <1>1, <1>2, TakesMemberBetween
<1> QED
  BY <1>3 DEF Between, List, items

\* Two members and three members of one kind.
LEMMA ScalarsTwo ==
  ASSUME NEW kind, NEW f, NEW a, NEW b, NEW x, NEW y, NEW z,
         Takes(x, Member(a, Ev(kind, f[a])), y), Takes(y, Member(b, Ev(kind, f[b])), z)
  PROVE  TakesAll(x, Scalars(kind, <<a, b>>, f), z)
<1> DEFINE W(k) == Member(k, Ev(kind, f[k]))
<1>1. \A keys : Scalars(kind, keys, f) = [i \in 1 .. Len(keys) |-> W(keys[i])]
  BY DEF Scalars
<1>2. Takes(x, W(a), y) /\ Takes(y, W(b), z)
  OBVIOUS
<1> HIDE DEF W
<1>3. Scalars(kind, <<a, b>>, f) = <<W(a), W(b)>>
  <2> DEFINE s == <<a, b>>
  <2>1. [i \in 1 .. Len(s) |-> W(s[i])] = <<W(a), W(b)>>
    OBVIOUS
  <2> HIDE DEF s
  <2>2. Scalars(kind, s, f) = [i \in 1 .. Len(s) |-> W(s[i])]
    BY <1>1, Zenon
  <2>3. Scalars(kind, s, f) = <<W(a), W(b)>>
    BY <2>1, <2>2
  <2> QED
    BY <2>3, Zenon DEF s
<1>4. TakesAll(x, <<W(a), W(b)>>, z)
  BY <1>2, AllTwo
<1> QED
  BY <1>3, <1>4

LEMMA ScalarsThree ==
  ASSUME NEW kind, NEW f, NEW a, NEW b, NEW c, NEW x, NEW y, NEW z, NEW w,
         Takes(x, Member(a, Ev(kind, f[a])), y), Takes(y, Member(b, Ev(kind, f[b])), z),
         Takes(z, Member(c, Ev(kind, f[c])), w)
  PROVE  TakesAll(x, Scalars(kind, <<a, b, c>>, f), w)
<1> DEFINE W(k) == Member(k, Ev(kind, f[k]))
<1>1. \A keys : Scalars(kind, keys, f) = [i \in 1 .. Len(keys) |-> W(keys[i])]
  BY DEF Scalars
<1>2. Takes(x, W(a), y) /\ Takes(y, W(b), z) /\ Takes(z, W(c), w)
  OBVIOUS
<1> HIDE DEF W
<1>3. Scalars(kind, <<a, b, c>>, f) = <<W(a), W(b), W(c)>>
  <2> DEFINE s == <<a, b, c>>
  <2>1. [i \in 1 .. Len(s) |-> W(s[i])] = <<W(a), W(b), W(c)>>
    OBVIOUS
  <2> HIDE DEF s
  <2>2. Scalars(kind, s, f) = [i \in 1 .. Len(s) |-> W(s[i])]
    BY <1>1, Zenon
  <2>3. Scalars(kind, s, f) = <<W(a), W(b), W(c)>>
    BY <2>1, <2>2
  <2> QED
    BY <2>3, Zenon DEF s
<1>4. TakesAll(x, <<W(a), W(b)>>, z) /\ TakesAll(z, <<W(c)>>, w)
  BY <1>2, AllTwo, AllOne
<1>5. TakesAll(x, <<W(a), W(b)>> \o <<W(c)>>, w)
  BY <1>4, AllMore
<1>6. <<W(a), W(b)>> \o <<W(c)>> = <<W(a), W(b), W(c)>>
  <2> DEFINE u == <<W(a), W(b)>>
             q == <<W(c)>>
             S == {W(a), W(b), W(c)}
             s == u \o q
  <2>1. u \in Seq(S) /\ q \in Seq(S) /\ Len(u) = 2 /\ Len(q) = 1 /\ u[1] = W(a) /\ u[2] = W(b) /\ q[1] = W(c)
    OBVIOUS
  <2> HIDE DEF u, q, S
  <2>2. s \in Seq(S) /\ Len(s) = 3 /\ s[1] = W(a) /\ s[2] = W(b) /\ s[3] = W(c)
    <3>1. /\ s \in Seq(S) /\ Len(s) = Len(u) + Len(q)
          /\ \A i \in 1 .. Len(u) + Len(q) : s[i] = IF i <= Len(u) THEN u[i] ELSE q[i - Len(u)]
      BY <2>1, ConcatProperties
    <3> HIDE DEF s
    <3> QED
      BY <2>1, <3>1
  <2> HIDE DEF s
  <2>3. s = <<W(a), W(b), W(c)>>
    BY <2>2
  <2> QED
    BY <2>3 DEF s, u, q
<1> QED
  BY <1>3, <1>5, <1>6

\* One data rate goes to the element that was counted.
LEMMA RateElement ==
  ASSUME NEW D, NEW done \in Seq(D), NEW pv, NEW p, NEW i \in 1 .. RbRateSize,
         NEW r \in Rates, p.rates[i] = r
  PROVE  Takes(InRates("rates", pv, i - 1, done, p, i, {}), WriteRate(r),
               InRates("rates", pv, i, done, p, i + 1, {}))
<1> DEFINE X(K) == InRates("rates[]", pv, i, done, p, i, K)
           k1 == <<"uplink", "downlink">>
           k2 == <<"spreadingFactor", "bps">>
           v == BANDWIDTH2String[r.bandwidth]
           kind == IF v % 10 = 0 THEN "int" ELSE "double"
           m1 == Member("modulation", Ev("string", r.modulation))
           m2 == Member("bandwidth", Ev(kind, v))
           s1 == Scalars("bool", k1, r)
           s2 == Scalars("int", k2, r)
<1>1. i \in Nat /\ i - 1 + 1 = i
  BY RbAssumption
<1>2. Takes(InRates("rates", pv, i - 1, done, p, i, {}), Ev("{", Blank), X({}))
  <2>1. ASSUME NEW k, NEW bs, NEW n, n + 1 = i
        PROVE  StartObject(Hd("rates", k, pv, Cn(n, 0, 0, 0, 0), bs)) = Hd("rates[]", k, pv, Cn(i, 0, 0, 0, 0), bs)
    BY <2>1 DEF StartObject, Hd, Cn
  <2> QED
    BY <1>1, <2>1, ObjectOpens DEF InRates
<1> HIDE DEF X
<1>3. ASSUME NEW K, NEW q, NEW key, NEW u, RateFits(q, key, u, r)
      PROVE  Takes(X(K), Member(key, Ev(q, u)), X(K \cup {key}))
  BY <1>3, RateTaken DEF X
<1>4. TakesAll(X({}), s1, X({"uplink", "downlink"}))
  <2>1. RateFits("bool", "uplink", r["uplink"], r) /\ RateFits("bool", "downlink", r["downlink"], r)
    BY DEF RateFits, RateBools
  <2>2. {} \cup {"uplink"} \cup {"downlink"} = {"uplink", "downlink"}
    OBVIOUS
  <2>3. Takes(X({}), Member("uplink", Ev("bool", r["uplink"])), X({} \cup {"uplink"}))
    BY <1>3, <2>1, Zenon
  <2>4. Takes(X({} \cup {"uplink"}), Member("downlink", Ev("bool", r["downlink"])), X({"uplink", "downlink"}))
    BY <1>3, <2>1, <2>2, Zenon
  <2> DEFINE a == "uplink"
             b == "downlink"
             k == "bool"
  <2> HIDE DEF a, b, k
  <2>5. Takes(X({}), Member(a, Ev(k, r[a])), X({} \cup {a})) /\ Takes(X({} \cup {a}), Member(b, Ev(k, r[b])), X({a, b}))
    BY <2>3, <2>4, Zenon DEF a, b, k
  <2>6. TakesAll(X({}), Scalars(k, <<a, b>>, r), X({a, b}))
    BY <2>5, ScalarsTwo
  <2> QED
    BY <2>6, Zenon DEF a, b, k
<1>5. TakesAll(X({"uplink", "downlink"}), <<m1, m2>>, X({"uplink", "downlink", "modulation", "bandwidth"}))
  <2>1. RateFits("string", "modulation", r.modulation, r) /\ RateFits(kind, "bandwidth", v, r)
    BY DEF RateFits
  <2>2. /\ {"uplink", "downlink"} \cup {"modulation"} = {"uplink", "downlink", "modulation"}
        /\ {"uplink", "downlink", "modulation"} \cup {"bandwidth"} = {"uplink", "downlink", "modulation", "bandwidth"}
    OBVIOUS
  <2> HIDE DEF kind, v
  <2>3. Takes(X({"uplink", "downlink"}), m1, X({"uplink", "downlink", "modulation"}))
    BY <1>3, <2>1, <2>2, Zenon
  <2>4. Takes(X({"uplink", "downlink", "modulation"}), m2, X({"uplink", "downlink", "modulation", "bandwidth"}))
    BY <1>3, <2>1, <2>2, Zenon
  <2> QED
    BY <2>3, <2>4, AllTwo
<1>6. TakesAll(X({"uplink", "downlink", "modulation", "bandwidth"}), s2, X(RateKeys))
  <2> DEFINE L == {"uplink", "downlink", "modulation", "bandwidth"}
  <2>1. RateFits("int", "spreadingFactor", r["spreadingFactor"], r) /\ RateFits("int", "bps", r["bps"], r)
    BY DEF RateFits
  <2>2. L \cup {"spreadingFactor"} \cup {"bps"} = RateKeys
    BY DEF RateKeys
  <2> HIDE DEF L
  <2>3. Takes(X(L), Member("spreadingFactor", Ev("int", r["spreadingFactor"])), X(L \cup {"spreadingFactor"}))
    BY <1>3, <2>1, Zenon
  <2>4. Takes(X(L \cup {"spreadingFactor"}), Member("bps", Ev("int", r["bps"])), X(RateKeys))
    BY <1>3, <2>1, <2>2, Zenon
  <2> DEFINE a == "spreadingFactor"
             b == "bps"
             k == "int"
  <2> HIDE DEF a, b, k
  <2>5. Takes(X(L), Member(a, Ev(k, r[a])), X(L \cup {a})) /\ Takes(X(L \cup {a}), Member(b, Ev(k, r[b])), X(RateKeys))
    BY <2>3, <2>4, Zenon DEF a, b, k
  <2>6. TakesAll(X(L), Scalars(k, <<a, b>>, r), X(RateKeys))
    BY <2>5, ScalarsTwo
  <2> QED
    BY <2>6, Zenon DEF a, b, k, L
<1>7. Takes(X(RateKeys), Ev("}", Blank), InRates("rates", pv, i, done, p, i + 1, {}))
  <2>1. ASSUME NEW k, NEW c, NEW bs
        PROVE  EndObject(Hd("rates[]", k, pv, c, bs)) = Hd("rates", k, pv, c, bs)
    BY DEF EndObject, Hd
  <2>2. IsRecord(r, RateKeys) /\ IsRecord(NewRate, RateKeys)
    BY DEF IsRecord, Rates, RateKeys, NewRate
  <2>3. ArrayAt(p.rates, RateKeys, NewRate, i, RateKeys) = ArrayAt(p.rates, RateKeys, NewRate, i + 1, {})
    BY <2>2, ArrayNext
  <2> QED
    BY <2>1, <2>3, ObjectCloses DEF InRates, X
<1> HIDE DEF m1, m2, s1, s2
<1>8. TakesAll(X({}), s1 \o <<m1, m2>> \o s2, X(RateKeys))
  <2>1. TakesAll(X({}), s1 \o <<m1, m2>>, X({"uplink", "downlink", "modulation", "bandwidth"}))
    BY <1>4, <1>5, AllMore, Zenon
  <2> QED
    BY <1>6, <2>1, AllMore, Zenon
<1>9. Takes(InRates("rates", pv, i - 1, done, p, i, {}), Between("{", s1 \o <<m1, m2>> \o s2, "}"),
            InRates("rates", pv, i, done, p, i + 1, {}))
  BY <1>2, <1>7, <1>8, TakesBetween, Zenon
<1>10. WriteRate(r) = Between("{", s1 \o <<m1, m2>> \o s2, "}")
  BY Zenon DEF WriteRate, Object, Between, s1, s2, m1, m2
<1> QED
  BY <1>9, <1>10, Zenon

\* The array of data rates, from the plan with its attributes only.
LEMMA RatesTaken ==
  ASSUME NEW D, NEW done \in Seq(D), NEW pv, NEW p, AttrOK(p.attr),
         p.rates \in Seq(Rates), Len(p.rates) = RbRateSize
  PROVE  Takes(InAttr("band", pv, Zero, done, p, PlanAttrs), Member("dataRates", Each(WriteRate, p.rates)),
               InRates("band", pv, RbRateSize, done, p, RbRateSize + 1, {}))
<1> DEFINE N == RbRateSize
           f == p.rates
           X(i) == InRates("rates", pv, i, done, p, i + 1, {})
           hs == [i \in 0 .. N |-> X(i)]
           m == [i \in 1 .. N |-> WriteRate(f[i])]
           x == InAttr("band", pv, Zero, done, p, PlanAttrs)
           w == InRates("band", pv, N, done, p, N + 1, {})
<1>1. N \in Nat
  BY RbAssumption
<1>2. x = InRates("band", pv, 0, done, p, 0 + 1, {})
  <2>1. IsRecord(NewRate, RateKeys)
    BY DEF IsRecord, RateKeys, NewRate
  <2>2. ArrayAt(f, RateKeys, NewRate, 0 + 1, {}) = [j \in 1 .. N |-> NewRate]
    BY <2>1, ArrayEnds
  <2>3. NewPlan.rates = [j \in 1 .. N |-> NewRate]
    BY DEF NewPlan
  <2>4. Attr(p, PlanAttrs) = p.attr
    BY AttrEnds
  <2> QED
    BY <2>2, <2>3, <2>4, Zenon DEF InAttr, InRates, Zero
<1>3. Takes(x, Member("dataRates", Ev("[", Blank)), X(0))
  <2>1. "dataRates" \in Arrays /\ ArrayState["dataRates"] = "rates" /\ "rates" \notin {"up", "down"}
    BY DEF Arrays, ArrayState
  <2>2. \A c, bs : Takes(Hx("band", pv, c, bs), Member("dataRates", Ev("[", Blank)), Hx("rates", pv, c, bs))
    BY <2>1, ArrayOpened
  <2> QED
    BY <1>2, <2>2, Zenon DEF InRates
<1>4. Takes(X(N), Ev("]", Blank), w)
  <2>1. "dataRates" \in Arrays /\ ArrayState["dataRates"] = "rates"
    BY DEF Arrays, ArrayState
  <2>2. \A c, bs : Takes(Hx("rates", pv, c, bs), Ev("]", Blank), Hx("band", pv, c, bs))
    BY <2>1, ArrayClosed
  <2> QED
    BY <2>2, Zenon DEF InRates
<1>5. ASSUME NEW i \in 1 .. N PROVE Takes(hs[i - 1], m[i], hs[i])
  <2>1. i - 1 \in 0 .. N /\ i \in 0 .. N /\ i - 1 + 1 = i
    BY <1>1
  <2>2. f[i] \in Rates
    BY <1>1
  <2>3. Takes(InRates("rates", pv, i - 1, done, p, i, {}), WriteRate(f[i]), X(i))
    BY <2>2, RateElement
  <2>4. m[i] = WriteRate(f[i])
    OBVIOUS
  <2>5. hs[i] = X(i) /\ hs[i - 1] = X(i - 1)
    <3> HIDE DEF X
    <3> QED
      BY <2>1
  <2> HIDE DEF hs, m, f
  <2> QED
    BY <2>1, <2>3, <2>4, <2>5
<1>6. hs[0] = X(0) /\ hs[N] = X(N)
  <2> HIDE DEF X
  <2> QED
    BY <1>1
<1>7. Each(WriteRate, f) = List(m) /\ m = [i \in 1 .. N |-> m[i]]
  BY DEF Each
<1>8. "dataRates" \in Arrays
  BY DEF Arrays
<1> HIDE DEF N, f, X, hs, m, x, w
<1>9. Takes(x, Member("dataRates", List([i \in 1 .. N |-> m[i]])), w)
  BY <1>1, <1>3, <1>4, <1>5, <1>6, <1>8, TakesListMember
<1>10. Takes(x, Member("dataRates", Each(WriteRate, f)), w)
  BY <1>7, <1>9, Zenon
<1> QED
  BY <1>10, Zenon DEF x, w, f, N

(***************************************************************************)
(* The channels.  The numbers of a channel go to the last channel of its   *)
(* array, its flags to the last uplink channel.                            *)
(***************************************************************************)
InChannels(st, pv, done, p, up, down) ==
  Hx(st, pv, Cn(RbRateSize, 0, 0, 0, 0),
     Append(done, B(p.attr, p.rates, NewPlan.sizes, NewPlan.repeater, NewPlan.rx1, NewPlan.offsets, up, down)))

SetKey(r, key, v) == [r EXCEPT ![key] = v]
PutUp(h, v) == [h EXCEPT !.bands[Last1(h)].up[Len(h.bands[Last1(h)].up)][h.key] = v]
PutDown(h, v) == [h EXCEPT !.bands[Last1(h)].down[Len(h.bands[Last1(h)].down)][h.key] = v]

LEMMA UpPut ==
  ASSUME NEW D, NEW done \in Seq(D), NEW E, NEW u \in Seq(E), NEW x,
         NEW st, NEW key, NEW pv, NEW c, NEW v,
         NEW attr, NEW rates, NEW sizes, NEW repeater, NEW rx1, NEW offsets, NEW down
  PROVE  PutUp(Hd(st, key, pv, c,
                  Append(done, B(attr, rates, sizes, repeater, rx1, offsets, Append(u, x), down))), v)
         = Hd(st, key, pv, c, Append(done, B(attr, rates, sizes, repeater, rx1, offsets,
                                             Append(u, SetKey(x, key, v)), down)))
<1> DEFINE up == Append(u, x)
           y == SetKey(x, key, v)
           b == B(attr, rates, sizes, repeater, rx1, offsets, up, down)
           g == B(attr, rates, sizes, repeater, rx1, offsets, Append(u, y), down)
           bs == Append(done, b)
           n == Len(done) + 1
           l == Len(u) + 1
           h == Hd(st, key, pv, c, bs)
<1>1. Last1(h) = n /\ h.key = key /\ h.bands = bs
  BY LastBand DEF Last1, Hd
<1>2. Len(up) = l /\ up[l] = x /\ [up EXCEPT ![l] = y] = Append(u, y)
  <2> HIDE DEF y
  <2> QED
    BY LastBand
<1>3. bs[n] = b /\ [bs EXCEPT ![n] = g] = Append(done, g)
  <2> HIDE DEF g, b
  <2> QED
    BY LastBand
<1>4. b.up = up
  BY DEF B
<1>5. PutUp(h, v) = [h EXCEPT !.bands = [bs EXCEPT ![n] = [bs[n] EXCEPT !.up =
                        [bs[n].up EXCEPT ![Len(bs[n].up)] = [bs[n].up[Len(bs[n].up)] EXCEPT ![key] = v]]]]]
  <2> HIDE DEF h, bs, n
  <2> QED
    BY <1>1 DEF PutUp
<1>6. [up EXCEPT ![l] = [up[l] EXCEPT ![key] = v]] = Append(u, y)
  <2>1. [up[l] EXCEPT ![key] = v] = y
    <3> HIDE DEF up, l
    <3> QED
      BY <1>2 DEF SetKey
  <2> HIDE DEF y, up, l
  <2> QED
    BY <1>2, <2>1
<1>7. [b EXCEPT !.up = Append(u, y)] = g
  <2> DEFINE t == Append(u, y)
  <2> HIDE DEF t, up
  <2>1. [b EXCEPT !.up = t] = B(attr, rates, sizes, repeater, rx1, offsets, t, down)
    BY DEF B
  <2> QED
    BY <2>1, Zenon DEF t
<1>8. PutUp(h, v) = SetBands(h, Append(done, g))
  <2> HIDE DEF g, b, bs, h, n, up, l, y
  <2>1. bs[n] = b /\ bs[n].up = up /\ Len(bs[n].up) = l
    BY <1>2, <1>3, <1>4
  <2> DEFINE q == [up EXCEPT ![l] = [up[l] EXCEPT ![key] = v]]
  <2>2. [bs[n].up EXCEPT ![Len(bs[n].up)] = [bs[n].up[Len(bs[n].up)] EXCEPT ![key] = v]] = q
    BY <2>1, Zenon
  <2>3. PutUp(h, v) = [h EXCEPT !.bands = [bs EXCEPT ![n] = [bs[n] EXCEPT !.up = q]]]
    BY <1>5, <2>2, Zenon
  <2>4. [bs[n] EXCEPT !.up = q] = g
    BY <1>6, <1>7, <2>1, Zenon
  <2> HIDE DEF q
  <2> QED
    BY <1>3, <2>3, <2>4, Zenon DEF SetBands
<1>9. SetBands(h, Append(done, g)) = Hd(st, key, pv, c, Append(done, g))
  <2> HIDE DEF g, b, bs
  <2> QED
    BY BandsSet
<1> QED
  BY <1>8, <1>9

LEMMA DownPut ==
  ASSUME NEW D, NEW done \in Seq(D), NEW E, NEW u \in Seq(E), NEW x,
         NEW st, NEW key, NEW pv, NEW c, NEW v,
         NEW attr, NEW rates, NEW sizes, NEW repeater, NEW rx1, NEW offsets, NEW up
  PROVE  PutDown(Hd(st, key, pv, c,
                    Append(done, B(attr, rates, sizes, repeater, rx1, offsets, up, Append(u, x)))), v)
         = Hd(st, key, pv, c, Append(done, B(attr, rates, sizes, repeater, rx1, offsets, up,
                                             Append(u, SetKey(x, key, v)))))
<1> DEFINE down == Append(u, x)
           y == SetKey(x, key, v)
           b == B(attr, rates, sizes, repeater, rx1, offsets, up, down)
           g == B(attr, rates, sizes, repeater, rx1, offsets, up, Append(u, y))
           bs == Append(done, b)
           n == Len(done) + 1
           l == Len(u) + 1
           h == Hd(st, key, pv, c, bs)
<1>1. Last1(h) = n /\ h.key = key /\ h.bands = bs
  BY LastBand DEF Last1, Hd
<1>2. Len(down) = l /\ down[l] = x /\ [down EXCEPT ![l] = y] = Append(u, y)
  <2> HIDE DEF y
  <2> QED
    BY LastBand
<1>3. bs[n] = b /\ [bs EXCEPT ![n] = g] = Append(done, g)
  <2> HIDE DEF g, b
  <2> QED
    BY LastBand
<1>4. b.down = down
  BY DEF B
<1>5. PutDown(h, v) = [h EXCEPT !.bands = [bs EXCEPT ![n] = [bs[n] EXCEPT !.down =
                          [bs[n].down EXCEPT ![Len(bs[n].down)] = [bs[n].down[Len(bs[n].down)] EXCEPT ![key] = v]]]]]
  <2> HIDE DEF h, bs, n
  <2> QED
    BY <1>1 DEF PutDown
<1>6. [down EXCEPT ![l] = [down[l] EXCEPT ![key] = v]] = Append(u, y)
  <2>1. [down[l] EXCEPT ![key] = v] = y
    <3> HIDE DEF down, l
    <3> QED
      BY <1>2 DEF SetKey
  <2> HIDE DEF y, down, l
  <2> QED
    BY <1>2, <2>1
<1>7. [b EXCEPT !.down = Append(u, y)] = g
  <2> DEFINE t == Append(u, y)
  <2> HIDE DEF t, down
  <2>1. [b EXCEPT !.down = t] = B(attr, rates, sizes, repeater, rx1, offsets, up, t)
    BY DEF B
  <2> QED
    BY <2>1, Zenon DEF t
<1>8. PutDown(h, v) = SetBands(h, Append(done, g))
  <2> HIDE DEF g, b, bs, h, n, down, l, y
  <2>1. bs[n] = b /\ bs[n].down = down /\ Len(bs[n].down) = l
    BY <1>2, <1>3, <1>4
  <2> DEFINE q == [down EXCEPT ![l] = [down[l] EXCEPT ![key] = v]]
  <2>2. [bs[n].down EXCEPT ![Len(bs[n].down)] = [bs[n].down[Len(bs[n].down)] EXCEPT ![key] = v]] = q
    BY <2>1, Zenon
  <2>3. PutDown(h, v) = [h EXCEPT !.bands = [bs EXCEPT ![n] = [bs[n] EXCEPT !.down = q]]]
    BY <1>5, <2>2, Zenon
  <2>4. [bs[n] EXCEPT !.down = q] = g
    BY <1>6, <1>7, <2>1, Zenon
  <2> HIDE DEF q
  <2> QED
    BY <1>3, <2>3, <2>4, Zenon DEF SetBands
<1>9. SetBands(h, Append(done, g)) = Hd(st, key, pv, c, Append(done, g))
  <2> HIDE DEF g, b, bs
  <2> QED
    BY BandsSet
<1> QED
  BY <1>8, <1>9

\* The state in which the program is when it writes through a null vector.
Crash(h) == [h EXCEPT !.result = "crash"]

LEMMA ChannelHandled ==
  ASSUME NEW h, NEW e, NEW v, h.state = "channel", InBand(h), e.v = v
  PROVE  /\ e.ev = "int" /\ h.key \in ChannelInts /\ h.prev = "up" => Handle(h, e) = PutUp(h, v)
         /\ e.ev = "int" /\ h.key \in ChannelInts /\ h.prev # "up" => Handle(h, e) = PutDown(h, v)
         /\ e.ev = "bool" /\ h.key \in ChannelBools /\ h.bands[Last1(h)].up # <<>> => Handle(h, e) = PutUp(h, v)
         /\ e.ev = "bool" /\ h.key \in ChannelBools /\ h.bands[Last1(h)].up = <<>> => Handle(h, e) = Crash(h)
<1>1. e.ev = "int" => Handle(h, e) = Integer(h, v)
  BY DEF Handle
<1>2. e.ev = "bool" => Handle(h, e) = Bool(h, v)
  BY DEF Handle
<1>3. Integer(h, v) = SetChannel(h, v)
  BY DEF Integer
<1>4. h.key \in ChannelBools => Bool(h, v) = SetChannelFlag(h, v)
  <2>1. h.key \in ChannelBools => h.key \notin BandBools /\ h.key \notin RateBools
    BY DEF ChannelBools, BandBools, RateBools
  <2> QED
    BY <2>1 DEF Bool
<1>5. h.key \in ChannelInts /\ h.prev = "up" => SetChannel(h, v) = PutUp(h, v)
  BY DEF SetChannel, PutUp
<1>6. h.key \in ChannelInts /\ h.prev # "up" => SetChannel(h, v) = PutDown(h, v)
  BY DEF SetChannel, PutDown
<1>7. h.bands[Last1(h)].up # <<>> => SetChannelFlag(h, v) = PutUp(h, v)
  BY DEF SetChannelFlag, PutUp
<1>8. h.bands[Last1(h)].up = <<>> => SetChannelFlag(h, v) = Crash(h)
  BY DEF SetChannelFlag, Crash
<1> QED
  BY <1>1, <1>2, <1>3, <1>4, <1>5, <1>6, <1>7, <1>8, Zenon

LEMMA ChannelState ==
  ASSUME NEW D, NEW done \in Seq(D), NEW b, NEW key, NEW pv, NEW c, NEW st
  PROVE  LET h == Hd(st, key, pv, c, Append(done, b))
         IN h.state = st /\ InBand(h) /\ h.key = key /\ h.prev = pv /\ h.bands[Last1(h)] = b
<1> DEFINE bs == Append(done, b)
           h == Hd(st, key, pv, c, bs)
<1>1. h.state = st /\ h.key = key /\ h.prev = pv /\ h.bands = bs
  BY DEF Hd
<1>2. bs # <<>> /\ Len(bs) = Len(done) + 1 /\ bs[Len(done) + 1] = b
  BY LastBand
<1> HIDE DEF h, bs
<1>3. InBand(h) /\ h.bands[Last1(h)] = b
  BY <1>1, <1>2 DEF InBand, Last1
<1> QED
  BY <1>1, <1>3 DEF h, bs

LEMMA ChannelValues ==
  ASSUME NEW c \in Channels, NEW key
  PROVE  /\ key \in ChannelInts => key \in Attributes /\ c[key] \in Values
         /\ key \in ChannelBools => key \in Attributes /\ c[key] \in Values
<1>1. ASSUME key \in ChannelInts PROVE key \in Attributes /\ c[key] \in Values
  <2>1. c[key] \in Int
    BY <1>1 DEF ChannelInts, Channels
  <2> QED
    BY <1>1, <2>1 DEF Attributes, Values
<1>2. ASSUME key \in ChannelBools PROVE key \in Attributes /\ c[key] \in Values
  <2>1. c[key] \in BOOLEAN
    BY <1>2 DEF ChannelBools, Channels
  <2> QED
    BY <1>2, <2>1 DEF Attributes, Values
<1> QED
  BY <1>1, <1>2

LEMMA UpIntTaken ==
  ASSUME NEW D, NEW done \in Seq(D), NEW p, NEW E, NEW u \in Seq(E), NEW x, NEW down,
         NEW c \in Channels, NEW key \in ChannelInts
  PROVE  Takes(InChannels("channel", "up", done, p, Append(u, x), down), Member(key, Ev("int", c[key])),
               InChannels("channel", "up", done, p, Append(u, SetKey(x, key, c[key])), down))
<1> DEFINE v == c[key]
           n == Cn(RbRateSize, 0, 0, 0, 0)
           b == B(p.attr, p.rates, NewPlan.sizes, NewPlan.repeater, NewPlan.rx1, NewPlan.offsets, Append(u, x), down)
           h == Hd("channel", key, "up", n, Append(done, b))
           e == [ev |-> "int", v |-> v]
<1>1. key \in Attributes /\ v \in Values /\ "int" \in Kinds
  BY ChannelValues DEF Kinds
<1> HIDE DEF v
<1>2. Handle(h, e) = PutUp(h, v)
  <2> HIDE DEF b, n
  <2>1. h.state = "channel" /\ InBand(h) /\ h.key = key /\ h.prev = "up" /\ h.bands[Last1(h)] = b
    BY ChannelState
  <2>2. e.ev = "int" /\ e.v = v
    OBVIOUS
  <2> HIDE DEF h, e
  <2> QED
    BY <2>1, <2>2, ChannelHandled
<1>3. PutUp(h, v) = WithKey(InChannels("channel", "up", done, p, Append(u, SetKey(x, key, v)), down), key)
  BY UpPut, KeyOf DEF InChannels
<1>4. Handle(h, e) = WithKey(InChannels("channel", "up", done, p, Append(u, SetKey(x, key, v)), down), key)
  BY <1>2, <1>3, Zenon
<1> QED
  BY <1>1, <1>4, TakesMember DEF InChannels, v

LEMMA FlagTaken ==
  ASSUME NEW D, NEW done \in Seq(D), NEW pv, NEW p, NEW E, NEW u \in Seq(E), NEW x, NEW down,
         NEW c \in Channels, NEW key \in ChannelBools
  PROVE  Takes(InChannels("channel", pv, done, p, Append(u, x), down), Member(key, Ev("bool", c[key])),
               InChannels("channel", pv, done, p, Append(u, SetKey(x, key, c[key])), down))
<1> DEFINE v == c[key]
           n == Cn(RbRateSize, 0, 0, 0, 0)
           b == B(p.attr, p.rates, NewPlan.sizes, NewPlan.repeater, NewPlan.rx1, NewPlan.offsets, Append(u, x), down)
           h == Hd("channel", key, pv, n, Append(done, b))
           e == [ev |-> "bool", v |-> v]
<1>1. key \in Attributes /\ v \in Values /\ "bool" \in Kinds
  BY ChannelValues DEF Kinds
<1>2. b.up # <<>>
  <2> DEFINE t == Append(u, x)
  <2>1. t # <<>>
    BY LastBand
  <2> HIDE DEF t
  <2>2. b.up = t
    BY DEF B, t
  <2> QED
    BY <2>1, <2>2
<1> HIDE DEF v
<1>3. Handle(h, e) = PutUp(h, v)
  <2> HIDE DEF b, n
  <2>1. h.state = "channel" /\ InBand(h) /\ h.key = key /\ h.prev = pv /\ h.bands[Last1(h)] = b
    BY ChannelState
  <2>2. e.ev = "bool" /\ e.v = v
    OBVIOUS
  <2> HIDE DEF h, e
  <2> QED
    BY <2>1, <2>2, <1>2, ChannelHandled
<1>4. PutUp(h, v) = WithKey(InChannels("channel", pv, done, p, Append(u, SetKey(x, key, v)), down), key)
  BY UpPut, KeyOf DEF InChannels
<1>5. Handle(h, e) = WithKey(InChannels("channel", pv, done, p, Append(u, SetKey(x, key, v)), down), key)
  BY <1>3, <1>4, Zenon
<1> QED
  BY <1>1, <1>5, TakesMember DEF InChannels, v

LEMMA DownIntTaken ==
  ASSUME NEW D, NEW done \in Seq(D), NEW p, NEW E, NEW u \in Seq(E), NEW x, NEW up,
         NEW c \in Channels, NEW key \in ChannelInts
  PROVE  Takes(InChannels("channel", "down", done, p, up, Append(u, x)), Member(key, Ev("int", c[key])),
               InChannels("channel", "down", done, p, up, Append(u, SetKey(x, key, c[key]))))
<1> DEFINE v == c[key]
           n == Cn(RbRateSize, 0, 0, 0, 0)
           b == B(p.attr, p.rates, NewPlan.sizes, NewPlan.repeater, NewPlan.rx1, NewPlan.offsets, up, Append(u, x))
           h == Hd("channel", key, "down", n, Append(done, b))
           e == [ev |-> "int", v |-> v]
<1>1. key \in Attributes /\ v \in Values /\ "int" \in Kinds
  BY ChannelValues DEF Kinds
<1> HIDE DEF v
<1>2. Handle(h, e) = PutDown(h, v)
  <2> HIDE DEF b, n
  <2>1. h.state = "channel" /\ InBand(h) /\ h.key = key /\ h.prev = "down" /\ h.bands[Last1(h)] = b
    BY ChannelState
  <2>2. e.ev = "int" /\ e.v = v
    OBVIOUS
  <2> HIDE DEF h, e
  <2> QED
    BY <2>1, <2>2, ChannelHandled
<1>3. PutDown(h, v) = WithKey(InChannels("channel", "down", done, p, up, Append(u, SetKey(x, key, v))), key)
  BY DownPut, KeyOf DEF InChannels
<1>4. Handle(h, e) = WithKey(InChannels("channel", "down", done, p, up, Append(u, SetKey(x, key, v))), key)
  BY <1>2, <1>3, Zenon
<1> QED
  BY <1>1, <1>4, TakesMember DEF InChannels, v

\* A flag when there is no uplink channel.
LEMMA FlagBreaks ==
  ASSUME NEW D, NEW done \in Seq(D), NEW pv, NEW p, NEW down, NEW c \in Channels, NEW key \in ChannelBools
  PROVE  Takes(InChannels("channel", pv, done, p, <<>>, down), Member(key, Ev("bool", c[key])),
               Crash(InChannels("channel", pv, done, p, <<>>, down)))
<1> DEFINE v == c[key]
           n == Cn(RbRateSize, 0, 0, 0, 0)
           b == B(p.attr, p.rates, NewPlan.sizes, NewPlan.repeater, NewPlan.rx1, NewPlan.offsets, <<>>, down)
           bs == Append(done, b)
           h == Hd("channel", key, pv, n, bs)
           e == [ev |-> "bool", v |-> v]
<1>1. key \in Attributes /\ v \in Values /\ "bool" \in Kinds
  BY ChannelValues DEF Kinds
<1>2. b.up = <<>>
  BY DEF B
<1> HIDE DEF v
<1>3. Handle(h, e) = Crash(h)
  <2> HIDE DEF b, n
  <2>1. h.state = "channel" /\ InBand(h) /\ h.key = key /\ h.prev = pv /\ h.bands[Last1(h)] = b
    BY ChannelState
  <2>2. e.ev = "bool" /\ e.v = v
    OBVIOUS
  <2> HIDE DEF h, e
  <2> QED
    BY <2>1, <2>2, <1>2, ChannelHandled
<1>4. Crash(h) = WithKey(Crash(Hx("channel", pv, n, bs)), key)
  <2> HIDE DEF n, bs
  <2> DEFINE R(k) == [state |-> "channel", key |-> k, prev |-> pv, rates |-> n.rates, sizes |-> n.sizes,
                      repeater |-> n.repeater, rx1 |-> n.rx1, offsets |-> n.offsets, bands |-> bs, result |-> "crash"]
  <2>1. \A k : Crash(Hd("channel", k, pv, n, bs)) = R(k)
    BY DEF Crash, Hd
  <2>2. \A k : WithKey(R(k), key) = R(key)
    BY DEF WithKey
  <2> HIDE DEF R
  <2> QED
    BY <2>1, <2>2, Zenon DEF Hx
<1>5. Handle(h, e) = WithKey(Crash(InChannels("channel", pv, done, p, <<>>, down)), key)
  BY <1>3, <1>4, Zenon DEF InChannels
<1> QED
  BY <1>1, <1>5, TakesMember DEF InChannels, v

\* A channel begins and ends.
LEMMA ChannelOpened ==
  ASSUME NEW D, NEW done \in Seq(D), NEW p, NEW pv, NEW up, NEW down
  PROVE  /\ Takes(InChannels("up", pv, done, p, up, down), Ev("{", Blank),
                  InChannels("channel", pv, done, p, Append(up, NewChannel), down))
         /\ Takes(InChannels("down", pv, done, p, up, down), Ev("{", Blank),
                  InChannels("channel", pv, done, p, up, Append(down, NewChannel)))
<1> DEFINE n == Cn(RbRateSize, 0, 0, 0, 0)
           b(s, t) == B(p.attr, p.rates, NewPlan.sizes, NewPlan.repeater, NewPlan.rx1, NewPlan.offsets, s, t)
           bs == Append(done, b(up, down))
           l == Len(done) + 1
           u == Append(up, NewChannel)
           d == Append(down, NewChannel)
<1> HIDE DEF n, u, d
<1>1. b(up, down).up = up /\ b(up, down).down = down
  BY DEF B
<1>2. [b(up, down) EXCEPT !.up = u] = b(u, down) /\ [b(up, down) EXCEPT !.down = d] = b(up, d)
  <2>1. [b(up, down) EXCEPT !.up = u] = b(u, down)
    BY DEF B
  <2>2. [b(up, down) EXCEPT !.down = d] = b(up, d)
    BY DEF B
  <2> QED
    BY <2>1, <2>2
<1> HIDE DEF b
<1>3. bs[l] = b(up, down) /\ Len(bs) = l /\ \A a : [bs EXCEPT ![l] = a] = Append(done, a)
  BY LastBand
<1> HIDE DEF bs, l
<1>4. ASSUME NEW k PROVE StartObject(Hd("up", k, pv, n, bs)) = Hd("channel", k, pv, n, Append(done, b(u, down)))
  <2> DEFINE h == Hd("up", k, pv, n, bs)
             q == Append(done, b(u, down))
  <2>1. h.state = "up" /\ h.bands = bs
    BY DEF Hd
  <2>2. ASSUME NEW cs PROVE [h EXCEPT !.state = "channel", !.bands = cs] = Hd("channel", k, pv, n, cs)
    <3>1. [h EXCEPT !.state = "channel"] = Hd("channel", k, pv, n, bs)
      BY DEF Hd
    <3>2. SetBands(Hd("channel", k, pv, n, bs), cs) = Hd("channel", k, pv, n, cs)
      BY BandsSet
    <3> HIDE DEF h
    <3> QED
      BY <3>1, <3>2, Zenon DEF SetBands
  <2> HIDE DEF h
  <2>3. StartObject(h) = [h EXCEPT !.state = "channel", !.bands[Last1(h)].up = Append(@, NewChannel)]
    BY <2>1 DEF StartObject
  <2>4. Last1(h) = l
    BY <1>3, <2>1 DEF Last1
  <2>5. [bs EXCEPT ![l].up = Append(@, NewChannel)] = q
    <3>1. [bs EXCEPT ![l].up = Append(@, NewChannel)] = [bs EXCEPT ![l] = [bs[l] EXCEPT !.up = Append(bs[l].up, NewChannel)]]
      OBVIOUS
    <3>2. Append(bs[l].up, NewChannel) = u
      BY <1>1, <1>3, Zenon DEF u
    <3>3. [bs[l] EXCEPT !.up = u] = b(u, down)
      BY <1>2, <1>3, Zenon
    <3> QED
      BY <1>3, <3>1, <3>2, <3>3, Zenon
  <2>6. StartObject(h) = [h EXCEPT !.state = "channel", !.bands = [bs EXCEPT ![l].up = Append(@, NewChannel)]]
    BY <2>1, <2>3, <2>4
  <2> HIDE DEF q
  <2>7. StartObject(h) = [h EXCEPT !.state = "channel", !.bands = q]
    BY <2>5, <2>6, Zenon
  <2> QED
    BY <2>2, <2>7, Zenon DEF h, q
<1>5. ASSUME NEW k PROVE StartObject(Hd("down", k, pv, n, bs)) = Hd("channel", k, pv, n, Append(done, b(up, d)))
  <2> DEFINE h == Hd("down", k, pv, n, bs)
             q == Append(done, b(up, d))
  <2>1. h.state = "down" /\ h.bands = bs
    BY DEF Hd
  <2>2. ASSUME NEW cs PROVE [h EXCEPT !.state = "channel", !.bands = cs] = Hd("channel", k, pv, n, cs)
    <3>1. [h EXCEPT !.state = "channel"] = Hd("channel", k, pv, n, bs)
      BY DEF Hd
    <3>2. SetBands(Hd("channel", k, pv, n, bs), cs) = Hd("channel", k, pv, n, cs)
      BY BandsSet
    <3> HIDE DEF h
    <3> QED
      BY <3>1, <3>2, Zenon DEF SetBands
  <2> HIDE DEF h
  <2>3. StartObject(h) = [h EXCEPT !.state = "channel", !.bands[Last1(h)].down = Append(@, NewChannel)]
    BY <2>1 DEF StartObject
  <2>4. Last1(h) = l
    BY <1>3, <2>1 DEF Last1
  <2>5. [bs EXCEPT ![l].down = Append(@, NewChannel)] = q
    <3>1. [bs EXCEPT ![l].down = Append(@, NewChannel)] = [bs EXCEPT ![l] = [bs[l] EXCEPT !.down = Append(bs[l].down, NewChannel)]]
      OBVIOUS
    <3>2. Append(bs[l].down, NewChannel) = d
      BY <1>1, <1>3, Zenon DEF d
    <3>3. [bs[l] EXCEPT !.down = d] = b(up, d)
      BY <1>2, <1>3, Zenon
    <3> QED
      BY <1>3, <3>1, <3>2, <3>3, Zenon
  <2>6. StartObject(h) = [h EXCEPT !.state = "channel", !.bands = [bs EXCEPT ![l].down = Append(@, NewChannel)]]
    BY <2>1, <2>3, <2>4
  <2> HIDE DEF q
  <2>7. StartObject(h) = [h EXCEPT !.state = "channel", !.bands = q]
    BY <2>5, <2>6, Zenon
  <2> QED
    BY <2>2, <2>7, Zenon DEF h, q
<1>6. Takes(Hx("up", pv, n, bs), Ev("{", Blank), Hx("channel", pv, n, Append(done, b(u, down))))
  BY <1>4, ObjectOpens
<1>7. Takes(Hx("down", pv, n, bs), Ev("{", Blank), Hx("channel", pv, n, Append(done, b(up, d))))
  BY <1>5, ObjectOpens
<1> QED
  BY <1>6, <1>7, Zenon DEF InChannels, bs, b, n, u, d

LEMMA ChannelClosed ==
  ASSUME NEW pv, NEW done, NEW p, NEW up, NEW down
  PROVE  Takes(InChannels("channel", pv, done, p, up, down), Ev("}", Blank), InChannels(pv, pv, done, p, up, down))
<1>1. ASSUME NEW k, NEW c, NEW bs
      PROVE  EndObject(Hd("channel", k, pv, c, bs)) = Hd(pv, k, pv, c, bs)
  BY DEF EndObject, Hd
<1> QED
  BY <1>1, ObjectCloses DEF InChannels

Flagged(x, c) == SetKey(SetKey(x, "enabled", c["enabled"]), "custom", c["custom"])
Numbered(x, c) ==
  SetKey(SetKey(SetKey(x, "frequency", c["frequency"]), "minDR", c["minDR"]), "maxDR", c["maxDR"])
ChannelNumbers(c) == Scalars("int", <<"frequency", "minDR", "maxDR">>, c)
ChannelFlags(c) == Scalars("bool", <<"enabled", "custom">>, c)

LEMMA ChannelMade ==
  ASSUME NEW c \in Channels
  PROVE  Flagged(Numbered(NewChannel, c), c) = c
BY DEF Flagged, Numbered, SetKey, NewChannel, Channels

LEMMA UpNumbersTaken ==
  ASSUME NEW D, NEW done \in Seq(D), NEW p, NEW E, NEW u \in Seq(E), NEW x, NEW down, NEW c \in Channels
  PROVE  TakesAll(InChannels("channel", "up", done, p, Append(u, x), down), ChannelNumbers(c),
                  InChannels("channel", "up", done, p, Append(u, Numbered(x, c)), down))
<1> DEFINE X(y) == InChannels("channel", "up", done, p, Append(u, y), down)
           k1 == "frequency"
           k2 == "minDR"
           k3 == "maxDR"
           k == "int"
           x1 == SetKey(x, k1, c[k1])
           x2 == SetKey(x1, k2, c[k2])
           x3 == SetKey(x2, k3, c[k3])
<1>1. k1 \in ChannelInts /\ k2 \in ChannelInts /\ k3 \in ChannelInts
  BY DEF ChannelInts
<1>2. ASSUME NEW y, NEW key \in ChannelInts PROVE Takes(X(y), Member(key, Ev(k, c[key])), X(SetKey(y, key, c[key])))
  BY UpIntTaken
<1> HIDE DEF X, k1, k2, k3, k, x1, x2, x3
<1>3. Takes(X(x), Member(k1, Ev(k, c[k1])), X(x1))
  BY <1>1, <1>2, Zenon DEF x1
<1>4. Takes(X(x1), Member(k2, Ev(k, c[k2])), X(x2))
  BY <1>1, <1>2, Zenon DEF x2
<1>5. Takes(X(x2), Member(k3, Ev(k, c[k3])), X(x3))
  BY <1>1, <1>2, Zenon DEF x3
<1>6. TakesAll(X(x), Scalars(k, <<k1, k2, k3>>, c), X(x3))
  BY <1>3, <1>4, <1>5, ScalarsThree
<1> QED
  BY <1>6, Zenon DEF X, k1, k2, k3, k, x1, x2, x3, Numbered, ChannelNumbers

LEMMA DownNumbersTaken ==
  ASSUME NEW D, NEW done \in Seq(D), NEW p, NEW E, NEW u \in Seq(E), NEW x, NEW up, NEW c \in Channels
  PROVE  TakesAll(InChannels("channel", "down", done, p, up, Append(u, x)), ChannelNumbers(c),
                  InChannels("channel", "down", done, p, up, Append(u, Numbered(x, c))))
<1> DEFINE X(y) == InChannels("channel", "down", done, p, up, Append(u, y))
           k1 == "frequency"
           k2 == "minDR"
           k3 == "maxDR"
           k == "int"
           x1 == SetKey(x, k1, c[k1])
           x2 == SetKey(x1, k2, c[k2])
           x3 == SetKey(x2, k3, c[k3])
<1>1. k1 \in ChannelInts /\ k2 \in ChannelInts /\ k3 \in ChannelInts
  BY DEF ChannelInts
<1>2. ASSUME NEW y, NEW key \in ChannelInts PROVE Takes(X(y), Member(key, Ev(k, c[key])), X(SetKey(y, key, c[key])))
  BY DownIntTaken
<1> HIDE DEF X, k1, k2, k3, k, x1, x2, x3
<1>3. Takes(X(x), Member(k1, Ev(k, c[k1])), X(x1))
  BY <1>1, <1>2, Zenon DEF x1
<1>4. Takes(X(x1), Member(k2, Ev(k, c[k2])), X(x2))
  BY <1>1, <1>2, Zenon DEF x2
<1>5. Takes(X(x2), Member(k3, Ev(k, c[k3])), X(x3))
  BY <1>1, <1>2, Zenon DEF x3
<1>6. TakesAll(X(x), Scalars(k, <<k1, k2, k3>>, c), X(x3))
  BY <1>3, <1>4, <1>5, ScalarsThree
<1> QED
  BY <1>6, Zenon DEF X, k1, k2, k3, k, x1, x2, x3, Numbered, ChannelNumbers

LEMMA FlagsTaken ==
  ASSUME NEW D, NEW done \in Seq(D), NEW pv, NEW p, NEW E, NEW u \in Seq(E), NEW x, NEW down, NEW c \in Channels
  PROVE  TakesAll(InChannels("channel", pv, done, p, Append(u, x), down), ChannelFlags(c),
                  InChannels("channel", pv, done, p, Append(u, Flagged(x, c)), down))
<1> DEFINE X(y) == InChannels("channel", pv, done, p, Append(u, y), down)
           k1 == "enabled"
           k2 == "custom"
           k == "bool"
           x1 == SetKey(x, k1, c[k1])
           x2 == SetKey(x1, k2, c[k2])
<1>1. k1 \in ChannelBools /\ k2 \in ChannelBools
  BY DEF ChannelBools
<1>2. ASSUME NEW y, NEW key \in ChannelBools PROVE Takes(X(y), Member(key, Ev(k, c[key])), X(SetKey(y, key, c[key])))
  BY FlagTaken
<1> HIDE DEF X, k1, k2, k, x1, x2
<1>3. Takes(X(x), Member(k1, Ev(k, c[k1])), X(x1))
  BY <1>1, <1>2, Zenon DEF x1
<1>4. Takes(X(x1), Member(k2, Ev(k, c[k2])), X(x2))
  BY <1>1, <1>2, Zenon DEF x2
<1>5. TakesAll(X(x), Scalars(k, <<k1, k2>>, c), X(x2))
  BY <1>3, <1>4, ScalarsTwo
<1> QED
  BY <1>5, Zenon DEF X, k1, k2, k, x1, x2, Flagged, ChannelFlags

LEMMA WriteChannelIs ==
  ASSUME NEW c
  PROVE  WriteChannel(c) = Between("{", ChannelNumbers(c) \o ChannelFlags(c), "}")
BY DEF WriteChannel, Object, Between, ChannelNumbers, ChannelFlags

\* An uplink channel is read as it was written.
LEMMA UpElement ==
  ASSUME NEW D, NEW done \in Seq(D), NEW p, NEW E, NEW u \in Seq(E), NEW down, NEW c \in Channels
  PROVE  Takes(InChannels("up", "up", done, p, u, down), WriteChannel(c),
               InChannels("up", "up", done, p, Append(u, c), down))
<1> DEFINE X(y) == InChannels("channel", "up", done, p, Append(u, y), down)
           a == InChannels("up", "up", done, p, u, down)
           z == InChannels("up", "up", done, p, Append(u, c), down)
           s == ChannelNumbers(c)
           t == ChannelFlags(c)
<1>1. Takes(a, Ev("{", Blank), X(NewChannel))
  BY ChannelOpened, Zenon
<1>2. TakesAll(X(NewChannel), s, X(Numbered(NewChannel, c)))
  BY UpNumbersTaken, Zenon
<1>3. TakesAll(X(Numbered(NewChannel, c)), t, X(Flagged(Numbered(NewChannel, c), c)))
  BY FlagsTaken, Zenon
<1>4. Takes(X(c), Ev("}", Blank), z)
  BY ChannelClosed, Zenon
<1> HIDE DEF X, a, z, s, t
<1>5. TakesAll(X(Numbered(NewChannel, c)), t, X(c))
  BY <1>3, ChannelMade, Zenon
<1>6. TakesAll(X(NewChannel), s \o t, X(c))
  BY <1>2, <1>5, AllMore, Zenon
<1>7. Takes(a, Between("{", s \o t, "}"), z)
  BY <1>1, <1>4, <1>6, TakesBetween, Zenon
<1> QED
  BY <1>7, WriteChannelIs, Zenon DEF a, z, s, t

\* A downlink channel leaves its flags with the last uplink channel.
LEMMA DownElement ==
  ASSUME NEW D, NEW done \in Seq(D), NEW p, NEW E, NEW u \in Seq(E), NEW x,
         NEW F, NEW d \in Seq(F), NEW c \in Channels
  PROVE  Takes(InChannels("down", "down", done, p, Append(u, x), d), WriteChannel(c),
               InChannels("down", "down", done, p, Append(u, Flagged(x, c)), Append(d, Numbered(NewChannel, c))))
<1> DEFINE up == Append(u, x)
           uq == Append(u, Flagged(x, c))
           d1 == Append(d, NewChannel)
           d2 == Append(d, Numbered(NewChannel, c))
           X(a, b) == InChannels("channel", "down", done, p, a, b)
           a == InChannels("down", "down", done, p, up, d)
           z == InChannels("down", "down", done, p, uq, d2)
           s == ChannelNumbers(c)
           t == ChannelFlags(c)
<1>1. Takes(a, Ev("{", Blank), X(up, d1))
  BY ChannelOpened, Zenon
<1>2. TakesAll(X(up, d1), s, X(up, d2))
  BY DownNumbersTaken, Zenon
<1>3. TakesAll(X(up, d2), t, X(uq, d2))
  BY FlagsTaken, Zenon
<1>4. Takes(X(uq, d2), Ev("}", Blank), z)
  BY ChannelClosed, Zenon
<1> HIDE DEF X, a, z, s, t, up, uq, d1, d2
<1>5. TakesAll(X(up, d1), s \o t, X(uq, d2))
  BY <1>2, <1>3, AllMore, Zenon
<1>6. Takes(a, Between("{", s \o t, "}"), z)
  BY <1>1, <1>4, <1>5, TakesBetween, Zenon
<1> QED
  BY <1>6, WriteChannelIs, Zenon DEF a, z, s, t, up, uq, d2

(***************************************************************************)
(* A reader that has broken takes the rest of the file unchanged.          *)
(***************************************************************************)
Broken(st, pv, c, bs) == Crash(Hx(st, pv, c, bs))

LEMMA CrashStays ==
  ASSUME NEW st, NEW pv, NEW c, NEW bs, NEW es \in Seq(Events)
  PROVE  Takes(Broken(st, pv, c, bs), es, Broken(st, pv, c, bs))
<1> DEFINE y == Broken(st, pv, c, bs)
<1>1. ASSUME NEW k PROVE WithKey(y, k).result = "crash"
  BY DEF Broken, WithKey, Crash, Hx, Hd
<1> HIDE DEF y
<1>2. ASSUME NEW k PROVE ReadsTo(WithKey(y, k), es, WithKey(y, k))
  <2>1. WithKey(y, k).result # "ok"
    BY <1>1
  <2> QED
    BY <2>1, FailedStays
<1>3. Takes(y, es, y)
  BY <1>2, Zenon DEF Takes
<1> QED
  BY <1>3 DEF y

LEMMA CrashStaysAll ==
  ASSUME NEW st, NEW pv, NEW c, NEW bs, NEW ms \in Seq(Seq(Events))
  PROVE  TakesAll(Broken(st, pv, c, bs), ms, Broken(st, pv, c, bs))
<1> DEFINE y == Broken(st, pv, c, bs)
           n == Len(ms)
           hs == [i \in 0 .. n |-> y]
<1>1. \A es \in Seq(Events) : Takes(y, es, y)
  BY CrashStays
<1> HIDE DEF y
<1>2. n \in Nat /\ \A i \in 1 .. n : ms[i] \in Seq(Events)
  OBVIOUS
<1>3. hs[0] = y /\ hs[n] = y /\ \A i \in 1 .. n : hs[i] = y /\ hs[i - 1] = y
  BY <1>2
<1> HIDE DEF hs
<1>4. PieceRun(hs, y, ms, y)
  <2>1. ASSUME NEW i \in 1 .. n PROVE Takes(hs[i - 1], ms[i], hs[i])
    BY <1>1, <1>2, <1>3, Zenon
  <2> QED
    BY <1>3, <2>1, Zenon DEF PieceRun
<1>5. TakesAll(y, ms, y)
  BY <1>4, Zenon DEF TakesAll
<1> QED
  BY <1>5 DEF y

\* The first downlink channel of a plan without uplink channels.
InBreak(done, p, down) ==
  Broken("channel", "down", Cn(RbRateSize, 0, 0, 0, 0),
         Append(done, B(p.attr, p.rates, NewPlan.sizes, NewPlan.repeater, NewPlan.rx1, NewPlan.offsets, <<>>, down)))

LEMMA BreakStays ==
  ASSUME NEW done, NEW p, NEW down
  PROVE  /\ \A es \in Seq(Events) : Takes(InBreak(done, p, down), es, InBreak(done, p, down))
         /\ \A ms \in Seq(Seq(Events)) : TakesAll(InBreak(done, p, down), ms, InBreak(done, p, down))
BY CrashStays, CrashStaysAll, Zenon DEF InBreak

LEMMA DownBreaks ==
  ASSUME NEW D, NEW done \in Seq(D), NEW p, NEW F, NEW d \in Seq(F), NEW c \in Channels
  PROVE  Takes(InChannels("down", "down", done, p, <<>>, d), WriteChannel(c),
               InBreak(done, p, Append(d, Numbered(NewChannel, c))))
<1> DEFINE d1 == Append(d, NewChannel)
           d2 == Append(d, Numbered(NewChannel, c))
           X(b) == InChannels("channel", "down", done, p, <<>>, b)
           a == InChannels("down", "down", done, p, <<>>, d)
           z == InBreak(done, p, d2)
           s == ChannelNumbers(c)
           k1 == "enabled"
           k2 == "custom"
           k == "bool"
           t == Scalars(k, <<k1, k2>>, c)
<1>1. Takes(a, Ev("{", Blank), X(d1))
  BY ChannelOpened, Zenon
<1>2. TakesAll(X(d1), s, X(d2))
  BY DownNumbersTaken, Zenon
<1>3. k1 \in ChannelBools /\ k2 \in ChannelBools
  BY DEF ChannelBools
<1>4. ASSUME NEW key \in ChannelBools PROVE Takes(X(d2), Member(key, Ev(k, c[key])), z)
  BY FlagBreaks, Zenon DEF InBreak, Broken, InChannels
<1>5. \A es \in Seq(Events) : Takes(z, es, z)
  BY BreakStays, Zenon
<1>6. Ev("}", Blank) \in Seq(Events)
  BY ChannelClosed, Zenon DEF Takes
<1> HIDE DEF X, a, z, s, k1, k2, k, d1, d2
<1>7. Takes(X(d2), Member(k1, Ev(k, c[k1])), z)
  BY <1>3, <1>4, Zenon
<1>8. Takes(z, Member(k2, Ev(k, c[k2])), z)
  <2>1. Member(k2, Ev(k, c[k2])) \in Seq(Events)
    BY <1>3, <1>4, Zenon DEF Takes
  <2> QED
    BY <1>5, <2>1, Zenon
<1>9. TakesAll(X(d2), t, z)
  BY <1>7, <1>8, ScalarsTwo
<1> HIDE DEF t
<1>10. TakesAll(X(d1), s \o t, z)
  BY <1>2, <1>9, AllMore, Zenon
<1>11. Takes(z, Ev("}", Blank), z)
  BY <1>5, <1>6, Zenon
<1>12. Takes(a, Between("{", s \o t, "}"), z)
  BY <1>1, <1>10, <1>11, TakesBetween, Zenon
<1>13. t = ChannelFlags(c)
  BY Zenon DEF t, k, k1, k2, ChannelFlags
<1> QED
  BY <1>12, <1>13, WriteChannelIs, Zenon DEF a, z, s, d2

LEMMA PrefixSteps ==
  ASSUME NEW E, NEW s \in Seq(E)
  PROVE  /\ SubSeq(s, 1, 0) = <<>> /\ SubSeq(s, 1, Len(s)) = s
         /\ \A i \in 1 .. Len(s) : /\ SubSeq(s, 1, i - 1) \in Seq(E)
                                   /\ SubSeq(s, 1, i) = Append(SubSeq(s, 1, i - 1), s[i])
<1>1. SubSeq(s, 1, 0) = <<>>
  OBVIOUS
<1>2. SubSeq(s, 1, Len(s)) = s
  OBVIOUS
<1>3. ASSUME NEW i \in 1 .. Len(s)
      PROVE  SubSeq(s, 1, i - 1) \in Seq(E) /\ SubSeq(s, 1, i) = Append(SubSeq(s, 1, i - 1), s[i])
  <2> DEFINE a == SubSeq(s, 1, i - 1)
             b == SubSeq(s, 1, i)
             g == Append(a, s[i])
  <2>0. Len(s) \in Nat /\ s[i] \in E
    OBVIOUS
  <2>1. a \in Seq(E) /\ Len(a) = i - 1 /\ \A j \in 1 .. i - 1 : a[j] = s[j]
    OBVIOUS
  <2>2. b \in Seq(E) /\ Len(b) = i /\ \A j \in 1 .. i : b[j] = s[j]
    OBVIOUS
  <2> HIDE DEF a, b
  <2>3. g \in Seq(E) /\ Len(g) = i /\ g[i] = s[i] /\ \A j \in 1 .. i - 1 : g[j] = a[j]
    BY <2>0, <2>1, AppendProperties
  <2> HIDE DEF g
  <2>4. \A j \in 1 .. i : g[j] = b[j]
    <3>1. \A j \in 1 .. i : j = i \/ j \in 1 .. i - 1
      BY <2>0
    <3> QED
      BY <2>0, <2>1, <2>2, <2>3, <3>1
  <2>5. b = g
    BY <2>2, <2>3, <2>4
  <2> QED
    BY <2>1, <2>5 DEF a, b, g
<1> QED
  BY <1>1, <1>2, <1>3

LEMMA RatesEnd ==
  ASSUME NEW done, NEW pv, NEW p, p.rates \in Seq(Rates), Len(p.rates) = RbRateSize
  PROVE  InRates("band", pv, RbRateSize, done, p, RbRateSize + 1, {}) = InChannels("band", pv, done, p, <<>>, <<>>)
<1>1. IsRecord(NewRate, RateKeys)
  BY DEF IsRecord, RateKeys, NewRate
<1> DEFINE f == p.rates
<1>2. f = [j \in 1 .. RbRateSize |-> f[j]]
  OBVIOUS
<1> HIDE DEF f
<1>3. ArrayAt(f, RateKeys, NewRate, RbRateSize + 1, {}) = f
  BY <1>1, <1>2, ArrayEnds
<1>4. NewPlan.up = <<>> /\ NewPlan.down = <<>>
  BY DEF NewPlan
<1> QED
  BY <1>3, <1>4, Zenon DEF InRates, InChannels, f

\* The uplink channels of a plan.
LEMMA UpsTaken ==
  ASSUME NEW D, NEW done \in Seq(D), NEW pv, NEW p, p.up \in Seq(Channels)
  PROVE  Takes(InChannels("band", pv, done, p, <<>>, <<>>), Member("uplinkChannels", Each(WriteChannel, p.up)),
               InChannels("band", "up", done, p, p.up, <<>>))
<1> DEFINE f == p.up
           n == Len(f)
           X(i) == InChannels("up", "up", done, p, SubSeq(f, 1, i), <<>>)
           hs == [i \in 0 .. n |-> X(i)]
           m == [i \in 1 .. n |-> WriteChannel(f[i])]
           x == InChannels("band", pv, done, p, <<>>, <<>>)
           w == InChannels("band", "up", done, p, f, <<>>)
           key == "uplinkChannels"
<1>1. n \in Nat
  OBVIOUS
<1>2. key \in Arrays /\ ArrayState[key] = "up"
  BY DEF Arrays, ArrayState
<1> HIDE DEF key
<1>3. Takes(x, Member(key, Ev("[", Blank)), X(0))
  <2>1. \A c, bs : Takes(Hx("band", pv, c, bs), Member(key, Ev("[", Blank)), Hx("up", "up", c, bs))
    BY <1>2, ArrayOpened
  <2>2. SubSeq(f, 1, 0) = <<>>
    BY PrefixSteps, Zenon
  <2> QED
    BY <2>1, <2>2, Zenon DEF InChannels
<1>4. Takes(X(n), Ev("]", Blank), w)
  <2>1. \A c, bs : Takes(Hx("up", "up", c, bs), Ev("]", Blank), Hx("band", "up", c, bs))
    BY <1>2, ArrayClosed
  <2>2. SubSeq(f, 1, n) = f
    BY PrefixSteps, Zenon
  <2> QED
    BY <2>1, <2>2, Zenon DEF InChannels
<1>5. ASSUME NEW i \in 1 .. n PROVE Takes(hs[i - 1], m[i], hs[i])
  <2>1. i - 1 \in 0 .. n /\ i \in 0 .. n
    BY <1>1
  <2>2. f[i] \in Channels
    BY <1>1
  <2>3. SubSeq(f, 1, i - 1) \in Seq(Channels) /\ SubSeq(f, 1, i) = Append(SubSeq(f, 1, i - 1), f[i])
    BY PrefixSteps, Zenon
  <2>4. m[i] = WriteChannel(f[i])
    OBVIOUS
  <2>5. hs[i] = X(i) /\ hs[i - 1] = X(i - 1)
    <3> HIDE DEF X
    <3> QED
      BY <2>1
  <2> HIDE DEF hs, m, f
  <2>6. Takes(X(i - 1), WriteChannel(f[i]), X(i))
    BY <2>2, <2>3, UpElement, Zenon
  <2> HIDE DEF X
  <2> QED
    BY <2>4, <2>5, <2>6
<1>6. hs[0] = X(0) /\ hs[n] = X(n)
  <2> HIDE DEF X
  <2> QED
    BY <1>1
<1>7. Each(WriteChannel, f) = List(m) /\ m = [i \in 1 .. n |-> m[i]]
  BY DEF Each
<1> HIDE DEF n, f, X, hs, m, x, w
<1>8. Takes(x, Member(key, List([i \in 1 .. n |-> m[i]])), w)
  BY <1>1, <1>2, <1>3, <1>4, <1>5, <1>6, TakesListMember
<1>9. Takes(x, Member(key, Each(WriteChannel, f)), w)
  BY <1>7, <1>8, Zenon
<1> QED
  BY <1>9, Zenon DEF x, w, f, key

\* What is left of the downlink channels, and of the uplink channels after n of them.
DownBack(down) == [i \in 1 .. Len(down) |-> Numbered(NewChannel, down[i])]
LastFlagged(x, down, n) == IF n = 0 THEN x ELSE Flagged(x, down[n])

\* Of the flags that are written to one channel the last remain.
LEMMA FlaggedTwice ==
  ASSUME NEW x \in Channels, NEW c \in Channels, NEW d \in Channels
  PROVE  Flagged(x, c) \in Channels /\ Flagged(Flagged(x, c), d) = Flagged(x, d)
<1> DEFINE Same(a, b) == a.frequency = b.frequency /\ a.minDR = b.minDR /\ a.maxDR = b.maxDR
           Flags(a, b) == a.enabled = b.enabled /\ a.custom = b.custom
<1>1. ASSUME NEW y \in Channels, NEW e \in Channels
      PROVE  Flagged(y, e) \in Channels /\ Same(Flagged(y, e), y) /\ Flags(Flagged(y, e), e)
  BY DEF Flagged, SetKey, Channels
<1>2. ASSUME NEW y \in Channels, NEW e \in Channels, Same(y, e), Flags(y, e) PROVE y = e
  BY <1>2 DEF Channels
<1>3. Flagged(x, c) \in Channels
  BY <1>1, Zenon
<1> DEFINE a == Flagged(x, c)
           b == Flagged(a, d)
           e == Flagged(x, d)
<1>4. a \in Channels /\ Same(a, x)
  BY <1>1
<1>5. b \in Channels /\ Same(b, a) /\ Flags(b, d)
  BY <1>1, <1>3, Zenon
<1>6. e \in Channels /\ Same(e, x) /\ Flags(e, d)
  BY <1>1, Zenon
<1> HIDE DEF a, b, e
<1>7. Same(b, e) /\ Flags(b, e)
  BY <1>4, <1>5, <1>6
<1>8. b = e
  BY <1>2, <1>5, <1>6, <1>7, Zenon
<1> QED
  BY <1>4, <1>8, Zenon DEF a, b, e

\* The downlink channels of a plan that has uplink channels.
LEMMA DownsTaken ==
  ASSUME NEW D, NEW done \in Seq(D), NEW pv, NEW p, p.down \in Seq(Channels),
         NEW u \in Seq(Channels), NEW c \in Channels
  PROVE  Takes(InChannels("band", pv, done, p, Append(u, c), <<>>),
               Member("downlinkChannels", Each(WriteChannel, p.down)),
               InChannels("band", "down", done, p, Append(u, LastFlagged(c, p.down, Len(p.down))), DownBack(p.down)))
<1> DEFINE f == p.down
           n == Len(f)
           g == DownBack(f)
           L(i) == LastFlagged(c, f, i)
           X(i) == InChannels("down", "down", done, p, Append(u, L(i)), SubSeq(g, 1, i))
           hs == [i \in 0 .. n |-> X(i)]
           m == [i \in 1 .. n |-> WriteChannel(f[i])]
           x == InChannels("band", pv, done, p, Append(u, c), <<>>)
           w == InChannels("band", "down", done, p, Append(u, L(n)), g)
           key == "downlinkChannels"
           E == {Numbered(NewChannel, f[i]) : i \in 1 .. n}
<1>1. n \in Nat
  OBVIOUS
<1>2. key \in Arrays /\ ArrayState[key] = "down"
  BY DEF Arrays, ArrayState
<1> HIDE DEF key
<1>3. L(0) = c
  BY DEF LastFlagged
<1>4. g \in Seq(E) /\ Len(g) = n /\ \A i \in 1 .. n : g[i] = Numbered(NewChannel, f[i])
  BY DEF DownBack
<1> HIDE DEF g, E, L
<1>5. Takes(x, Member(key, Ev("[", Blank)), X(0))
  <2>1. \A b, bs : Takes(Hx("band", pv, b, bs), Member(key, Ev("[", Blank)), Hx("down", "down", b, bs))
    BY <1>2, ArrayOpened
  <2>2. SubSeq(g, 1, 0) = <<>>
    BY <1>4, PrefixSteps, Zenon
  <2> QED
    BY <1>3, <2>1, <2>2, Zenon DEF InChannels
<1>6. Takes(X(n), Ev("]", Blank), w)
  <2>1. \A b, bs : Takes(Hx("down", "down", b, bs), Ev("]", Blank), Hx("band", "down", b, bs))
    BY <1>2, ArrayClosed
  <2>2. SubSeq(g, 1, n) = g
    BY <1>4, PrefixSteps, Zenon
  <2> QED
    BY <2>1, <2>2, Zenon DEF InChannels
<1>7. ASSUME NEW i \in 1 .. n PROVE L(i) = Flagged(L(i - 1), f[i])
  <2>1. f[i] \in Channels
    BY <1>1
  <2>2. L(i) = Flagged(c, f[i])
    BY DEF L, LastFlagged
  <2>3. CASE i = 1
    BY <1>3, <2>2, <2>3
  <2>4. CASE i # 1
    <3>1. L(i - 1) = Flagged(c, f[i - 1]) /\ f[i - 1] \in Channels
      BY <1>1, <2>4 DEF L, LastFlagged
    <3> DEFINE e == f[i - 1]
    <3> HIDE DEF e
    <3>2. e \in Channels
      BY <3>1 DEF e
    <3>3. Flagged(Flagged(c, e), f[i]) = Flagged(c, f[i])
      BY <2>1, <3>2, FlaggedTwice, Zenon
    <3> QED
      BY <2>2, <3>1, <3>3, Zenon DEF e
  <2> QED
    BY <2>3, <2>4
<1>8. ASSUME NEW i \in 1 .. n PROVE Takes(hs[i - 1], m[i], hs[i])
  <2>1. i - 1 \in 0 .. n /\ i \in 0 .. n
    BY <1>1
  <2>2. f[i] \in Channels
    BY <1>1
  <2>3. SubSeq(g, 1, i - 1) \in Seq(E) /\ SubSeq(g, 1, i) = Append(SubSeq(g, 1, i - 1), Numbered(NewChannel, f[i]))
    <3>1. i \in 1 .. Len(g) /\ g[i] = Numbered(NewChannel, f[i])
      BY <1>4
    <3>2. /\ SubSeq(g, 1, i - 1) \in Seq(E)
          /\ SubSeq(g, 1, i) = Append(SubSeq(g, 1, i - 1), g[i])
      BY <1>4, <3>1, PrefixSteps, Zenon
    <3> QED
      BY <3>1, <3>2, Zenon
  <2>4. m[i] = WriteChannel(f[i])
    OBVIOUS
  <2>5. hs[i] = X(i) /\ hs[i - 1] = X(i - 1)
    <3> HIDE DEF X
    <3> QED
      BY <2>1
  <2> HIDE DEF hs, m, f
  <2>6. Takes(X(i - 1), WriteChannel(f[i]), X(i))
    BY <1>7, <2>2, <2>3, DownElement, Zenon
  <2> HIDE DEF X
  <2> QED
    BY <2>4, <2>5, <2>6
<1>9. hs[0] = X(0) /\ hs[n] = X(n)
  <2> HIDE DEF X
  <2> QED
    BY <1>1
<1>10. Each(WriteChannel, f) = List(m) /\ m = [i \in 1 .. n |-> m[i]]
  BY DEF Each
<1>11. w = InChannels("band", "down", done, p, Append(u, LastFlagged(c, p.down, Len(p.down))), DownBack(p.down))
  BY Zenon DEF L, g
<1> HIDE DEF n, f, X, hs, m, x, w
<1>12. Takes(x, Member(key, List([i \in 1 .. n |-> m[i]])), w)
  BY <1>1, <1>2, <1>5, <1>6, <1>8, <1>9, TakesListMember
<1>13. Takes(x, Member(key, Each(WriteChannel, f)), w)
  BY <1>10, <1>12, Zenon
<1> QED
  BY <1>11, <1>13, Zenon DEF x, f, key

\* The downlink channels of a plan without uplink channels break the reader.
LEMMA DownsNone ==
  ASSUME NEW D, NEW done \in Seq(D), NEW pv, NEW p, p.down \in Seq(Channels)
  PROVE  Takes(InChannels("band", pv, done, p, <<>>, <<>>),
               Member("downlinkChannels", Each(WriteChannel, p.down)),
               IF p.down = <<>> THEN InChannels("band", "down", done, p, <<>>, <<>>)
               ELSE InBreak(done, p, Append(<<>>, Numbered(NewChannel, p.down[1]))))
<1> DEFINE f == p.down
           n == Len(f)
           y == InChannels("down", "down", done, p, <<>>, <<>>)
           z == InBreak(done, p, Append(<<>>, Numbered(NewChannel, f[1])))
           hs == [i \in 0 .. n |-> IF i = 0 THEN y ELSE z]
           m == [i \in 1 .. n |-> WriteChannel(f[i])]
           x == InChannels("band", pv, done, p, <<>>, <<>>)
           v == InChannels("band", "down", done, p, <<>>, <<>>)
           w == IF f = <<>> THEN v ELSE z
           key == "downlinkChannels"
<1>1. n \in Nat /\ (f = <<>> <=> n = 0)
  OBVIOUS
<1>2. key \in Arrays /\ ArrayState[key] = "down"
  BY DEF Arrays, ArrayState
<1> HIDE DEF key
<1>3. Takes(x, Member(key, Ev("[", Blank)), y)
  <2>1. \A b, bs : Takes(Hx("band", pv, b, bs), Member(key, Ev("[", Blank)), Hx("down", "down", b, bs))
    BY <1>2, ArrayOpened
  <2> QED
    BY <2>1, Zenon DEF InChannels
<1>4. Takes(y, Ev("]", Blank), v)
  <2>1. \A b, bs : Takes(Hx("down", "down", b, bs), Ev("]", Blank), Hx("band", "down", b, bs))
    BY <1>2, ArrayClosed
  <2> QED
    BY <2>1, Zenon DEF InChannels
<1>5. ASSUME NEW i \in 1 .. n PROVE f[i] \in Channels /\ WriteChannel(f[i]) \in Seq(Events)
  <2>1. f[i] \in Channels
    BY <1>1
  <2>2. <<>> \in Seq(Channels)
    OBVIOUS
  <2>3. Takes(InChannels("up", "up", done, p, <<>>, <<>>), WriteChannel(f[i]),
              InChannels("up", "up", done, p, Append(<<>>, f[i]), <<>>))
    BY <2>1, <2>2, UpElement, Zenon
  <2> QED
    BY <2>1, <2>3, Zenon DEF Takes
<1>6. \A es \in Seq(Events) : Takes(z, es, z)
  BY BreakStays, Zenon
<1>7. n # 0 => Takes(y, WriteChannel(f[1]), z)
  <2>1. SUFFICES ASSUME n # 0 PROVE Takes(y, WriteChannel(f[1]), z)
    OBVIOUS
  <2>2. 1 \in 1 .. n
    BY <1>1, <2>1
  <2>3. f[1] \in Channels
    BY <1>5, <2>2, Zenon
  <2>4. <<>> \in Seq(Channels)
    OBVIOUS
  <2> QED
    BY <2>3, <2>4, DownBreaks, Zenon
<1>8. hs[0] = y /\ \A i \in 1 .. n : hs[i] = z
  <2> HIDE DEF y, z
  <2> QED
    BY <1>1
<1>9. ASSUME NEW i \in 1 .. n PROVE m[i] = WriteChannel(f[i])
  OBVIOUS
<1>10. Each(WriteChannel, f) = List(m) /\ m = [i \in 1 .. n |-> m[i]]
  BY DEF Each
<1>11. Ev("]", Blank) \in Seq(Events)
  BY <1>4, Zenon DEF Takes
<1> HIDE DEF n, f, hs, m, x, y, z, v
<1>12. ASSUME NEW i \in 1 .. n PROVE Takes(hs[i - 1], m[i], hs[i])
  <2>1. CASE i = 1
    <3>1. i - 1 = 0 /\ n # 0
      BY <1>1, <2>1
    <3> QED
      BY <1>7, <1>8, <1>9, <2>1, <3>1
  <2>2. CASE i # 1
    <3>1. i - 1 \in 1 .. n
      BY <1>1, <2>2
    <3>2. Takes(z, WriteChannel(f[i]), z)
      BY <1>5, <1>6, Zenon
    <3> QED
      BY <1>8, <1>9, <3>1, <3>2
  <2> QED
    BY <2>1, <2>2
<1>13. Takes(hs[n], Ev("]", Blank), w)
  <2>1. CASE n = 0
    BY <1>1, <1>4, <1>8, <2>1
  <2>2. CASE n # 0
    <3>1. hs[n] = z
      BY <1>1, <1>8, <2>2
    <3>2. Takes(z, Ev("]", Blank), z)
      BY <1>6, <1>11, Zenon
    <3> QED
      BY <1>1, <2>2, <3>1, <3>2
  <2> QED
    BY <2>1, <2>2
<1>14. Takes(x, Member(key, Ev("[", Blank)), hs[0])
  BY <1>3, <1>8, Zenon
<1> HIDE DEF w
<1>15. Takes(x, Member(key, List([i \in 1 .. n |-> m[i]])), w)
  BY <1>1, <1>2, <1>12, <1>13, <1>14, TakesListMember
<1>16. Takes(x, Member(key, Each(WriteChannel, f)), w)
  BY <1>10, <1>15, Zenon
<1> QED
  BY <1>16, Zenon DEF x, w, v, z, f, key

Bad(p) == p.up = <<>> /\ p.down # <<>>
UpBack(p) ==
  IF p.up = <<>> THEN <<>>
  ELSE Append(SubSeq(p.up, 1, Len(p.up) - 1), LastFlagged(p.up[Len(p.up)], p.down, Len(p.down)))
FirstDown(p) == Append(<<>>, Numbered(NewChannel, p.down[1]))

\* The downlink channels of a plan.
LEMMA DownsAll ==
  ASSUME NEW D, NEW done \in Seq(D), NEW pv, NEW p, p.up \in Seq(Channels), p.down \in Seq(Channels)
  PROVE  Takes(InChannels("band", pv, done, p, p.up, <<>>),
               Member("downlinkChannels", Each(WriteChannel, p.down)),
               IF Bad(p) THEN InBreak(done, p, FirstDown(p))
               ELSE InChannels("band", "down", done, p, UpBack(p), DownBack(p.down)))
<1>1. CASE p.up = <<>>
  <2>1. UpBack(p) = <<>>
    BY <1>1 DEF UpBack
  <2>2. p.down = <<>> => DownBack(p.down) = <<>>
    BY DEF DownBack
  <2>3. Bad(p) <=> p.down # <<>>
    BY <1>1 DEF Bad
  <2> QED
    BY <1>1, <2>1, <2>2, <2>3, DownsNone, Zenon DEF FirstDown
<1>2. CASE p.up # <<>>
  <2> DEFINE f == p.up
             n == Len(f)
             u == SubSeq(f, 1, n - 1)
             c == f[n]
  <2>1. n \in 1 .. n /\ c \in Channels
    BY <1>2
  <2>2. u \in Seq(Channels) /\ SubSeq(f, 1, n) = Append(u, c) /\ SubSeq(f, 1, n) = f
    BY <2>1, PrefixSteps, Zenon
  <2>3. f = Append(u, c)
    BY <2>2, Zenon
  <2>4. UpBack(p) = Append(u, LastFlagged(c, p.down, Len(p.down)))
    BY <1>2 DEF UpBack
  <2>5. ~Bad(p)
    BY <1>2 DEF Bad
  <2>6. p.up = f
    OBVIOUS
  <2> HIDE DEF f, n, u, c
  <2>7. Takes(InChannels("band", pv, done, p, Append(u, c), <<>>),
               Member("downlinkChannels", Each(WriteChannel, p.down)),
               InChannels("band", "down", done, p, Append(u, LastFlagged(c, p.down, Len(p.down))), DownBack(p.down)))
    BY <2>1, <2>2, DownsTaken, Zenon
  <2> QED
    BY <2>3, <2>4, <2>5, <2>6, <2>7, Zenon
<1> QED
  BY <1>1, <1>2

(***************************************************************************)
(* The payload sizes and those behind a repeater.                          *)
(***************************************************************************)
NoSize == [m |-> 0, n |-> 0]
SizeCount(n) == Cn(RbRateSize, n, 0, 0, 0)
SizeBand(p, up, down, i, K) ==
  B(p.attr, p.rates, ArrayAt(p.sizes, SizeInts, NoSize, i, K), NewPlan.repeater, NewPlan.rx1, NewPlan.offsets, up, down)
InSizes(st, done, p, up, down, n, i, K) == Hx(st, "down", SizeCount(n), Append(done, SizeBand(p, up, down, i, K)))

LEMMA SizeSet ==
  ASSUME NEW D, NEW done \in Seq(D), NEW key \in SizeInts, NEW pv, NEW c, NEW i \in 1 .. RbRateSize, NEW v,
         c.sizes = i - 1,
         NEW attr, NEW rates, NEW sizes, NEW repeater, NEW rx1, NEW offsets, NEW up, NEW down
  PROVE  SetSize(Hd("sizes[]", key, pv, c,
                    Append(done, B(attr, rates, sizes, repeater, rx1, offsets, up, down))), v)
         = Hd("sizes[]", key, pv, c,
              Append(done, B(attr, rates, SetIn(sizes, i, key, Cast(key, v)),
                             repeater, rx1, offsets, up, down)))
<1> DEFINE st == "sizes[]"
           b == B(attr, rates, sizes, repeater, rx1, offsets, up, down)
           f == SetIn(sizes, i, key, Cast(key, v))
           g == B(attr, rates, f, repeater, rx1, offsets, up, down)
           bs == Append(done, b)
           n == Len(done) + 1
           h == Hd(st, key, pv, c, bs)
<1>1. Last1(h) = n /\ h.key = key /\ h.sizes = i - 1 /\ h.bands = bs /\ h.state = st
  BY LastBand DEF Last1, Hd
<1>2. InBand(h) /\ ~(h.sizes >= RbRateSize) /\ h.sizes + 1 = i
  <2>1. bs # <<>>
    <3> HIDE DEF b
    <3> QED
      BY LastBand
  <2>2. RbRateSize \in Nat
    BY RbAssumption
  <2> HIDE DEF h
  <2> QED
    BY <1>1, <2>1, <2>2 DEF InBand
<1>3. SetSize(h, v) = [h EXCEPT !.bands = [bs EXCEPT ![n] = [bs[n] EXCEPT !.sizes =
                          [bs[n].sizes EXCEPT ![i] = [bs[n].sizes[i] EXCEPT ![key] = Cast(key, v)]]]]]
  <2> HIDE DEF h, bs
  <2> QED
    BY <1>1, <1>2 DEF SetSize
<1>4. bs[n] = b /\ [bs EXCEPT ![n] = g] = Append(done, g)
  <2> HIDE DEF g, b
  <2> QED
    BY LastBand
<1>5. [b EXCEPT !.sizes = [b.sizes EXCEPT ![i] = [b.sizes[i] EXCEPT ![key] = Cast(key, v)]]] = g
  BY DEF B, SetIn
<1>6. SetSize(h, v) = SetBands(h, Append(done, g))
  <2> HIDE DEF g, b, bs, h, n
  <2> QED
    BY <1>3, <1>4, <1>5 DEF SetBands
<1>7. SetBands(h, Append(done, g)) = Hd(st, key, pv, c, Append(done, g))
  <2> HIDE DEF g, b, bs
  <2> QED
    BY BandsSet
<1> QED
  BY <1>6, <1>7

LEMMA SizeTaken ==
  ASSUME NEW D, NEW done \in Seq(D), NEW p, NEW u, NEW d, NEW i \in 1 .. RbRateSize, NEW K,
         NEW r \in Sizes, p.sizes[i] = r, NEW key \in SizeInts
  PROVE  Takes(InSizes("sizes[]", done, p, u, d, i - 1, i, K), Member(key, Ev("int", r[key])),
               InSizes("sizes[]", done, p, u, d, i - 1, i, K \cup {key}))
<1> DEFINE v == r[key]
           c == SizeCount(i - 1)
           bs == Append(done, SizeBand(p, u, d, i, K))
           h == Hd("sizes[]", key, "down", c, bs)
           e == [ev |-> "int", v |-> v]
<1>1. key \in Attributes /\ "int" \in Kinds
  BY DEF Attributes, Kinds
<1>2. Cast(key, v) = v /\ v \in Values
  <2>1. v \in 0 .. 255
    BY DEF SizeInts, Sizes
  <2>2. key \in {"id", "m", "n"}
    BY DEF SizeInts
  <2> HIDE DEF v
  <2>3. v % 256 = v
    BY <2>1
  <2>4. Cast(key, v) = v
    BY <2>2, <2>3, Zenon DEF Cast
  <2>5. v \in Int
    BY <2>1
  <2> QED
    BY <2>4, <2>5, Zenon DEF Values
<1>3. h.state = "sizes[]" /\ c.sizes = i - 1
  BY DEF Hd, SizeCount, Cn
<1>4. e.ev = "int" /\ e.v = v
  OBVIOUS
<1> HIDE DEF h, e, v, c
<1>5. Handle(h, e) = SetSize(h, v)
  BY <1>3, <1>4 DEF Handle, Integer
<1>6. SetIn(ArrayAt(p.sizes, SizeInts, NoSize, i, K), i, key, Cast(key, v))
      = ArrayAt(p.sizes, SizeInts, NoSize, i, K \cup {key})
  <2> DEFINE f == p.sizes
             m == Cast(key, v)
  <2>1. m = f[i][key]
    BY <1>2, Zenon DEF v
  <2> HIDE DEF f, m
  <2>2. key \in SizeInts /\ i \in 1 .. RbRateSize
    OBVIOUS
  <2>3. SetIn(ArrayAt(f, SizeInts, NoSize, i, K), i, key, m) = ArrayAt(f, SizeInts, NoSize, i, K \cup {key})
    BY <2>1, <2>2, ArraySet, SMTT(30)
  <2> QED
    BY <2>3 DEF f, m
<1>7. SetSize(h, v) = Hd("sizes[]", key, "down", c, Append(done, SizeBand(p, u, d, i, K \cup {key})))
  BY <1>3, <1>6, SizeSet DEF SizeBand, h
<1>8. Handle(h, e) = WithKey(InSizes("sizes[]", done, p, u, d, i - 1, i, K \cup {key}), key)
  <2> DEFINE cs == Append(done, SizeBand(p, u, d, i, K \cup {key}))
  <2> HIDE DEF cs, c
  <2>1. WithKey(Hx("sizes[]", "down", c, cs), key) = Hd("sizes[]", key, "down", c, cs)
    BY DEF WithKey, Hx, Hd
  <2> QED
    BY <1>5, <1>7, <2>1, Zenon DEF InSizes, c, cs
<1> QED
  BY <1>1, <1>2, <1>8, TakesMember DEF InSizes, h, e, v, c

LEMMA SizeElement ==
  ASSUME NEW D, NEW done \in Seq(D), NEW p, NEW u, NEW d, NEW i \in 1 .. RbRateSize,
         NEW r \in Sizes, p.sizes[i] = r
  PROVE  Takes(InSizes("sizes", done, p, u, d, i - 1, i, {}), WriteSize(r),
               InSizes("sizes", done, p, u, d, i, i + 1, {}))
<1> DEFINE X(K) == InSizes("sizes[]", done, p, u, d, i - 1, i, K)
           x == InSizes("sizes", done, p, u, d, i - 1, i, {})
           w == InSizes("sizes", done, p, u, d, i, i + 1, {})
           k1 == "m"
           k2 == "n"
           k == "int"
           s == Scalars(k, <<k1, k2>>, r)
<1>1. i \in Nat /\ i - 1 + 1 = i
  BY RbAssumption
<1>2. Takes(x, Ev("{", Blank), X({}))
  <2>1. ASSUME NEW l, NEW c, NEW bs
        PROVE  StartObject(Hd("sizes", l, "down", c, bs)) = Hd("sizes[]", l, "down", c, bs)
    BY DEF StartObject, Hd
  <2> QED
    BY <2>1, ObjectOpens DEF InSizes
<1>3. Takes(X(SizeInts), Ev("}", Blank), w)
  <2>1. ASSUME NEW l, NEW n, NEW bs, n + 1 = i
        PROVE  EndObject(Hd("sizes[]", l, "down", SizeCount(n), bs)) = Hd("sizes", l, "down", SizeCount(i), bs)
    BY <2>1 DEF EndObject, Hd, Cn, SizeCount
  <2>2. IsRecord(r, SizeInts) /\ IsRecord(NoSize, SizeInts)
    BY DEF IsRecord, Sizes, SizeInts, NoSize
  <2>3. ArrayAt(p.sizes, SizeInts, NoSize, i, SizeInts) = ArrayAt(p.sizes, SizeInts, NoSize, i + 1, {})
    BY <2>2, ArrayNext
  <2>4. SizeBand(p, u, d, i, SizeInts) = SizeBand(p, u, d, i + 1, {})
    BY <2>3, Zenon DEF SizeBand
  <2> QED
    BY <1>1, <2>1, <2>4, ObjectCloses DEF InSizes
<1>4. k1 \in SizeInts /\ k2 \in SizeInts /\ {} \cup {k1} \cup {k2} = SizeInts
  BY DEF SizeInts
<1>5. WriteSize(r) = Between("{", s, "}")
  BY DEF WriteSize, Object, Between
<1>6. ASSUME NEW K, NEW key \in SizeInts PROVE Takes(X(K), Member(key, Ev(k, r[key])), X(K \cup {key}))
  BY SizeTaken
<1> HIDE DEF X, x, w, k1, k2, k
<1>7. Takes(X({}), Member(k1, Ev(k, r[k1])), X({} \cup {k1}))
  BY <1>4, <1>6, Zenon
<1>8. Takes(X({} \cup {k1}), Member(k2, Ev(k, r[k2])), X(SizeInts))
  BY <1>4, <1>6, Zenon
<1>9. TakesAll(X({}), s, X(SizeInts))
  BY <1>7, <1>8, ScalarsTwo
<1> HIDE DEF s
<1>10. Takes(x, Between("{", s, "}"), w)
  BY <1>2, <1>3, <1>9, TakesBetween, Zenon
<1> QED
  BY <1>5, <1>10, Zenon DEF x, w

\* The payload sizes of a plan.
LEMMA SizesTaken ==
  ASSUME NEW D, NEW done \in Seq(D), NEW p, NEW u, NEW d, p.sizes \in Seq(Sizes), Len(p.sizes) = RbRateSize
  PROVE  Takes(InSizes("band", done, p, u, d, 0, 0 + 1, {}),
               Member("maxPayloadSizePerDataRate", Each(WriteSize, p.sizes)),
               InSizes("band", done, p, u, d, RbRateSize, RbRateSize + 1, {}))
<1> DEFINE N == RbRateSize
           f == p.sizes
           X(i) == InSizes("sizes", done, p, u, d, i, i + 1, {})
           hs == [i \in 0 .. N |-> X(i)]
           m == [i \in 1 .. N |-> WriteSize(f[i])]
           x == InSizes("band", done, p, u, d, 0, 0 + 1, {})
           w == InSizes("band", done, p, u, d, N, N + 1, {})
           key == "maxPayloadSizePerDataRate"
<1>1. N \in Nat
  BY RbAssumption
<1>2. key \in Arrays /\ ArrayState[key] = "sizes" /\ "sizes" \notin {"up", "down"}
  BY DEF Arrays, ArrayState
<1> HIDE DEF key
<1>3. Takes(x, Member(key, Ev("[", Blank)), X(0))
  <2>1. \A c, bs : Takes(Hx("band", "down", c, bs), Member(key, Ev("[", Blank)), Hx("sizes", "down", c, bs))
    BY <1>2, ArrayOpened
  <2> QED
    BY <2>1, Zenon DEF InSizes
<1>4. Takes(X(N), Ev("]", Blank), w)
  <2>1. \A c, bs : Takes(Hx("sizes", "down", c, bs), Ev("]", Blank), Hx("band", "down", c, bs))
    BY <1>2, ArrayClosed
  <2> QED
    BY <2>1, Zenon DEF InSizes
<1>5. ASSUME NEW i \in 1 .. N PROVE Takes(hs[i - 1], m[i], hs[i])
  <2>1. i - 1 \in 0 .. N /\ i \in 0 .. N /\ i - 1 + 1 = i
    BY <1>1
  <2>2. f[i] \in Sizes
    BY <1>1
  <2>3. Takes(InSizes("sizes", done, p, u, d, i - 1, i, {}), WriteSize(f[i]), X(i))
    BY <2>2, SizeElement
  <2>4. m[i] = WriteSize(f[i])
    OBVIOUS
  <2>5. hs[i] = X(i) /\ hs[i - 1] = X(i - 1)
    <3> HIDE DEF X
    <3> QED
      BY <2>1
  <2> HIDE DEF hs, m, f
  <2> QED
    BY <2>1, <2>3, <2>4, <2>5
<1>6. hs[0] = X(0) /\ hs[N] = X(N)
  <2> HIDE DEF X
  <2> QED
    BY <1>1
<1>7. Each(WriteSize, f) = List(m) /\ m = [i \in 1 .. N |-> m[i]]
  BY DEF Each
<1> HIDE DEF N, f, X, hs, m, x, w
<1>8. Takes(x, Member(key, List([i \in 1 .. N |-> m[i]])), w)
  BY <1>1, <1>2, <1>3, <1>4, <1>5, <1>6, TakesListMember
<1>9. Takes(x, Member(key, Each(WriteSize, f)), w)
  BY <1>7, <1>8, Zenon
<1> QED
  BY <1>9, Zenon DEF x, w, f, N, key

RepeaterCount(n) == Cn(RbRateSize, RbRateSize, n, 0, 0)
RepeaterBand(p, up, down, i, K) ==
  B(p.attr, p.rates, p.sizes, ArrayAt(p.repeater, SizeInts, NoSize, i, K), NewPlan.rx1, NewPlan.offsets, up, down)
InRepeater(st, done, p, up, down, n, i, K) ==
  Hx(st, "down", RepeaterCount(n), Append(done, RepeaterBand(p, up, down, i, K)))

LEMMA RepeaterSet ==
  ASSUME NEW D, NEW done \in Seq(D), NEW key \in SizeInts, NEW pv, NEW c, NEW i \in 1 .. RbRateSize, NEW v,
         c.repeater = i - 1,
         NEW attr, NEW rates, NEW sizes, NEW repeater, NEW rx1, NEW offsets, NEW up, NEW down
  PROVE  SetSize(Hd("repeater[]", key, pv, c,
                    Append(done, B(attr, rates, sizes, repeater, rx1, offsets, up, down))), v)
         = Hd("repeater[]", key, pv, c,
              Append(done, B(attr, rates, sizes,
                             SetIn(repeater, i, key, Cast(key, v)), rx1, offsets, up, down)))
<1> DEFINE st == "repeater[]"
           b == B(attr, rates, sizes, repeater, rx1, offsets, up, down)
           f == SetIn(repeater, i, key, Cast(key, v))
           g == B(attr, rates, sizes, f, rx1, offsets, up, down)
           bs == Append(done, b)
           n == Len(done) + 1
           h == Hd(st, key, pv, c, bs)
<1>1. Last1(h) = n /\ h.key = key /\ h.repeater = i - 1 /\ h.bands = bs /\ h.state = st
  BY LastBand DEF Last1, Hd
<1>2. InBand(h) /\ ~(h.repeater >= RbRateSize) /\ h.repeater + 1 = i
  <2>1. bs # <<>>
    <3> HIDE DEF b
    <3> QED
      BY LastBand
  <2>2. RbRateSize \in Nat
    BY RbAssumption
  <2> HIDE DEF h
  <2> QED
    BY <1>1, <2>1, <2>2 DEF InBand
<1>3. SetSize(h, v) = [h EXCEPT !.bands = [bs EXCEPT ![n] = [bs[n] EXCEPT !.repeater =
                          [bs[n].repeater EXCEPT ![i] = [bs[n].repeater[i] EXCEPT ![key] = Cast(key, v)]]]]]
  <2> HIDE DEF h, bs
  <2> QED
    BY <1>1, <1>2 DEF SetSize
<1>4. bs[n] = b /\ [bs EXCEPT ![n] = g] = Append(done, g)
  <2> HIDE DEF g, b
  <2> QED
    BY LastBand
<1>5. [b EXCEPT !.repeater = [b.repeater EXCEPT ![i] = [b.repeater[i] EXCEPT ![key] = Cast(key, v)]]] = g
  BY DEF B, SetIn
<1>6. SetSize(h, v) = SetBands(h, Append(done, g))
  <2> HIDE DEF g, b, bs, h, n
  <2> QED
    BY <1>3, <1>4, <1>5 DEF SetBands
<1>7. SetBands(h, Append(done, g)) = Hd(st, key, pv, c, Append(done, g))
  <2> HIDE DEF g, b, bs
  <2> QED
    BY BandsSet
<1> QED
  BY <1>6, <1>7

LEMMA RepeaterTaken ==
  ASSUME NEW D, NEW done \in Seq(D), NEW p, NEW u, NEW d, NEW i \in 1 .. RbRateSize, NEW K,
         NEW r \in Sizes, p.repeater[i] = r, NEW key \in SizeInts
  PROVE  Takes(InRepeater("repeater[]", done, p, u, d, i - 1, i, K), Member(key, Ev("int", r[key])),
               InRepeater("repeater[]", done, p, u, d, i - 1, i, K \cup {key}))
<1> DEFINE v == r[key]
           c == RepeaterCount(i - 1)
           bs == Append(done, RepeaterBand(p, u, d, i, K))
           h == Hd("repeater[]", key, "down", c, bs)
           e == [ev |-> "int", v |-> v]
<1>1. key \in Attributes /\ "int" \in Kinds
  BY DEF Attributes, Kinds
<1>2. Cast(key, v) = v /\ v \in Values
  <2>1. v \in 0 .. 255
    BY DEF SizeInts, Sizes
  <2>2. key \in {"id", "m", "n"}
    BY DEF SizeInts
  <2> HIDE DEF v
  <2>3. v % 256 = v
    BY <2>1
  <2>4. Cast(key, v) = v
    BY <2>2, <2>3, Zenon DEF Cast
  <2>5. v \in Int
    BY <2>1
  <2> QED
    BY <2>4, <2>5, Zenon DEF Values
<1>3. h.state = "repeater[]" /\ c.repeater = i - 1
  BY DEF Hd, RepeaterCount, Cn
<1>4. e.ev = "int" /\ e.v = v
  OBVIOUS
<1> HIDE DEF h, e, v, c
<1>5. Handle(h, e) = SetSize(h, v)
  BY <1>3, <1>4 DEF Handle, Integer
<1>6. SetIn(ArrayAt(p.repeater, SizeInts, NoSize, i, K), i, key, Cast(key, v))
      = ArrayAt(p.repeater, SizeInts, NoSize, i, K \cup {key})
  <2> DEFINE f == p.repeater
             m == Cast(key, v)
  <2>1. m = f[i][key]
    BY <1>2, Zenon DEF v
  <2> HIDE DEF f, m
  <2>2. key \in SizeInts /\ i \in 1 .. RbRateSize
    OBVIOUS
  <2>3. SetIn(ArrayAt(f, SizeInts, NoSize, i, K), i, key, m) = ArrayAt(f, SizeInts, NoSize, i, K \cup {key})
    BY <2>1, <2>2, ArraySet, SMTT(30)
  <2> QED
    BY <2>3 DEF f, m
<1>7. SetSize(h, v) = Hd("repeater[]", key, "down", c, Append(done, RepeaterBand(p, u, d, i, K \cup {key})))
  BY <1>3, <1>6, RepeaterSet DEF RepeaterBand, h
<1>8. Handle(h, e) = WithKey(InRepeater("repeater[]", done, p, u, d, i - 1, i, K \cup {key}), key)
  <2> DEFINE cs == Append(done, RepeaterBand(p, u, d, i, K \cup {key}))
  <2> HIDE DEF cs, c
  <2>1. WithKey(Hx("repeater[]", "down", c, cs), key) = Hd("repeater[]", key, "down", c, cs)
    BY DEF WithKey, Hx, Hd
  <2> QED
    BY <1>5, <1>7, <2>1, Zenon DEF InRepeater, c, cs
<1> QED
  BY <1>1, <1>2, <1>8, TakesMember DEF InRepeater, h, e, v, c

LEMMA RepeaterElement ==
  ASSUME NEW D, NEW done \in Seq(D), NEW p, NEW u, NEW d, NEW i \in 1 .. RbRateSize,
         NEW r \in Sizes, p.repeater[i] = r
  PROVE  Takes(InRepeater("repeater", done, p, u, d, i - 1, i, {}), WriteSize(r),
               InRepeater("repeater", done, p, u, d, i, i + 1, {}))
<1> DEFINE X(K) == InRepeater("repeater[]", done, p, u, d, i - 1, i, K)
           x == InRepeater("repeater", done, p, u, d, i - 1, i, {})
           w == InRepeater("repeater", done, p, u, d, i, i + 1, {})
           k1 == "m"
           k2 == "n"
           k == "int"
           s == Scalars(k, <<k1, k2>>, r)
<1>1. i \in Nat /\ i - 1 + 1 = i
  BY RbAssumption
<1>2. Takes(x, Ev("{", Blank), X({}))
  <2>1. ASSUME NEW l, NEW c, NEW bs
        PROVE  StartObject(Hd("repeater", l, "down", c, bs)) = Hd("repeater[]", l, "down", c, bs)
    BY DEF StartObject, Hd
  <2> QED
    BY <2>1, ObjectOpens DEF InRepeater
<1>3. Takes(X(SizeInts), Ev("}", Blank), w)
  <2>1. ASSUME NEW l, NEW n, NEW bs, n + 1 = i
        PROVE  EndObject(Hd("repeater[]", l, "down", RepeaterCount(n), bs)) = Hd("repeater", l, "down", RepeaterCount(i), bs)
    BY <2>1 DEF EndObject, Hd, Cn, RepeaterCount
  <2>2. IsRecord(r, SizeInts) /\ IsRecord(NoSize, SizeInts)
    BY DEF IsRecord, Sizes, SizeInts, NoSize
  <2>3. ArrayAt(p.repeater, SizeInts, NoSize, i, SizeInts) = ArrayAt(p.repeater, SizeInts, NoSize, i + 1, {})
    BY <2>2, ArrayNext
  <2>4. RepeaterBand(p, u, d, i, SizeInts) = RepeaterBand(p, u, d, i + 1, {})
    BY <2>3, Zenon DEF RepeaterBand
  <2> QED
    BY <1>1, <2>1, <2>4, ObjectCloses DEF InRepeater
<1>4. k1 \in SizeInts /\ k2 \in SizeInts /\ {} \cup {k1} \cup {k2} = SizeInts
  BY DEF SizeInts
<1>5. WriteSize(r) = Between("{", s, "}")
  BY DEF WriteSize, Object, Between
<1>6. ASSUME NEW K, NEW key \in SizeInts PROVE Takes(X(K), Member(key, Ev(k, r[key])), X(K \cup {key}))
  BY RepeaterTaken
<1> HIDE DEF X, x, w, k1, k2, k
<1>7. Takes(X({}), Member(k1, Ev(k, r[k1])), X({} \cup {k1}))
  BY <1>4, <1>6, Zenon
<1>8. Takes(X({} \cup {k1}), Member(k2, Ev(k, r[k2])), X(SizeInts))
  BY <1>4, <1>6, Zenon
<1>9. TakesAll(X({}), s, X(SizeInts))
  BY <1>7, <1>8, ScalarsTwo
<1> HIDE DEF s
<1>10. Takes(x, Between("{", s, "}"), w)
  BY <1>2, <1>3, <1>9, TakesBetween, Zenon
<1> QED
  BY <1>5, <1>10, Zenon DEF x, w

\* The payload sizes behind a repeater.
LEMMA RepeatersTaken ==
  ASSUME NEW D, NEW done \in Seq(D), NEW p, NEW u, NEW d, p.repeater \in Seq(Sizes), Len(p.repeater) = RbRateSize
  PROVE  Takes(InRepeater("band", done, p, u, d, 0, 0 + 1, {}),
               Member("maxPayloadSizePerDataRateRepeater", Each(WriteSize, p.repeater)),
               InRepeater("band", done, p, u, d, RbRateSize, RbRateSize + 1, {}))
<1> DEFINE N == RbRateSize
           f == p.repeater
           X(i) == InRepeater("repeater", done, p, u, d, i, i + 1, {})
           hs == [i \in 0 .. N |-> X(i)]
           m == [i \in 1 .. N |-> WriteSize(f[i])]
           x == InRepeater("band", done, p, u, d, 0, 0 + 1, {})
           w == InRepeater("band", done, p, u, d, N, N + 1, {})
           key == "maxPayloadSizePerDataRateRepeater"
<1>1. N \in Nat
  BY RbAssumption
<1>2. key \in Arrays /\ ArrayState[key] = "repeater" /\ "repeater" \notin {"up", "down"}
  BY DEF Arrays, ArrayState
<1> HIDE DEF key
<1>3. Takes(x, Member(key, Ev("[", Blank)), X(0))
  <2>1. \A c, bs : Takes(Hx("band", "down", c, bs), Member(key, Ev("[", Blank)), Hx("repeater", "down", c, bs))
    BY <1>2, ArrayOpened
  <2> QED
    BY <2>1, Zenon DEF InRepeater
<1>4. Takes(X(N), Ev("]", Blank), w)
  <2>1. \A c, bs : Takes(Hx("repeater", "down", c, bs), Ev("]", Blank), Hx("band", "down", c, bs))
    BY <1>2, ArrayClosed
  <2> QED
    BY <2>1, Zenon DEF InRepeater
<1>5. ASSUME NEW i \in 1 .. N PROVE Takes(hs[i - 1], m[i], hs[i])
  <2>1. i - 1 \in 0 .. N /\ i \in 0 .. N /\ i - 1 + 1 = i
    BY <1>1
  <2>2. f[i] \in Sizes
    BY <1>1
  <2>3. Takes(InRepeater("repeater", done, p, u, d, i - 1, i, {}), WriteSize(f[i]), X(i))
    BY <2>2, RepeaterElement
  <2>4. m[i] = WriteSize(f[i])
    OBVIOUS
  <2>5. hs[i] = X(i) /\ hs[i - 1] = X(i - 1)
    <3> HIDE DEF X
    <3> QED
      BY <2>1
  <2> HIDE DEF hs, m, f
  <2> QED
    BY <2>1, <2>3, <2>4, <2>5
<1>6. hs[0] = X(0) /\ hs[N] = X(N)
  <2> HIDE DEF X
  <2> QED
    BY <1>1
<1>7. Each(WriteSize, f) = List(m) /\ m = [i \in 1 .. N |-> m[i]]
  BY DEF Each
<1> HIDE DEF N, f, X, hs, m, x, w
<1>8. Takes(x, Member(key, List([i \in 1 .. N |-> m[i]])), w)
  BY <1>1, <1>2, <1>3, <1>4, <1>5, <1>6, TakesListMember
<1>9. Takes(x, Member(key, Each(WriteSize, f)), w)
  BY <1>7, <1>8, Zenon
<1> QED
  BY <1>9, Zenon DEF x, w, f, N, key

(***************************************************************************)
(* The offsets: a list of lists, and a list.                               *)
(***************************************************************************)
LEMMA ListOpens ==
  ASSUME NEW st, NEW pv, NEW c, NEW bs, NEW st2, NEW c2, NEW bs2,
         \A k : StartArray(Hd(st, k, pv, c, bs)) = Hd(st2, k, pv, c2, bs2)
  PROVE  Takes(Hx(st, pv, c, bs), Ev("[", Blank), Hx(st2, pv, c2, bs2))
<1> DEFINE e == [ev |-> "[", v |-> Blank]
<1>1. ASSUME NEW k PROVE Handle(Hd(st, k, pv, c, bs), e) = WithKey(Hx(st2, pv, c2, bs2), k)
  <2>1. Handle(Hd(st, k, pv, c, bs), e) = StartArray(Hd(st, k, pv, c, bs))
    BY DEF Handle
  <2>2. WithKey(Hx(st2, pv, c2, bs2), k) = Hd(st2, k, pv, c2, bs2)
    BY DEF WithKey, Hx, Hd
  <2> QED
    BY <2>1, <2>2, Zenon
<1>2. e \in Events /\ Ev("[", Blank) = <<e>>
  BY BracketEvents
<1> HIDE DEF e
<1> QED
  BY <1>1, <1>2, TakesEvent

LEMMA ListCloses ==
  ASSUME NEW st, NEW pv, NEW c, NEW bs, NEW st2, NEW c2, NEW bs2,
         \A k : EndArray(Hd(st, k, pv, c, bs)) = Hd(st2, k, pv, c2, bs2)
  PROVE  Takes(Hx(st, pv, c, bs), Ev("]", Blank), Hx(st2, pv, c2, bs2))
<1> DEFINE e == [ev |-> "]", v |-> Blank]
<1>1. ASSUME NEW k PROVE Handle(Hd(st, k, pv, c, bs), e) = WithKey(Hx(st2, pv, c2, bs2), k)
  <2>1. Handle(Hd(st, k, pv, c, bs), e) = EndArray(Hd(st, k, pv, c, bs))
    BY DEF Handle
  <2>2. WithKey(Hx(st2, pv, c2, bs2), k) = Hd(st2, k, pv, c2, bs2)
    BY DEF WithKey, Hx, Hd
  <2> QED
    BY <2>1, <2>2, Zenon
<1>2. e \in Events /\ Ev("]", Blank) = <<e>>
  BY BracketEvents
<1> HIDE DEF e
<1> QED
  BY <1>1, <1>2, TakesEvent

LEMMA IntTaken ==
  ASSUME NEW st, NEW pv, NEW c, NEW bs, NEW c2, NEW bs2, NEW v \in Int,
         \A k : Integer(Hd(st, k, pv, c, bs), v) = Hd(st, k, pv, c2, bs2)
  PROVE  Takes(Hx(st, pv, c, bs), WriteInt(v), Hx(st, pv, c2, bs2))
<1> DEFINE e == [ev |-> "int", v |-> v]
<1>1. ASSUME NEW k PROVE Handle(Hd(st, k, pv, c, bs), e) = WithKey(Hx(st, pv, c2, bs2), k)
  <2>1. Handle(Hd(st, k, pv, c, bs), e) = Integer(Hd(st, k, pv, c, bs), v)
    BY DEF Handle
  <2> QED
    BY <2>1, KeyOf
<1>2. "int" \in Kinds /\ v \in Values
  BY DEF Kinds, Values
<1>3. e \in Events /\ Ev("int", v) = <<e>>
  BY <1>2, EventIs
<1> HIDE DEF e
<1> QED
  BY <1>1, <1>3, TakesEvent DEF WriteInt

SetAt(s, i, a) == [s EXCEPT ![i] = a]
Grown(s, i, a) == SetAt(s, i, Append(s[i], a))
Rx1At(f, i, k) == [j \in 1 .. RbRateSize |-> IF j < i THEN f[j] ELSE IF j = i THEN SubSeq(f[j], 1, k) ELSE <<>>]
Rx1Count(n) == Cn(RbRateSize, RbRateSize, RbRateSize, n, 0)
Rx1Band(p, up, down, i, k) ==
  B(p.attr, p.rates, p.sizes, p.repeater, Rx1At(p.rx1, i, k), NewPlan.offsets, up, down)
InRx1(st, done, p, up, down, n, i, k) == Hx(st, "down", Rx1Count(n), Append(done, Rx1Band(p, up, down, i, k)))

LEMMA Rx1Put ==
  ASSUME NEW D, NEW done \in Seq(D), NEW key, NEW pv, NEW c, NEW i \in 1 .. RbRateSize, NEW v,
         c.rx1 = i - 1, NEW m, m = v % 256,
         NEW attr, NEW rates, NEW sizes, NEW repeater, NEW rx1, NEW offsets, NEW up, NEW down
  PROVE  Integer(Hd("rx1[]", key, pv, c,
                    Append(done, B(attr, rates, sizes, repeater, rx1, offsets, up, down))), v)
         = Hd("rx1[]", key, pv, c,
              Append(done, B(attr, rates, sizes, repeater, Grown(rx1, i, m), offsets, up, down)))
<1> DEFINE st == "rx1[]"
           b == B(attr, rates, sizes, repeater, rx1, offsets, up, down)
           f == Grown(rx1, i, m)
           g == B(attr, rates, sizes, repeater, f, offsets, up, down)
           bs == Append(done, b)
           n == Len(done) + 1
           h == Hd(st, key, pv, c, bs)
<1>1. Last1(h) = n /\ h.rx1 = i - 1 /\ h.bands = bs /\ h.state = st
  BY LastBand DEF Last1, Hd
<1>2. InBand(h) /\ ~(h.rx1 >= RbRateSize) /\ h.rx1 + 1 = i
  <2>1. bs # <<>>
    <3> HIDE DEF b
    <3> QED
      BY LastBand
  <2>2. RbRateSize \in Nat
    BY RbAssumption
  <2> HIDE DEF h
  <2> QED
    BY <1>1, <2>1, <2>2 DEF InBand
<1>3. bs[n] = b /\ [bs EXCEPT ![n] = g] = Append(done, g)
  <2> HIDE DEF g, b
  <2> QED
    BY LastBand
<1>4. b.rx1 = rx1 /\ [b EXCEPT !.rx1 = f] = g
  <2> HIDE DEF f
  <2> QED
    BY DEF B
<1>5. Integer(h, v) = [h EXCEPT !.bands = [bs EXCEPT ![n] = [bs[n] EXCEPT !.rx1 =
                          [bs[n].rx1 EXCEPT ![i] = Append(bs[n].rx1[i], v % 256)]]]]
  <2> HIDE DEF h, bs, n
  <2>1. Integer(h, v) = [h EXCEPT !.bands[Last1(h)].rx1[h.rx1 + 1] = Append(@, v % 256)]
    BY <1>1, <1>2 DEF Integer
  <2> QED
    BY <1>1, <1>2, <2>1
<1>6. [bs[n] EXCEPT !.rx1 = [bs[n].rx1 EXCEPT ![i] = Append(bs[n].rx1[i], v % 256)]] = g
  <2>1. bs[n].rx1 = rx1
    BY <1>3, <1>4, Zenon
  <2>2. [bs[n].rx1 EXCEPT ![i] = Append(bs[n].rx1[i], v % 256)] = f
    BY <2>1, Zenon DEF SetAt, Grown
  <2> HIDE DEF g, f, bs, b
  <2> QED
    BY <1>3, <1>4, <2>2, Zenon
<1>7. Integer(h, v) = SetBands(h, Append(done, g))
  <2> HIDE DEF g, b, bs, h, n, f
  <2> QED
    BY <1>3, <1>5, <1>6, Zenon DEF SetBands
<1>8. SetBands(h, Append(done, g)) = Hd(st, key, pv, c, Append(done, g))
  <2> HIDE DEF g, b, bs
  <2> QED
    BY BandsSet
<1> QED
  BY <1>7, <1>8

LEMMA Rx1Grows ==
  ASSUME NEW f, NEW E, NEW i \in 1 .. RbRateSize, f[i] \in Seq(E)
  PROVE  /\ \A k \in 1 .. Len(f[i]) :
              Grown(Rx1At(f, i, k - 1), i, f[i][k]) = Rx1At(f, i, k)
         /\ Rx1At(f, i, Len(f[i])) = Rx1At(f, i + 1, 0)
<1>1. RbRateSize \in Nat
  BY RbAssumption
<1>2. ASSUME NEW k \in 1 .. Len(f[i])
      PROVE  Grown(Rx1At(f, i, k - 1), i, f[i][k]) = Rx1At(f, i, k)
  <2> DEFINE a == Rx1At(f, i, k - 1)
             b == Rx1At(f, i, k)
             N == 1 .. RbRateSize
             q == Append(a[i], f[i][k])
  <2>1. a[i] = SubSeq(f[i], 1, k - 1) /\ b[i] = SubSeq(f[i], 1, k)
    BY <1>1 DEF Rx1At
  <2>2. b[i] = q
    <3>1. SubSeq(f[i], 1, k) = Append(SubSeq(f[i], 1, k - 1), f[i][k])
      BY PrefixSteps, Zenon
    <3> QED
      BY <2>1, <3>1, Zenon
  <2>3. a = [j \in N |-> a[j]] /\ b = [j \in N |-> b[j]] /\ i \in N
    BY DEF Rx1At
  <2>4. \A j \in N : j # i => a[j] = b[j]
    BY <1>1 DEF Rx1At
  <2> HIDE DEF a, b, N, q
  <2>5. [a EXCEPT ![i] = q] = b
    BY <2>2, <2>3, <2>4
  <2> QED
    BY <2>5, Zenon DEF SetAt, Grown, a, b, q
<1>3. Rx1At(f, i, Len(f[i])) = Rx1At(f, i + 1, 0)
  <2> DEFINE lhs(j) == IF j < i THEN f[j] ELSE IF j = i THEN SubSeq(f[j], 1, Len(f[i])) ELSE <<>>
             rhs(j) == IF j < i + 1 THEN f[j] ELSE IF j = i + 1 THEN SubSeq(f[j], 1, 0) ELSE <<>>
  <2>1. SubSeq(f[i], 1, Len(f[i])) = f[i]
    BY PrefixSteps, Zenon
  <2>2. \A s : SubSeq(s, 1, 0) = <<>>
    OBVIOUS
  <2>3. ASSUME NEW j \in 1 .. RbRateSize PROVE lhs(j) = rhs(j)
    <3>1. CASE j < i
      BY <1>1, <3>1
    <3>2. CASE j = i
      <4>1. ~(j < i) /\ j < i + 1
        BY <1>1, <3>2
      <4> QED
        BY <2>1, <3>2, <4>1, Zenon
    <3>3. CASE j = i + 1
      <4>1. ~(j < i) /\ j # i /\ ~(j < i + 1)
        BY <1>1, <3>3
      <4> QED
        BY <2>2, <3>3, <4>1, Zenon
    <3>4. CASE j > i + 1
      <4>1. ~(j < i) /\ j # i /\ ~(j < i + 1) /\ j # i + 1
        BY <1>1, <3>4
      <4> QED
        BY <4>1, Zenon
    <3> QED
      BY <1>1, <3>1, <3>2, <3>3, <3>4
  <2>4. [j \in 1 .. RbRateSize |-> lhs(j)] = [j \in 1 .. RbRateSize |-> rhs(j)]
    <3> HIDE DEF lhs, rhs
    <3> QED
      BY <2>3
  <2> QED
    BY <2>4 DEF Rx1At
<1> QED
  BY <1>2, <1>3

LEMMA Rx1Ends ==
  ASSUME NEW f
  PROVE  /\ Rx1At(f, 0 + 1, 0) = [j \in 1 .. RbRateSize |-> <<>>]
         /\ f = [j \in 1 .. RbRateSize |-> f[j]] => Rx1At(f, RbRateSize + 1, 0) = f
<1>1. RbRateSize \in Nat
  BY RbAssumption
<1>2. \A s : SubSeq(s, 1, 0) = <<>>
  OBVIOUS
<1>3. Rx1At(f, 0 + 1, 0) = [j \in 1 .. RbRateSize |-> <<>>]
  BY <1>1, <1>2 DEF Rx1At
<1>4. Rx1At(f, RbRateSize + 1, 0) = [j \in 1 .. RbRateSize |-> f[j]]
  BY <1>1 DEF Rx1At
<1> QED
  BY <1>3, <1>4, Zenon

\* A list of elements that is not the value of a key.
LEMMA TakesList ==
  ASSUME NEW x, NEW w, NEW n \in Nat, NEW m, NEW hs,
         Takes(x, Ev("[", Blank), hs[0]),
         \A i \in 1 .. n : Takes(hs[i - 1], m[i], hs[i]),
         Takes(hs[n], Ev("]", Blank), w)
  PROVE  Takes(x, List([i \in 1 .. n |-> m[i]]), w)
<1> DEFINE items == [i \in 1 .. n |-> m[i]]
<1>1. TakesAll(hs[0], items, hs[n])
  BY PieceAll
<1> HIDE DEF items
<1>2. Takes(x, Between("[", items, "]"), w)
  BY <1>1, TakesBetween
<1> QED
  BY <1>2 DEF Between, List, items

LEMMA ByteCast ==
  ASSUME NEW v \in 0 .. 255
  PROVE  v % 256 = v /\ v \in Int
OBVIOUS

LEMMA ElementOf ==
  ASSUME NEW E, NEW s \in Seq(E), NEW k \in 1 .. Len(s)
  PROVE  s[k] \in E
OBVIOUS

\* The offsets of one data rate.
LEMMA Rx1Element ==
  ASSUME NEW D, NEW done \in Seq(D), NEW p, NEW u, NEW d, NEW i \in 1 .. RbRateSize,
         NEW f, p.rx1 = f, f[i] \in Seq(0 .. 255)
  PROVE  Takes(InRx1("rx1", done, p, u, d, i - 1, i, 0), WriteInts(f[i]),
               InRx1("rx1", done, p, u, d, i, i + 1, 0))
<1> DEFINE s == f[i]
           n == Len(s)
           X(k) == InRx1("rx1[]", done, p, u, d, i - 1, i, k)
           hs == [k \in 0 .. n |-> X(k)]
           m == [k \in 1 .. n |-> WriteInt(s[k])]
           x == InRx1("rx1", done, p, u, d, i - 1, i, 0)
           w == InRx1("rx1", done, p, u, d, i, i + 1, 0)
<1>1. n \in Nat /\ i \in Nat /\ i - 1 + 1 = i
  BY RbAssumption
<1>2. Takes(x, Ev("[", Blank), X(0))
  <2>1. ASSUME NEW l, NEW c, NEW bs
        PROVE  StartArray(Hd("rx1", l, "down", c, bs)) = Hd("rx1[]", l, "down", c, bs)
    BY DEF StartArray, Hd
  <2> QED
    BY <2>1, ListOpens DEF InRx1
<1>3. Takes(X(n), Ev("]", Blank), w)
  <2>1. ASSUME NEW l, NEW k, NEW bs, k + 1 = i
        PROVE  EndArray(Hd("rx1[]", l, "down", Rx1Count(k), bs)) = Hd("rx1", l, "down", Rx1Count(i), bs)
    <3> DEFINE h == Hd("rx1[]", l, "down", Rx1Count(k), bs)
    <3>1. h.state = "rx1[]" /\ h.rx1 = k
      BY DEF Hd, Rx1Count, Cn
    <3>2. "rx1[]" \notin {ArrayState[a] : a \in Arrays}
      BY DEF ArrayState, Arrays
    <3>3. [h EXCEPT !.state = "rx1", !.rx1 = i] = Hd("rx1", l, "down", Rx1Count(i), bs)
      <4>1. [h EXCEPT !.state = "rx1"] = Hd("rx1", l, "down", Rx1Count(k), bs)
        BY DEF Hd
      <4>2. [Hd("rx1", l, "down", Rx1Count(k), bs) EXCEPT !.rx1 = i] = Hd("rx1", l, "down", Rx1Count(i), bs)
        BY DEF Hd, Rx1Count, Cn
      <4> HIDE DEF h
      <4> QED
        BY <4>1, <4>2, Zenon
    <3> HIDE DEF h
    <3>4. EndArray(h) = [h EXCEPT !.state = "rx1", !.rx1 = @ + 1]
      BY <3>1, <3>2 DEF EndArray
    <3> QED
      BY <2>1, <3>1, <3>3, <3>4 DEF h
  <2>2. Rx1At(p.rx1, i, n) = Rx1At(p.rx1, i + 1, 0)
    BY Rx1Grows, Zenon
  <2>3. Rx1Band(p, u, d, i, n) = Rx1Band(p, u, d, i + 1, 0)
    BY <2>2, Zenon DEF Rx1Band
  <2> HIDE DEF n
  <2> QED
    BY <1>1, <2>1, <2>3, ListCloses DEF InRx1
<1>4. ASSUME NEW k \in 1 .. n PROVE Takes(X(k - 1), WriteInt(s[k]), X(k))
  <2> DEFINE v == s[k]
             a == Rx1At(f, i, k - 1)
             b == Grown(a, i, v)
             c == Rx1Count(i - 1)
  <2>1. v \in 0 .. 255
    BY ElementOf, Zenon
  <2>2. v % 256 = v /\ v \in Int
    BY <2>1, ByteCast, Zenon
  <2>3. b = Rx1At(f, i, k)
    BY Rx1Grows, Zenon
  <2>4. c.rx1 = i - 1
    BY DEF Rx1Count, Cn
  <2> HIDE DEF v, a, c
  <2>5. ASSUME NEW l
        PROVE  Integer(Hd("rx1[]", l, "down", c, Append(done, B(p.attr, p.rates, p.sizes, p.repeater, a, NewPlan.offsets, u, d))), v)
               = Hd("rx1[]", l, "down", c, Append(done, B(p.attr, p.rates, p.sizes, p.repeater, b, NewPlan.offsets, u, d)))
    <3>1. v = v % 256
      BY <2>2
    <3> DEFINE z == v % 256
    <3> HIDE DEF z
    <3>2. z = v % 256 /\ b = Grown(a, i, z)
      BY <3>1, Zenon DEF z
    <3> HIDE DEF b
    <3> QED
      BY <2>4, <3>2, Rx1Put
  <2> HIDE DEF b
  <2>6. Takes(Hx("rx1[]", "down", c, Append(done, B(p.attr, p.rates, p.sizes, p.repeater, a, NewPlan.offsets, u, d))), WriteInt(v),
              Hx("rx1[]", "down", c, Append(done, B(p.attr, p.rates, p.sizes, p.repeater, b, NewPlan.offsets, u, d))))
    BY <2>2, <2>5, IntTaken
  <2> QED
    BY <2>3, <2>6, Zenon DEF InRx1, Rx1Band, v, a, c
<1>5. ASSUME NEW k \in 1 .. n PROVE Takes(hs[k - 1], m[k], hs[k])
  <2>1. k - 1 \in 0 .. n /\ k \in 0 .. n
    BY <1>1
  <2>2. m[k] = WriteInt(s[k])
    OBVIOUS
  <2>3. hs[k] = X(k) /\ hs[k - 1] = X(k - 1)
    <3> HIDE DEF X, n
    <3> QED
      BY <2>1
  <2> HIDE DEF hs, m, X, s
  <2> QED
    BY <1>4, <2>2, <2>3
<1>6. hs[0] = X(0) /\ hs[n] = X(n)
  <2> HIDE DEF X
  <2> QED
    BY <1>1
<1>7. WriteInts(s) = List(m) /\ m = [k \in 1 .. n |-> m[k]]
  BY DEF WriteInts, Each
<1> HIDE DEF n, s, X, hs, m, x, w
<1>8. Takes(x, List([k \in 1 .. n |-> m[k]]), w)
  BY <1>1, <1>2, <1>3, <1>5, <1>6, TakesList
<1>9. Takes(x, WriteInts(s), w)
  BY <1>7, <1>8, Zenon
<1> QED
  BY <1>9, Zenon DEF x, w, s

\* The offsets of all data rates.
LEMMA Rx1Taken ==
  ASSUME NEW D, NEW done \in Seq(D), NEW p, NEW u, NEW d, p.rx1 \in Seq(Seq(0 .. 255)), Len(p.rx1) = RbRateSize
  PROVE  Takes(InRx1("band", done, p, u, d, 0, 0 + 1, 0),
               Member("rx1DataRateOffsets", Each(WriteInts, p.rx1)),
               InRx1("band", done, p, u, d, RbRateSize, RbRateSize + 1, 0))
<1> DEFINE N == RbRateSize
           f == p.rx1
           X(i) == InRx1("rx1", done, p, u, d, i, i + 1, 0)
           hs == [i \in 0 .. N |-> X(i)]
           m == [i \in 1 .. N |-> WriteInts(f[i])]
           x == InRx1("band", done, p, u, d, 0, 0 + 1, 0)
           w == InRx1("band", done, p, u, d, N, N + 1, 0)
           key == "rx1DataRateOffsets"
<1>1. N \in Nat
  BY RbAssumption
<1>2. key \in Arrays /\ ArrayState[key] = "rx1" /\ "rx1" \notin {"up", "down"}
  BY DEF Arrays, ArrayState
<1> HIDE DEF key
<1>3. Takes(x, Member(key, Ev("[", Blank)), X(0))
  <2>1. \A c, bs : Takes(Hx("band", "down", c, bs), Member(key, Ev("[", Blank)), Hx("rx1", "down", c, bs))
    BY <1>2, ArrayOpened
  <2> QED
    BY <2>1, Zenon DEF InRx1
<1>4. Takes(X(N), Ev("]", Blank), w)
  <2>1. \A c, bs : Takes(Hx("rx1", "down", c, bs), Ev("]", Blank), Hx("band", "down", c, bs))
    BY <1>2, ArrayClosed
  <2> QED
    BY <2>1, Zenon DEF InRx1
<1>5. ASSUME NEW i \in 1 .. N PROVE Takes(hs[i - 1], m[i], hs[i])
  <2>1. i - 1 \in 0 .. N /\ i \in 0 .. N /\ i - 1 + 1 = i
    BY <1>1
  <2>2. f[i] \in Seq(0 .. 255)
    BY <1>1
  <2>3. Takes(InRx1("rx1", done, p, u, d, i - 1, i, 0), WriteInts(f[i]), X(i))
    BY <2>2, Rx1Element, Zenon
  <2>4. m[i] = WriteInts(f[i])
    OBVIOUS
  <2>5. hs[i] = X(i) /\ hs[i - 1] = X(i - 1)
    <3> HIDE DEF X
    <3> QED
      BY <2>1
  <2> HIDE DEF hs, m, f
  <2> QED
    BY <2>1, <2>3, <2>4, <2>5
<1>6. hs[0] = X(0) /\ hs[N] = X(N)
  <2> HIDE DEF X
  <2> QED
    BY <1>1
<1>7. Each(WriteInts, f) = List(m) /\ m = [i \in 1 .. N |-> m[i]]
  BY DEF Each
<1> HIDE DEF N, f, X, hs, m, x, w
<1>8. Takes(x, Member(key, List([i \in 1 .. N |-> m[i]])), w)
  BY <1>1, <1>2, <1>3, <1>4, <1>5, <1>6, TakesListMember
<1>9. Takes(x, Member(key, Each(WriteInts, f)), w)
  BY <1>7, <1>8, Zenon
<1> QED
  BY <1>9, Zenon DEF x, w, f, N, key

OffsetCount(n) == Cn(RbRateSize, RbRateSize, RbRateSize, RbRateSize, n)
OffsetBand(p, up, down, k) ==
  B(p.attr, p.rates, p.sizes, p.repeater, p.rx1, SubSeq(p.offsets, 1, k), up, down)
InOffsets(st, done, p, up, down, k) == Hx(st, "down", OffsetCount(k), Append(done, OffsetBand(p, up, down, k)))

LEMMA OffsetPut ==
  ASSUME NEW D, NEW done \in Seq(D), NEW key, NEW pv, NEW i \in 1 .. RbOffsetMax, NEW v,
         NEW attr, NEW rates, NEW sizes, NEW repeater, NEW rx1, NEW offsets, NEW up, NEW down
  PROVE  Integer(Hd("offsets", key, pv, OffsetCount(i - 1),
                    Append(done, B(attr, rates, sizes, repeater, rx1, offsets, up, down))), v)
         = Hd("offsets", key, pv, OffsetCount(i),
              Append(done, B(attr, rates, sizes, repeater, rx1, Append(offsets, Int8(v)), up, down)))
<1> DEFINE st == "offsets"
           b == B(attr, rates, sizes, repeater, rx1, offsets, up, down)
           f == Append(offsets, Int8(v))
           g == B(attr, rates, sizes, repeater, rx1, f, up, down)
           bs == Append(done, b)
           n == Len(done) + 1
           c == OffsetCount(i - 1)
           h == Hd(st, key, pv, c, bs)
<1>1. Last1(h) = n /\ h.offsets = i - 1 /\ h.bands = bs /\ h.state = st
  BY LastBand DEF Last1, Hd, OffsetCount, Cn
<1>2. InBand(h) /\ ~(h.offsets >= RbOffsetMax) /\ h.offsets + 1 = i
  <2>1. bs # <<>>
    <3> HIDE DEF b
    <3> QED
      BY LastBand
  <2>2. RbOffsetMax \in Nat
    BY RbAssumption
  <2> HIDE DEF h
  <2> QED
    BY <1>1, <2>1, <2>2 DEF InBand
<1>3. bs[n] = b /\ [bs EXCEPT ![n] = g] = Append(done, g)
  <2> HIDE DEF g, b
  <2> QED
    BY LastBand
<1>4. b.offsets = offsets /\ [b EXCEPT !.offsets = f] = g
  <2> HIDE DEF f
  <2> QED
    BY DEF B
<1>5. Integer(h, v) = [h EXCEPT !.bands = [bs EXCEPT ![n] = [bs[n] EXCEPT !.offsets = Append(bs[n].offsets, Int8(v))]], !.offsets = i]
  <2> HIDE DEF h, bs, n
  <2>1. Integer(h, v) = [h EXCEPT !.bands[Last1(h)].offsets = Append(@, Int8(v)), !.offsets = @ + 1]
    BY <1>1, <1>2 DEF Integer
  <2> QED
    BY <1>1, <1>2, <2>1
<1>6. [bs[n] EXCEPT !.offsets = Append(bs[n].offsets, Int8(v))] = g
  <2>1. Append(bs[n].offsets, Int8(v)) = f
    BY <1>3, <1>4, Zenon
  <2> HIDE DEF g, f, bs, b
  <2> QED
    BY <1>3, <1>4, <2>1, Zenon
<1> DEFINE q == Append(done, g)
<1>7. Integer(h, v) = [h EXCEPT !.bands = q, !.offsets = i]
  <2> HIDE DEF g, b, bs, h, n, f
  <2> QED
    BY <1>3, <1>5, <1>6, Zenon
<1>8. [h EXCEPT !.bands = q, !.offsets = i] = Hd(st, key, pv, OffsetCount(i), q)
  <2> HIDE DEF q
  <2>1. SetBands(h, q) = Hd(st, key, pv, c, q)
    <3> HIDE DEF bs, c
    <3> QED
      BY BandsSet
  <2>2. [Hd(st, key, pv, c, q) EXCEPT !.offsets = i] = Hd(st, key, pv, OffsetCount(i), q)
    BY DEF Hd, OffsetCount, Cn
  <2> HIDE DEF h, c
  <2> QED
    BY <2>1, <2>2, Zenon DEF SetBands
<1> QED
  BY <1>7, <1>8, Zenon

\* The power offsets, of which there are no more than the reader takes.
LEMMA OffsetsTaken ==
  ASSUME NEW D, NEW done \in Seq(D), NEW p, NEW u, NEW d, p.offsets \in Seq(-128 .. 127), Len(p.offsets) <= RbOffsetMax
  PROVE  Takes(InOffsets("band", done, p, u, d, 0), Member("txPowerOffsets", WriteInts(p.offsets)),
               InOffsets("band", done, p, u, d, Len(p.offsets)))
<1> DEFINE f == p.offsets
           n == Len(f)
           X(k) == InOffsets("offsets", done, p, u, d, k)
           hs == [k \in 0 .. n |-> X(k)]
           m == [k \in 1 .. n |-> WriteInt(f[k])]
           x == InOffsets("band", done, p, u, d, 0)
           w == InOffsets("band", done, p, u, d, n)
           key == "txPowerOffsets"
<1>1. n \in Nat /\ RbOffsetMax \in Nat
  BY RbAssumption
<1>2. key \in Arrays /\ ArrayState[key] = "offsets" /\ "offsets" \notin {"up", "down"}
  BY DEF Arrays, ArrayState
<1> HIDE DEF key
<1>3. Takes(x, Member(key, Ev("[", Blank)), X(0))
  <2>1. \A c, bs : Takes(Hx("band", "down", c, bs), Member(key, Ev("[", Blank)), Hx("offsets", "down", c, bs))
    BY <1>2, ArrayOpened
  <2> QED
    BY <2>1, Zenon DEF InOffsets
<1>4. Takes(X(n), Ev("]", Blank), w)
  <2>1. \A c, bs : Takes(Hx("offsets", "down", c, bs), Ev("]", Blank), Hx("band", "down", c, bs))
    BY <1>2, ArrayClosed
  <2> QED
    BY <2>1, Zenon DEF InOffsets
<1>5. ASSUME NEW k \in 1 .. n PROVE Takes(X(k - 1), WriteInt(f[k]), X(k))
  <2> DEFINE v == f[k]
             a == SubSeq(f, 1, k - 1)
             b == Append(a, v)
  <2>1. v \in Int /\ -128 <= v /\ v <= 127 /\ k \in 1 .. RbOffsetMax
    <3>1. f \in Seq(-128 .. 127) /\ k \in 1 .. Len(f)
      OBVIOUS
    <3>2. \A T : f \in Seq(T) => f[k] \in T
      BY <3>1
    <3>3. v \in -128 .. 127
      BY <3>1, <3>2, Zenon
    <3> HIDE DEF v, f
    <3>4. v \in Int /\ -128 <= v /\ v <= 127
      BY <3>3
    <3>5. k \in 1 .. RbOffsetMax
      BY <1>1 DEF f
    <3> QED
      BY <3>4, <3>5
  <2>2. b = SubSeq(f, 1, k)
    BY PrefixSteps, Zenon
  <2> HIDE DEF v, a
  <2>5. Int8(v) = v
    BY <2>1 DEF Int8
  <2>3. ASSUME NEW l
        PROVE  Integer(Hd("offsets", l, "down", OffsetCount(k - 1),
                          Append(done, B(p.attr, p.rates, p.sizes, p.repeater, p.rx1, a, u, d))), v)
               = Hd("offsets", l, "down", OffsetCount(k),
                    Append(done, B(p.attr, p.rates, p.sizes, p.repeater, p.rx1, b, u, d)))
    BY <2>1, <2>5, OffsetPut
  <2> HIDE DEF b
  <2>4. Takes(Hx("offsets", "down", OffsetCount(k - 1), Append(done, B(p.attr, p.rates, p.sizes, p.repeater, p.rx1, a, u, d))),
              WriteInt(v),
              Hx("offsets", "down", OffsetCount(k), Append(done, B(p.attr, p.rates, p.sizes, p.repeater, p.rx1, b, u, d))))
    BY <2>1, <2>3, IntTaken
  <2> QED
    BY <2>2, <2>4, Zenon DEF InOffsets, OffsetBand, v, a
<1>6. ASSUME NEW k \in 1 .. n PROVE Takes(hs[k - 1], m[k], hs[k])
  <2>1. k - 1 \in 0 .. n /\ k \in 0 .. n
    BY <1>1
  <2>2. m[k] = WriteInt(f[k])
    OBVIOUS
  <2>3. hs[k] = X(k) /\ hs[k - 1] = X(k - 1)
    <3> HIDE DEF X, n
    <3> QED
      BY <2>1
  <2> HIDE DEF hs, m, X, f
  <2> QED
    BY <1>5, <2>2, <2>3
<1>7. hs[0] = X(0) /\ hs[n] = X(n)
  <2> HIDE DEF X
  <2> QED
    BY <1>1
<1>8. WriteInts(f) = List(m) /\ m = [k \in 1 .. n |-> m[k]]
  BY DEF WriteInts, Each
<1> HIDE DEF n, f, X, hs, m, x, w
<1>9. Takes(x, Member(key, List([k \in 1 .. n |-> m[k]])), w)
  BY <1>1, <1>2, <1>3, <1>4, <1>6, <1>7, TakesListMember
<1>10. Takes(x, Member(key, WriteInts(f)), w)
  BY <1>8, <1>9, Zenon
<1> QED
  BY <1>10, Zenon DEF x, w, f, n, key

(***************************************************************************)
(* A plan.                                                                 *)
(***************************************************************************)
LEMMA AllEight ==
  ASSUME NEW x0, NEW x1, NEW x2, NEW x3, NEW x4, NEW x5, NEW x6, NEW x7, NEW x8,
         NEW m1, NEW m2, NEW m3, NEW m4, NEW m5, NEW m6, NEW m7, NEW m8,
         Takes(x0, m1, x1), Takes(x1, m2, x2), Takes(x2, m3, x3), Takes(x3, m4, x4),
         Takes(x4, m5, x5), Takes(x5, m6, x6), Takes(x6, m7, x7), Takes(x7, m8, x8)
  PROVE  TakesAll(x0, <<m1, m2, m3, m4, m5, m6, m7, m8>>, x8)
<1> DEFINE s == <<m1, m2, m3, m4, m5, m6, m7, m8>>
           t == <<x0, x1, x2, x3, x4, x5, x6, x7, x8>>
           hs == [i \in 0 .. 8 |-> t[i + 1]]
           S == Seq(Events)
<1>1. /\ m1 \in S /\ m2 \in S /\ m3 \in S /\ m4 \in S
      /\ m5 \in S /\ m6 \in S /\ m7 \in S /\ m8 \in S
  BY Zenon DEF Takes
<1> HIDE DEF S
<1>2. s \in Seq(S) /\ Len(s) = 8
  BY <1>1
<1>3. /\ s[1] = m1 /\ s[2] = m2 /\ s[3] = m3 /\ s[4] = m4
      /\ s[5] = m5 /\ s[6] = m6 /\ s[7] = m7 /\ s[8] = m8
  OBVIOUS
<1>4. /\ hs[0] = x0 /\ hs[1] = x1 /\ hs[2] = x2 /\ hs[3] = x3 /\ hs[4] = x4
      /\ hs[5] = x5 /\ hs[6] = x6 /\ hs[7] = x7 /\ hs[8] = x8
  <2>1. /\ t[1] = x0 /\ t[2] = x1 /\ t[3] = x2 /\ t[4] = x3 /\ t[5] = x4
        /\ t[6] = x5 /\ t[7] = x6 /\ t[8] = x7 /\ t[9] = x8
    OBVIOUS
  <2> HIDE DEF t
  <2> QED
    BY <2>1
<1> HIDE DEF s, t, hs
<1>5. ASSUME NEW i \in 1 .. Len(s) PROVE Takes(hs[i - 1], s[i], hs[i])
  <2>1. i \in 1 .. 8
    BY <1>2
  <2>2. CASE i = 1
    <3>1. i - 1 = 0
      BY <2>2
    <3> QED
      BY <1>3, <1>4, <2>2, <3>1, Zenon
  <2>3. CASE i = 2
    <3>1. i - 1 = 1
      BY <2>3
    <3> QED
      BY <1>3, <1>4, <2>3, <3>1, Zenon
  <2>4. CASE i = 3
    <3>1. i - 1 = 2
      BY <2>4
    <3> QED
      BY <1>3, <1>4, <2>4, <3>1, Zenon
  <2>5. CASE i = 4
    <3>1. i - 1 = 3
      BY <2>5
    <3> QED
      BY <1>3, <1>4, <2>5, <3>1, Zenon
  <2>6. CASE i = 5
    <3>1. i - 1 = 4
      BY <2>6
    <3> QED
      BY <1>3, <1>4, <2>6, <3>1, Zenon
  <2>7. CASE i = 6
    <3>1. i - 1 = 5
      BY <2>7
    <3> QED
      BY <1>3, <1>4, <2>7, <3>1, Zenon
  <2>8. CASE i = 7
    <3>1. i - 1 = 6
      BY <2>8
    <3> QED
      BY <1>3, <1>4, <2>8, <3>1, Zenon
  <2>9. CASE i = 8
    <3>1. i - 1 = 7
      BY <2>9
    <3> QED
      BY <1>3, <1>4, <2>9, <3>1, Zenon
  <2> QED
    BY <2>1, <2>2, <2>3, <2>4, <2>5, <2>6, <2>7, <2>8, <2>9
<1>6. PieceRun(hs, x0, s, x8)
  BY <1>2, <1>4, <1>5 DEF PieceRun
<1>7. TakesAll(x0, s, x8)
  BY <1>2, <1>6, Zenon DEF TakesAll, S
<1> QED
  BY <1>7 DEF s

\* What is left of a plan that was read, and the state after it.
Back(p) == B(p.attr, p.rates, p.sizes, p.repeater, p.rx1, p.offsets, UpBack(p), DownBack(p.down))
PlanEnd(done, p) ==
  IF Bad(p) THEN InBreak(done, p, FirstDown(p))
  ELSE Hx("RegionBands", "down", OffsetCount(Len(p.offsets)), Append(done, Back(p)))

LEMMA PlanFields ==
  ASSUME NEW p, PlanOK(p)
  PROVE  /\ AttrOK(p.attr)
         /\ p.rates \in Seq(Rates) /\ Len(p.rates) = RbRateSize
         /\ p.sizes \in Seq(Sizes) /\ Len(p.sizes) = RbRateSize
         /\ p.repeater \in Seq(Sizes) /\ Len(p.repeater) = RbRateSize
         /\ p.rx1 \in Seq(Seq(0 .. 255)) /\ Len(p.rx1) = RbRateSize
         /\ p.offsets \in Seq(-128 .. 127) /\ Len(p.offsets) <= RbOffsetMax
         /\ p.up \in Seq(Channels) /\ p.down \in Seq(Channels)
         /\ p = B(p.attr, p.rates, p.sizes, p.repeater, p.rx1, p.offsets, p.up, p.down)
BY Zenon DEF PlanOK, B

LEMMA PlanOpened ==
  ASSUME NEW D, NEW done \in Seq(D), NEW pv, NEW c, NEW p, PlanOK(p)
  PROVE  Takes(Hx("RegionBands", pv, c, done), Ev("{", Blank), InAttr("band", pv, c, done, p, {}))
<1> DEFINE b == B(Attr(p, {}), NewPlan.rates, NewPlan.sizes, NewPlan.repeater,
                  NewPlan.rx1, NewPlan.offsets, NewPlan.up, NewPlan.down)
<1>1. b = NewPlan
  <2>1. Attr(p, {}) = NewPlan.attr
    BY PlanFields, AttrEnds
  <2>2. NewPlan = B(NewPlan.attr, NewPlan.rates, NewPlan.sizes, NewPlan.repeater,
                    NewPlan.rx1, NewPlan.offsets, NewPlan.up, NewPlan.down)
    BY DEF NewPlan, B
  <2> QED
    BY <2>1, <2>2, Zenon
<1> DEFINE q == Append(done, NewPlan)
<1>2. ASSUME NEW k PROVE StartObject(Hd("RegionBands", k, pv, c, done)) = Hd("band", k, pv, c, q)
  <2> DEFINE h == Hd("RegionBands", k, pv, c, done)
  <2>1. h.state = "RegionBands" /\ h.bands = done
    BY DEF Hd
  <2>2. [h EXCEPT !.state = "band"] = Hd("band", k, pv, c, done)
    BY DEF Hd
  <2>3. SetBands(Hd("band", k, pv, c, done), q) = Hd("band", k, pv, c, q)
    <3> HIDE DEF q
    <3> QED
      BY BandsSet
  <2> HIDE DEF h
  <2>4. StartObject(h) = [h EXCEPT !.state = "band", !.bands = Append(@, NewPlan)]
    BY <2>1 DEF StartObject
  <2>5. StartObject(h) = [h EXCEPT !.state = "band", !.bands = q]
    BY <2>1, <2>4
  <2> HIDE DEF q
  <2> QED
    BY <2>2, <2>3, <2>5, Zenon DEF SetBands, h
<1> HIDE DEF q, b
<1>3. Takes(Hx("RegionBands", pv, c, done), Ev("{", Blank), Hx("band", pv, c, q))
  BY <1>2, ObjectOpens
<1> QED
  BY <1>1, <1>3, Zenon DEF InAttr, q, b

LEMMA PlanClosed ==
  ASSUME NEW D, NEW done \in Seq(D), NEW p, PlanOK(p)
  PROVE  Takes(InOffsets("band", done, p, UpBack(p), DownBack(p.down), Len(p.offsets)), Ev("}", Blank),
               Hx("RegionBands", "down", OffsetCount(Len(p.offsets)), Append(done, Back(p))))
<1>1. ASSUME NEW k, NEW c, NEW bs
      PROVE  EndObject(Hd("band", k, "down", c, bs)) = Hd("RegionBands", k, "down", c, bs)
  BY DEF EndObject, Hd
<1>2. SubSeq(p.offsets, 1, Len(p.offsets)) = p.offsets
  BY PlanFields, PrefixSteps, Zenon
<1>3. OffsetBand(p, UpBack(p), DownBack(p.down), Len(p.offsets)) = Back(p)
  BY <1>2, Zenon DEF OffsetBand, Back
<1> DEFINE c == OffsetCount(Len(p.offsets))
           bs == Append(done, Back(p))
<1> HIDE DEF c, bs
<1>4. Takes(Hx("band", "down", c, bs), Ev("}", Blank), Hx("RegionBands", "down", c, bs))
  BY <1>1, ObjectCloses
<1> QED
  BY <1>3, <1>4, Zenon DEF InOffsets, c, bs

LEMMA SeqIs ==
  ASSUME NEW E, NEW s \in Seq(E), NEW n, Len(s) = n
  PROVE  s = [j \in 1 .. n |-> s[j]]
OBVIOUS

\* Where one array ends the next may begin.
LEMMA PlanJoints ==
  ASSUME NEW done, NEW p, PlanOK(p), NEW u, NEW d
  PROVE  /\ InChannels("band", "down", done, p, u, d) = InSizes("band", done, p, u, d, 0, 0 + 1, {})
         /\ InSizes("band", done, p, u, d, RbRateSize, RbRateSize + 1, {}) = InRepeater("band", done, p, u, d, 0, 0 + 1, {})
         /\ InRepeater("band", done, p, u, d, RbRateSize, RbRateSize + 1, {}) = InRx1("band", done, p, u, d, 0, 0 + 1, 0)
         /\ InRx1("band", done, p, u, d, RbRateSize, RbRateSize + 1, 0) = InOffsets("band", done, p, u, d, 0)
<1> DEFINE N == RbRateSize
<1>1. IsRecord(NoSize, SizeInts)
  BY DEF IsRecord, NoSize, SizeInts
<1>2. /\ NewPlan.sizes = [j \in 1 .. N |-> NoSize] /\ NewPlan.repeater = [j \in 1 .. N |-> NoSize]
      /\ NewPlan.rx1 = [j \in 1 .. N |-> <<>>] /\ NewPlan.offsets = <<>>
  BY DEF NewPlan, NoSize
<1>3. /\ p.sizes \in Seq(Sizes) /\ Len(p.sizes) = N /\ p.repeater \in Seq(Sizes) /\ Len(p.repeater) = N
      /\ p.rx1 \in Seq(Seq(0 .. 255)) /\ Len(p.rx1) = N /\ p.offsets \in Seq(-128 .. 127)
  BY PlanFields, Zenon
<1>4. p.sizes = [j \in 1 .. N |-> p.sizes[j]] /\ p.repeater = [j \in 1 .. N |-> p.repeater[j]]
  BY <1>3, SeqIs, Zenon
<1>5. p.rx1 = [j \in 1 .. N |-> p.rx1[j]]
  BY <1>3, SeqIs, Zenon
<1>6. \A f : ArrayAt(f, SizeInts, NoSize, 0 + 1, {}) = [j \in 1 .. N |-> NoSize]
  BY <1>1, ArrayEnds
<1>7. \A f : f = [j \in 1 .. N |-> f[j]] => ArrayAt(f, SizeInts, NoSize, N + 1, {}) = f
  BY <1>1, ArrayEnds, Zenon
<1>8. ArrayAt(p.sizes, SizeInts, NoSize, N + 1, {}) = p.sizes
  BY <1>4, <1>7, Zenon
<1>9. ArrayAt(p.repeater, SizeInts, NoSize, N + 1, {}) = p.repeater
  BY <1>4, <1>7, Zenon
<1>10. Rx1At(p.rx1, 0 + 1, 0) = [j \in 1 .. N |-> <<>>]
  BY Rx1Ends, Zenon
<1>11. Rx1At(p.rx1, N + 1, 0) = p.rx1
  BY <1>5, Rx1Ends, Zenon
<1>12. SubSeq(p.offsets, 1, 0) = <<>>
  BY <1>3, PrefixSteps, Zenon
<1>13. InChannels("band", "down", done, p, u, d) = InSizes("band", done, p, u, d, 0, 0 + 1, {})
  BY <1>2, <1>6, Zenon DEF InChannels, InSizes, SizeCount, SizeBand
<1>14. InSizes("band", done, p, u, d, N, N + 1, {}) = InRepeater("band", done, p, u, d, 0, 0 + 1, {})
  BY <1>2, <1>6, <1>8, Zenon DEF InSizes, SizeCount, SizeBand, InRepeater, RepeaterCount, RepeaterBand
<1>15. InRepeater("band", done, p, u, d, N, N + 1, {}) = InRx1("band", done, p, u, d, 0, 0 + 1, 0)
  BY <1>2, <1>9, <1>10, Zenon DEF InRepeater, RepeaterCount, RepeaterBand, InRx1, Rx1Count, Rx1Band
<1>16. InRx1("band", done, p, u, d, N, N + 1, 0) = InOffsets("band", done, p, u, d, 0)
  BY <1>2, <1>11, <1>12, Zenon DEF InRx1, Rx1Count, Rx1Band, InOffsets, OffsetCount, OffsetBand
<1> QED
  BY <1>13, <1>14, <1>15, <1>16, Zenon

PlanScalars(p) ==
  Scalars("int", <<"id">>, p.attr) \o Scalars("string", <<"name", "cn">>, p.attr)
    \o Scalars("bool", <<"implementsTXParamSetup">>, p.attr)
    \o Scalars(EIRPKind(p.attr["maxUplinkEIRP"]), <<"maxUplinkEIRP">>, p.attr)
    \o Scalars("int", <<"pingSlotFrequency", "defaultDownlinkTXPower">>, p.attr)
    \o Scalars("bool", <<"supportsExtraChannels", "defaultRegion">>, p.attr)
Defaults(p) == Member("bandDefaults", Object(Scalars("int", <<"RX2Frequency", "RX2DataRate",
  "ReceiveDelay1", "ReceiveDelay2", "JoinAcceptDelay1", "JoinAcceptDelay2">>, p.attr)))
PlanArrays(p) ==
  <<Defaults(p), Member("dataRates", Each(WriteRate, p.rates)),
    Member("uplinkChannels", Each(WriteChannel, p.up)),
    Member("downlinkChannels", Each(WriteChannel, p.down)),
    Member("maxPayloadSizePerDataRate", Each(WriteSize, p.sizes)),
    Member("maxPayloadSizePerDataRateRepeater", Each(WriteSize, p.repeater)),
    Member("rx1DataRateOffsets", Each(WriteInts, p.rx1)),
    Member("txPowerOffsets", WriteInts(p.offsets))>>

LEMMA WritePlanIs ==
  ASSUME NEW p
  PROVE  WritePlan(p) = Between("{", PlanScalars(p) \o PlanArrays(p), "}")
BY Zenon DEF WritePlan, Object, Between, PlanScalars, PlanArrays, Defaults

\* What a plan has after its first attributes.
LEMMA ArraysTaken ==
  ASSUME NEW D, NEW done \in Seq(D), NEW pv, NEW c, NEW p, PlanOK(p)
  PROVE  TakesAll(InAttr("band", pv, c, done, p, BandKeys), PlanArrays(p),
                  IF Bad(p) THEN InBreak(done, p, FirstDown(p))
                  ELSE InOffsets("band", done, p, UpBack(p), DownBack(p.down), Len(p.offsets)))
<1> DEFINE N == RbRateSize
           u == UpBack(p)
           d == DownBack(p.down)
           m1 == Defaults(p)
           m2 == Member("dataRates", Each(WriteRate, p.rates))
           m3 == Member("uplinkChannels", Each(WriteChannel, p.up))
           m4 == Member("downlinkChannels", Each(WriteChannel, p.down))
           m5 == Member("maxPayloadSizePerDataRate", Each(WriteSize, p.sizes))
           m6 == Member("maxPayloadSizePerDataRateRepeater", Each(WriteSize, p.repeater))
           m7 == Member("rx1DataRateOffsets", Each(WriteInts, p.rx1))
           m8 == Member("txPowerOffsets", WriteInts(p.offsets))
           x0 == InAttr("band", pv, c, done, p, BandKeys)
           x1 == InAttr("band", pv, Zero, done, p, PlanAttrs)
           x2 == InChannels("band", pv, done, p, <<>>, <<>>)
           x3 == InChannels("band", "up", done, p, p.up, <<>>)
           x4 == InSizes("band", done, p, u, d, 0, 0 + 1, {})
           x5 == InRepeater("band", done, p, u, d, 0, 0 + 1, {})
           x6 == InRx1("band", done, p, u, d, 0, 0 + 1, 0)
           x7 == InOffsets("band", done, p, u, d, 0)
           x8 == InOffsets("band", done, p, u, d, Len(p.offsets))
           z == InBreak(done, p, FirstDown(p))
<1>1. Takes(x0, m1, x1)
  BY PlanFields, DefaultsTaken, Zenon DEF Defaults
<1>2. Takes(x1, m2, x2)
  <2>1. AttrOK(p.attr) /\ p.rates \in Seq(Rates) /\ Len(p.rates) = RbRateSize
    BY PlanFields, Zenon
  <2> QED
    BY <2>1, RatesTaken, RatesEnd, Zenon
<1>3. Takes(x2, m3, x3)
  BY PlanFields, UpsTaken, Zenon
<1>4. Takes(x3, m4, IF Bad(p) THEN z ELSE InChannels("band", "down", done, p, u, d))
  <2>1. p.up \in Seq(Channels) /\ p.down \in Seq(Channels)
    BY PlanFields, Zenon
  <2> QED
    BY <2>1, DownsAll, Zenon
<1>5. Takes(x4, m5, x5)
  <2>1. p.sizes \in Seq(Sizes) /\ Len(p.sizes) = RbRateSize
    BY PlanFields, Zenon
  <2>2. InSizes("band", done, p, u, d, RbRateSize, RbRateSize + 1, {}) = x5
    BY PlanJoints, Zenon
  <2>3. Takes(x4, m5, InSizes("band", done, p, u, d, RbRateSize, RbRateSize + 1, {}))
    BY <2>1, SizesTaken, Zenon
  <2> QED
    BY <2>2, <2>3, Zenon
<1>6. Takes(x5, m6, x6)
  <2>1. p.repeater \in Seq(Sizes) /\ Len(p.repeater) = RbRateSize
    BY PlanFields, Zenon
  <2>2. InRepeater("band", done, p, u, d, RbRateSize, RbRateSize + 1, {}) = x6
    BY PlanJoints, Zenon
  <2>3. Takes(x5, m6, InRepeater("band", done, p, u, d, RbRateSize, RbRateSize + 1, {}))
    BY <2>1, RepeatersTaken, Zenon
  <2> QED
    BY <2>2, <2>3, Zenon
<1>7. Takes(x6, m7, x7)
  <2>1. p.rx1 \in Seq(Seq(0 .. 255)) /\ Len(p.rx1) = RbRateSize
    BY PlanFields, Zenon
  <2>2. InRx1("band", done, p, u, d, RbRateSize, RbRateSize + 1, 0) = x7
    BY PlanJoints, Zenon
  <2>3. Takes(x6, m7, InRx1("band", done, p, u, d, RbRateSize, RbRateSize + 1, 0))
    BY <2>1, Rx1Taken, Zenon
  <2> QED
    BY <2>2, <2>3, Zenon
<1>8. Takes(x7, m8, x8)
  <2>1. p.offsets \in Seq(-128 .. 127) /\ Len(p.offsets) <= RbOffsetMax
    BY PlanFields, Zenon
  <2> QED
    BY <2>1, OffsetsTaken, Zenon
<1>9. InChannels("band", "down", done, p, u, d) = x4
  BY PlanJoints, Zenon
<1>10. \A es \in Seq(Events) : Takes(z, es, z)
  BY BreakStays, Zenon
<1>11. PlanArrays(p) = <<m1, m2, m3, m4, m5, m6, m7, m8>>
  BY Zenon DEF PlanArrays
<1> HIDE DEF u, d, m1, m2, m3, m4, m5, m6, m7, m8, x0, x1, x2, x3, x4, x5, x6, x7, x8, z
<1>12. CASE Bad(p)
  <2>1. Takes(z, m5, z) /\ Takes(z, m6, z) /\ Takes(z, m7, z) /\ Takes(z, m8, z)
    BY <1>5, <1>6, <1>7, <1>8, <1>10, Zenon DEF Takes
  <2>2. Takes(x3, m4, z)
    BY <1>4, <1>12, Zenon
  <2>3. TakesAll(x0, <<m1, m2, m3, m4, m5, m6, m7, m8>>, z)
    BY <1>1, <1>2, <1>3, <2>1, <2>2, AllEight
  <2> QED
    BY <1>11, <1>12, <2>3, Zenon DEF x0, z
<1>13. CASE ~Bad(p)
  <2>1. Takes(x3, m4, x4)
    BY <1>4, <1>9, <1>13, Zenon
  <2>2. TakesAll(x0, <<m1, m2, m3, m4, m5, m6, m7, m8>>, x8)
    BY <1>1, <1>2, <1>3, <1>5, <1>6, <1>7, <1>8, <2>1, AllEight
  <2> QED
    BY <1>11, <1>13, <2>2, Zenon DEF x0, x8, u, d
<1> QED
  BY <1>12, <1>13

\* A whole plan, after any plans.
LEMMA PlanTaken ==
  ASSUME NEW D, NEW done \in Seq(D), NEW pv, NEW c, NEW p, PlanOK(p)
  PROVE  Takes(Hx("RegionBands", pv, c, done), WritePlan(p), PlanEnd(done, p))
<1> DEFINE x == Hx("RegionBands", pv, c, done)
           y == InAttr("band", pv, c, done, p, {})
           v == InAttr("band", pv, c, done, p, BandKeys)
           z == InBreak(done, p, FirstDown(p))
           w == InOffsets("band", done, p, UpBack(p), DownBack(p.down), Len(p.offsets))
           s == PlanScalars(p)
           t == PlanArrays(p)
           e == IF Bad(p) THEN z ELSE w
<1>1. Takes(x, Ev("{", Blank), y)
  BY PlanOpened, Zenon
<1>2. TakesAll(y, s, v)
  BY PlanFields, BandAttrsTaken, Zenon DEF PlanScalars
<1>3. TakesAll(v, t, e)
  BY ArraysTaken, Zenon
<1>4. Takes(w, Ev("}", Blank), Hx("RegionBands", "down", OffsetCount(Len(p.offsets)), Append(done, Back(p))))
  BY PlanClosed, Zenon
<1>5. Takes(z, Ev("}", Blank), z)
  <2>1. Ev("}", Blank) \in Seq(Events)
    BY <1>4, Zenon DEF Takes
  <2> QED
    BY <2>1, BreakStays, Zenon
<1>6. Takes(e, Ev("}", Blank), PlanEnd(done, p))
  BY <1>4, <1>5, Zenon DEF PlanEnd
<1> HIDE DEF x, y, v, e, s, t
<1>7. TakesAll(y, s \o t, e)
  BY <1>2, <1>3, AllMore, Zenon
<1>8. Takes(x, Between("{", s \o t, "}"), PlanEnd(done, p))
  BY <1>1, <1>6, <1>7, TakesBetween, Zenon
<1> QED
  BY <1>8, WritePlanIs, Zenon DEF x, s, t

(***************************************************************************)
(* The plans of a file, one after another.                                 *)
(***************************************************************************)
BackAll(file, i) == [j \in 1 .. i |-> Back(file[j])]
IsBroken(y) == \E st, pv, c, bs : y = Broken(st, pv, c, bs)
BadBefore(file, i) == \E j \in 1 .. i : Bad(file[j])
IsDone(file, i, st, y) == \E pv, c : y = Hx(st, pv, c, BackAll(file, i))
ReadSo(file, i, st, y) == (IsBroken(y) /\ BadBefore(file, i)) \/ IsDone(file, i, st, y)

LEMMA BrokenStays ==
  ASSUME NEW y, IsBroken(y)
  PROVE  \A es \in Seq(Events) : Takes(y, es, y)
BY CrashStays, Zenon DEF IsBroken

LEMMA BackMore ==
  ASSUME NEW file, NEW i \in Nat
  PROVE  /\ BackAll(file, i) \in Seq({Back(file[j]) : j \in 1 .. i})
         /\ Append(BackAll(file, i), Back(file[i + 1])) = BackAll(file, i + 1)
         /\ BackAll(file, 0) = <<>>
<1> DEFINE g == [j \in 1 .. i + 1 |-> Back(file[j])]
           D == {g[j] : j \in 1 .. i + 1}
<1>1. BackAll(file, i) \in Seq({Back(file[j]) : j \in 1 .. i})
  BY DEF BackAll
<1>2. BackAll(file, 0) = <<>>
  BY DEF BackAll
<1>3. g \in Seq(D) /\ Len(g) = i + 1 /\ \A j \in 1 .. i + 1 : g[j] = Back(file[j])
  OBVIOUS
<1>4. BackAll(file, i + 1) = g
  BY DEF BackAll
<1>5. SubSeq(g, 1, i) = BackAll(file, i)
  BY DEF BackAll
<1> HIDE DEF g, D
<1> DEFINE k == i + 1
<1>6. k \in 1 .. Len(g) /\ k - 1 = i
  BY <1>3
<1>7. SubSeq(g, 1, k) = Append(SubSeq(g, 1, k - 1), g[k]) /\ SubSeq(g, 1, Len(g)) = g
  BY <1>3, <1>6, PrefixSteps, Zenon
<1>8. g = Append(BackAll(file, i), g[k])
  BY <1>3, <1>5, <1>6, <1>7
<1>9. g[k] = Back(file[k])
  BY <1>3, <1>6, Zenon
<1> QED
  BY <1>1, <1>2, <1>4, <1>8, <1>9, Zenon

\* A plan after i others, read or not.
LEMMA OneMorePlan ==
  ASSUME NEW file, NEW i \in Nat, PlanOK(file[i + 1]), NEW y, ReadSo(file, i, "RegionBands", y)
  PROVE  \E w : ReadSo(file, i + 1, "RegionBands", w) /\ Takes(y, WritePlan(file[i + 1]), w)
<1> DEFINE p == file[i + 1]
           done == BackAll(file, i)
<1>1. \A pv, c : Takes(Hx("RegionBands", pv, c, done), WritePlan(p), PlanEnd(done, p))
  BY BackMore, PlanTaken, Zenon
<1>2. i + 1 \in 1 .. i + 1 /\ 1 .. i \subseteq 1 .. i + 1
  OBVIOUS
<1>3. CASE IsBroken(y) /\ BadBefore(file, i)
  <2>1. WritePlan(p) \in Seq(Events)
    BY <1>1, Zenon DEF Takes
  <2>2. Takes(y, WritePlan(p), y)
    BY <1>3, <2>1, BrokenStays, Zenon
  <2>3. BadBefore(file, i + 1)
    BY <1>2, <1>3, Zenon DEF BadBefore
  <2> QED
    BY <1>3, <2>2, <2>3, Zenon DEF ReadSo
<1>4. CASE IsDone(file, i, "RegionBands", y)
  <2>1. PICK pv, c : y = Hx("RegionBands", pv, c, done)
    BY <1>4, Zenon DEF IsDone
  <2>2. Takes(y, WritePlan(p), PlanEnd(done, p))
    BY <1>1, <2>1, Zenon
  <2>3. CASE Bad(p)
    <3>1. IsBroken(PlanEnd(done, p))
      BY <2>3, Zenon DEF PlanEnd, InBreak, IsBroken
    <3>2. BadBefore(file, i + 1)
      BY <1>2, <2>3, Zenon DEF BadBefore
    <3> QED
      BY <2>2, <3>1, <3>2, Zenon DEF ReadSo
  <2>4. CASE ~Bad(p)
    <3>1. PlanEnd(done, p) = Hx("RegionBands", "down", OffsetCount(Len(p.offsets)), Append(done, Back(p)))
      BY <2>4, Zenon DEF PlanEnd
    <3>2. Append(done, Back(p)) = BackAll(file, i + 1)
      BY BackMore, Zenon
    <3>3. IsDone(file, i + 1, "RegionBands", PlanEnd(done, p))
      BY <3>1, <3>2, Zenon DEF IsDone
    <3> QED
      BY <2>2, <3>3, Zenon DEF ReadSo
  <2> QED
    BY <2>3, <2>4
<1> QED
  BY <1>3, <1>4, Zenon DEF ReadSo

WrittenPlans(file, i) == [j \in 1 .. i |-> WritePlan(file[j])]

\* All plans of a file, by induction.
LEMMA PlansTaken ==
  ASSUME NEW file, Len(file) \in Nat, \A i \in 1 .. Len(file) : PlanOK(file[i])
  PROVE  \E y : /\ ReadSo(file, Len(file), "RegionBands", y)
                /\ TakesAll(Hx("RegionBands", "none", Zero, <<>>), WrittenPlans(file, Len(file)), y)
<1> DEFINE x == Hx("RegionBands", "none", Zero, <<>>)
           So(i) == \E y : ReadSo(file, i, "RegionBands", y) /\ TakesAll(x, WrittenPlans(file, i), y)
           T == {i \in Nat : i <= Len(file) => So(i)}
<1>1. So(0)
  <2>1. ReadSo(file, 0, "RegionBands", x)
    <3>1. BackAll(file, 0) = <<>>
      BY BackMore
    <3> QED
      BY <3>1, Zenon DEF ReadSo, IsDone
  <2>2. TakesAll(x, WrittenPlans(file, 0), x)
    <3> DEFINE s == WrittenPlans(file, 0)
               hs == [i \in 0 .. 0 |-> x]
    <3>1. s \in Seq(Seq(Events)) /\ Len(s) = 0
      BY DEF WrittenPlans
    <3>2. hs[0] = x /\ 1 .. 0 = {}
      OBVIOUS
    <3> HIDE DEF s, hs, x
    <3>3. PieceRun(hs, x, s, x)
      BY <3>1, <3>2, Zenon DEF PieceRun
    <3>4. TakesAll(x, s, x)
      BY <3>1, <3>3, Zenon DEF TakesAll
    <3> QED
      BY <3>4 DEF s
  <2> QED
    BY <2>1, <2>2, Zenon
<1>2. ASSUME NEW i \in Nat, i + 1 <= Len(file), So(i) PROVE So(i + 1)
  <2>1. PICK y : ReadSo(file, i, "RegionBands", y) /\ TakesAll(x, WrittenPlans(file, i), y)
    BY <1>2, Zenon
  <2>2. PlanOK(file[i + 1])
    BY <1>2
  <2>3. PICK w : ReadSo(file, i + 1, "RegionBands", w) /\ Takes(y, WritePlan(file[i + 1]), w)
    BY <2>1, <2>2, OneMorePlan, Zenon
  <2> DEFINE m == WritePlan(file[i + 1])
             s == WrittenPlans(file, i)
             t == WrittenPlans(file, i + 1)
  <2>4. s \o <<m>> = t
    <3> DEFINE W == {m} \cup {s[j] : j \in 1 .. i}
               q == <<m>>
               g == s \o q
    <3>1. Len(s) = i /\ \A j \in 1 .. i : s[j] = WritePlan(file[j])
      BY DEF WrittenPlans
    <3>7. s = [j \in 1 .. i |-> s[j]]
      BY DEF WrittenPlans
    <3> HIDE DEF s, m
    <3>2. s \in Seq(W) /\ q \in Seq(W) /\ Len(q) = 1 /\ q[1] = m
      <4>1. s \in Seq(W)
        BY <3>7
      <4>2. q \in Seq(W) /\ Len(q) = 1 /\ q[1] = m
        OBVIOUS
      <4> QED
        BY <4>1, <4>2
    <3>3. t = [j \in 1 .. i + 1 |-> t[j]] /\ \A j \in 1 .. i + 1 : t[j] = WritePlan(file[j])
      BY DEF WrittenPlans
    <3> HIDE DEF t, q, W
    <3>4. /\ g \in Seq(W) /\ Len(g) = i + 1
          /\ \A j \in 1 .. i + 1 : g[j] = IF j <= i THEN s[j] ELSE q[j - i]
      <4>1. /\ g \in Seq(W) /\ Len(g) = Len(s) + Len(q)
            /\ \A j \in 1 .. Len(s) + Len(q) : g[j] = IF j <= Len(s) THEN s[j] ELSE q[j - Len(s)]
        BY <3>2, ConcatProperties, Zenon
      <4> HIDE DEF g
      <4> QED
        BY <3>1, <3>2, <4>1
    <3> HIDE DEF g
    <3>5. ASSUME NEW j \in 1 .. i + 1 PROVE g[j] = t[j]
      <4>1. CASE j <= i
        <5>1. j \in 1 .. i
          BY <4>1
        <5> QED
          BY <3>1, <3>3, <3>4, <4>1, <5>1
      <4>2. CASE ~(j <= i)
        <5>1. j = i + 1 /\ j - i = 1
          BY <4>2
        <5>2. q[1] = WritePlan(file[j])
          BY <3>2, <5>1, Zenon DEF m
        <5> QED
          BY <3>3, <3>4, <4>2, <5>1, <5>2
      <4> QED
        BY <4>1, <4>2
    <3>6. g = t
      BY <3>3, <3>4, <3>5
    <3> QED
      BY <3>6, Zenon DEF g, q, s, t, m
  <2> HIDE DEF m, s, t
  <2>5. TakesAll(y, <<m>>, w)
    BY <2>3, AllOne DEF m
  <2>6. TakesAll(x, s, y)
    BY <2>1, Zenon DEF s
  <2>7. TakesAll(x, s \o <<m>>, w)
    BY <2>5, <2>6, AllMore, Zenon
  <2>8. TakesAll(x, t, w)
    BY <2>4, <2>7
  <2> QED
    BY <2>3, <2>8, Zenon DEF t
<1> HIDE DEF So, x
<1>3. 0 \in T /\ \A i \in Nat : i \in T => i + 1 \in T
  BY <1>1, <1>2
<1>4. Nat \subseteq T
  <2> HIDE DEF T
  <2> QED
    BY <1>3, EveryNat
<1>5. So(Len(file))
  BY <1>4
<1> QED
  BY <1>5, Zenon DEF So, x

\* A bracket after the plans, which a broken reader does not see.
LEMMA SoCloses ==
  ASSUME NEW file, NEW i, NEW st, NEW st2, NEW close \in Seq(Events), NEW y, ReadSo(file, i, st, y),
         \A pv, c, bs : Takes(Hx(st, pv, c, bs), close, Hx(st2, pv, c, bs))
  PROVE  \E w : ReadSo(file, i, st2, w) /\ Takes(y, close, w)
<1>1. CASE IsBroken(y) /\ BadBefore(file, i)
  BY <1>1, BrokenStays, Zenon DEF ReadSo
<1>2. CASE IsDone(file, i, st, y)
  <2>1. PICK pv, c : y = Hx(st, pv, c, BackAll(file, i))
    BY <1>2, Zenon DEF IsDone
  <2>2. IsDone(file, i, st2, Hx(st2, pv, c, BackAll(file, i)))
    BY Zenon DEF IsDone
  <2> QED
    BY <2>1, <2>2, Zenon DEF ReadSo
<1> QED
  BY <1>1, <1>2, Zenon DEF ReadSo

(***************************************************************************)
(* The events around the plans: the object of the file, the version and    *)
(* the array of the plans.                                                 *)
(***************************************************************************)
LEMMA VersionTaken ==
  ASSUME NEW pv, NEW c, NEW bs
  PROVE  Takes(Hx("root", pv, c, bs), Member("regionalParametersVersion", Ev("string", Version)),
               Hx("root", pv, c, bs))
<1> DEFINE key == "regionalParametersVersion"
           h == Hd("root", key, pv, c, bs)
           e == [ev |-> "string", v |-> Version]
<1>1. Handle(h, e) = String(h, Version)
  BY DEF Handle
<1>2. h.state = "root" /\ h.key = key
  BY DEF Hd
<1>3. key \in Attributes /\ key \notin BandStrings /\ key # "modulation"
  BY DEF Attributes, BandStrings
<1>4. "string" \in Kinds /\ Version \in Values
  BY DEF Kinds, Values
<1>5. String(h, Version) = h
  <2> HIDE DEF h
  <2> QED
    BY <1>2, <1>3 DEF String
<1>6. Handle(h, e) = WithKey(Hx("root", pv, c, bs), key)
  BY <1>1, <1>5, KeyOf
<1> QED
  BY <1>3, <1>4, <1>6, TakesMember

LEMMA BandsOpened ==
  ASSUME NEW pv, NEW c, NEW bs
  PROVE  Takes(Hx("root", pv, c, bs), Member("RegionBands", Ev("[", Blank)), Hx("RegionBands", pv, c, bs))
<1> DEFINE key == "RegionBands"
           h == Hd("root", key, pv, c, bs)
           e == [ev |-> "[", v |-> Blank]
<1>1. Handle(h, e) = StartArray(h)
  BY DEF Handle
<1>2. StartArray(h) = Hd("RegionBands", key, pv, c, bs)
  BY DEF StartArray, Hd
<1>3. Handle(h, e) = WithKey(Hx("RegionBands", pv, c, bs), key)
  BY <1>1, <1>2, KeyOf
<1>4. key \in Attributes
  BY DEF Attributes
<1> QED
  BY <1>3, <1>4, BracketEvents, TakesMember

LEMMA BandsClosed ==
  ASSUME NEW pv, NEW c, NEW bs
  PROVE  Takes(Hx("RegionBands", pv, c, bs), Ev("]", Blank), Hx("root", pv, c, bs))
<1>1. {ArrayState[k] : k \in Arrays} = {"rates", "up", "down", "sizes", "repeater", "rx1", "offsets"}
  BY DEF Arrays, ArrayState
<1>2. ASSUME NEW k PROVE EndArray(Hd("RegionBands", k, pv, c, bs)) = Hd("root", k, pv, c, bs)
  <2> DEFINE h == Hd("RegionBands", k, pv, c, bs)
  <2>1. h.state = "RegionBands" /\ [h EXCEPT !.state = "root"] = Hd("root", k, pv, c, bs)
    BY DEF Hd
  <2> HIDE DEF h
  <2>2. EndArray(h) = [h EXCEPT !.state = "root"]
    BY <1>1, <2>1 DEF EndArray
  <2> QED
    BY <2>1, <2>2 DEF h
<1> QED
  BY <1>2, ListCloses

LEMMA FileOpened ==
  ASSUME NEW pv, NEW c, NEW bs
  PROVE  /\ Takes(Hx("none", pv, c, bs), Ev("{", Blank), Hx("root", pv, c, bs))
         /\ Takes(Hx("root", pv, c, bs), Ev("}", Blank), Hx("none", pv, c, bs))
<1>1. ASSUME NEW k PROVE StartObject(Hd("none", k, pv, c, bs)) = Hd("root", k, pv, c, bs)
  BY DEF StartObject, Hd
<1>2. ASSUME NEW k PROVE EndObject(Hd("root", k, pv, c, bs)) = Hd("none", k, pv, c, bs)
  BY DEF EndObject, Hd
<1>3. Takes(Hx("none", pv, c, bs), Ev("{", Blank), Hx("root", pv, c, bs))
  BY <1>1, ObjectOpens
<1>4. Takes(Hx("root", pv, c, bs), Ev("}", Blank), Hx("none", pv, c, bs))
  BY <1>2, ObjectCloses
<1> QED
  BY <1>3, <1>4

\* A whole file.
LEMMA FileTaken ==
  ASSUME NEW file, Len(file) \in Nat, \A i \in 1 .. Len(file) : PlanOK(file[i])
  PROVE  \E y : /\ ReadSo(file, Len(file), "none", y)
                /\ Takes(Hx("none", "none", Zero, <<>>), PlansToJson(file), y)
<1> DEFINE n == Len(file)
           x == Hx("none", "none", Zero, <<>>)
           a == Hx("root", "none", Zero, <<>>)
           b == Hx("RegionBands", "none", Zero, <<>>)
           w == WrittenPlans(file, n)
           m == Member("regionalParametersVersion", Ev("string", Version))
           q == Member("RegionBands", Between("[", w, "]"))
<1>1. PlansToJson(file) = Between("{", <<m, q>>, "}")
  BY Zenon DEF PlansToJson, Object, Each, List, Between, WrittenPlans
<1>2. Takes(x, Ev("{", Blank), a)
  BY FileOpened, Zenon
<1>3. Takes(a, m, a)
  BY VersionTaken, Zenon
<1>4. Takes(a, Member("RegionBands", Ev("[", Blank)), b)
  BY BandsOpened, Zenon
<1>5. PICK y : ReadSo(file, n, "RegionBands", y) /\ TakesAll(b, w, y)
  BY PlansTaken, Zenon
<1>6. /\ Ev("]", Blank) \in Seq(Events)
      /\ \A pv, c, bs : Takes(Hx("RegionBands", pv, c, bs), Ev("]", Blank), Hx("root", pv, c, bs))
  BY BandsClosed, Zenon DEF Takes
<1>7. PICK z : ReadSo(file, n, "root", z) /\ Takes(y, Ev("]", Blank), z)
  BY <1>5, <1>6, SoCloses, Zenon
<1>8. /\ Ev("}", Blank) \in Seq(Events)
      /\ \A pv, c, bs : Takes(Hx("root", pv, c, bs), Ev("}", Blank), Hx("none", pv, c, bs))
  BY FileOpened, Zenon DEF Takes
<1>9. PICK g : ReadSo(file, n, "none", g) /\ Takes(z, Ev("}", Blank), g)
  BY <1>7, <1>8, SoCloses, Zenon
<1>10. "RegionBands" \in Attributes /\ "[" \in Kinds
  BY DEF Attributes, Kinds
<1> HIDE DEF x, a, b, w
<1>11. Takes(a, q, z)
  BY <1>4, <1>5, <1>7, <1>10, TakesMemberBetween, Zenon
<1> HIDE DEF m, q
<1>12. TakesAll(a, <<m, q>>, z)
  BY <1>3, <1>11, AllTwo, Zenon
<1>13. Takes(x, Between("{", <<m, q>>, "}"), g)
  BY <1>2, <1>9, <1>12, TakesBetween, Zenon
<1>14. Takes(x, PlansToJson(file), g)
  BY <1>1, <1>13
<1> QED
  BY <1>9, <1>14, Zenon DEF x

\* What the handler is when the file is read.
Final(file, g) ==
  \/ g.result = "crash" /\ BadBefore(file, Len(file))
  \/ g.result = "ok" /\ g.bands = BackAll(file, Len(file))

LEMMA FileReads ==
  ASSUME NEW file, Len(file) \in Nat, \A i \in 1 .. Len(file) : PlanOK(file[i])
  PROVE  \E g : Final(file, g) /\ ReadsTo(NewHandler, PlansToJson(file), g)
<1> DEFINE x == Hx("none", "none", Zero, <<>>)
<1>1. PICK y : ReadSo(file, Len(file), "none", y) /\ Takes(x, PlansToJson(file), y)
  BY FileTaken, Zenon
<1>2. WithKey(x, Blank) = NewHandler
  BY DEF WithKey, Hx, Hd, Zero, Cn, NewHandler
<1> HIDE DEF x
<1>3. PICK l : ReadsTo(WithKey(x, Blank), PlansToJson(file), WithKey(y, l))
  BY <1>1, Zenon DEF Takes
<1>4. Final(file, WithKey(y, l))
  <2>1. CASE IsBroken(y) /\ BadBefore(file, Len(file))
    <3>1. PICK st, pv, c, bs : y = Broken(st, pv, c, bs)
      BY <2>1, Zenon DEF IsBroken
    <3>2. WithKey(y, l).result = "crash"
      BY <3>1 DEF Broken, WithKey, Crash, Hx, Hd
    <3> QED
      BY <2>1, <3>2, Zenon DEF Final
  <2>2. CASE IsDone(file, Len(file), "none", y)
    <3> DEFINE bs == BackAll(file, Len(file))
    <3>1. PICK pv, c : y = Hx("none", pv, c, bs)
      BY <2>2, Zenon DEF IsDone
    <3> HIDE DEF bs
    <3>2. WithKey(y, l) = Hd("none", l, pv, c, bs)
      BY <3>1, KeyOf
    <3>3. Hd("none", l, pv, c, bs).result = "ok" /\ Hd("none", l, pv, c, bs).bands = bs
      BY DEF Hd
    <3> QED
      BY <3>2, <3>3, Zenon DEF Final, bs
  <2> QED
    BY <1>1, <2>1, <2>2, Zenon DEF ReadSo
<1> QED
  BY <1>2, <1>3, <1>4, Zenon

(***************************************************************************)
(* What is read differs from what was written in the flags of channels.    *)
(***************************************************************************)
PlainOne(c) == [c EXCEPT !.enabled = TRUE, !.custom = FALSE]
Plain(s) == [i \in 1 .. Len(s) |-> PlainOne(s[i])]

LEMMA PlainChannels ==
  ASSUME NEW x \in Channels, NEW c \in Channels
  PROVE  /\ PlainOne(Numbered(NewChannel, c)) = PlainOne(c)
         /\ PlainOne(Flagged(x, c)) = PlainOne(x)
<1>1. PlainOne(Numbered(NewChannel, c)) = PlainOne(c)
  BY DEF PlainOne, Numbered, NewChannel, SetKey, Channels
<1>2. PlainOne(Flagged(x, c)) = PlainOne(x)
  BY DEF PlainOne, Flagged, SetKey, Channels
<1> QED
  BY <1>1, <1>2

LEMMA DownPlain ==
  ASSUME NEW down \in Seq(Channels)
  PROVE  Plain(DownBack(down)) = Plain(down)
<1> DEFINE s == DownBack(down)
<1>1. Len(s) = Len(down) /\ \A i \in 1 .. Len(down) : s[i] = Numbered(NewChannel, down[i])
  BY DEF DownBack
<1> HIDE DEF s
<1>2. ASSUME NEW i \in 1 .. Len(down) PROVE PlainOne(s[i]) = PlainOne(down[i])
  <2>1. down[i] \in Channels
    BY ElementOf
  <2> QED
    BY <1>1, <2>1, PlainChannels, Zenon
<1>3. Plain(s) = [i \in 1 .. Len(down) |-> PlainOne(s[i])]
  BY <1>1, Zenon DEF Plain
<1>4. Plain(s) = Plain(down)
  BY <1>2, <1>3, Zenon DEF Plain
<1> QED
  BY <1>4 DEF s

LEMMA UpPlain ==
  ASSUME NEW p, p.up \in Seq(Channels), p.down \in Seq(Channels)
  PROVE  /\ Plain(UpBack(p)) = Plain(p.up)
         /\ p.down = <<>> => UpBack(p) = p.up
<1> DEFINE s == p.up
           n == Len(s)
           x == LastFlagged(s[n], p.down, Len(p.down))
           a == SubSeq(s, 1, n - 1)
<1>1. CASE s = <<>>
  BY <1>1, Zenon DEF UpBack
<1>2. CASE s # <<>>
  <2>1. n \in Nat /\ n >= 1 /\ n \in 1 .. n
    BY <1>2
  <2>2. a \in Seq(Channels) /\ Len(a) = n - 1 /\ \A i \in 1 .. n - 1 : a[i] = s[i]
    BY <2>1
  <2>3. a = SubSeq(s, 1, n - 1) /\ s = Append(a, s[n])
    BY <2>1, PrefixSteps, Zenon
  <2>4. UpBack(p) = Append(a, x)
    BY <1>2, Zenon DEF UpBack
  <2>5. s[n] \in Channels
    BY <2>1, ElementOf, Zenon
  <2>6. PlainOne(x) = PlainOne(s[n])
    <3>1. CASE Len(p.down) = 0
      BY <3>1, Zenon DEF LastFlagged
    <3>2. CASE Len(p.down) # 0
      <4> DEFINE c == p.down[Len(p.down)]
                 y == s[n]
      <4>1. c \in Channels
        BY <3>2
      <4>2. x = Flagged(y, c)
        BY <3>2, Zenon DEF LastFlagged
      <4> HIDE DEF c, y, x
      <4>3. PlainOne(Flagged(y, c)) = PlainOne(y)
        BY <2>5, <4>1, PlainChannels, Zenon DEF y
      <4> QED
        BY <4>2, <4>3, Zenon DEF y
    <3> QED
      BY <3>1, <3>2
  <2>7. p.down = <<>> => UpBack(p) = s
    <3> SUFFICES ASSUME p.down = <<>> PROVE UpBack(p) = s
      OBVIOUS
    <3>1. Len(p.down) = 0
      OBVIOUS
    <3>2. x = s[n]
      BY <3>1, Zenon DEF LastFlagged
    <3> QED
      BY <2>3, <2>4, <3>2, Zenon
  <2> DEFINE u == Append(a, x)
             E == Channels \cup {x}
  <2> HIDE DEF x, a, E
  <2>8. a \in Seq(E)
    BY <2>2 DEF E
  <2>9. Len(u) = n /\ \A i \in 1 .. n : u[i] = IF i = n THEN x ELSE s[i]
    BY <2>1, <2>2, <2>8
  <2> HIDE DEF u
  <2>10. Plain(u) = [i \in 1 .. n |-> PlainOne(u[i])]
    BY <2>9, Zenon DEF Plain
  <2>11. ASSUME NEW i \in 1 .. n PROVE PlainOne(u[i]) = PlainOne(s[i])
    BY <2>6, <2>9, Zenon
  <2>12. Plain(u) = Plain(s)
    BY <2>10, <2>11, Zenon DEF Plain
  <2> QED
    BY <2>4, <2>7, <2>12, Zenon DEF u
<1> QED
  BY <1>1, <1>2

LEMMA BackPlain ==
  ASSUME NEW p, PlanOK(p)
  PROVE  NoFlags(Back(p)) = NoFlags(p)
<1>1. ASSUME NEW attr, NEW rates, NEW sizes, NEW repeater, NEW rx1, NEW offsets, NEW up, NEW down
      PROVE  NoFlags(B(attr, rates, sizes, repeater, rx1, offsets, up, down))
               = B(attr, rates, sizes, repeater, rx1, offsets, Plain(up), Plain(down))
  <2> DEFINE b == B(attr, rates, sizes, repeater, rx1, offsets, up, down)
             u == Plain(up)
             d == Plain(down)
  <2>1. b.up = up /\ b.down = down
    BY DEF B
  <2> HIDE DEF b
  <2>2. NoFlags(b) = [b EXCEPT !.up = Plain(b.up), !.down = Plain(b.down)]
    BY DEF NoFlags, Plain, PlainOne
  <2>3. NoFlags(b) = [b EXCEPT !.up = u, !.down = d]
    BY <2>1, <2>2
  <2> HIDE DEF u, d
  <2>4. NoFlags(b) = B(attr, rates, sizes, repeater, rx1, offsets, u, d)
    BY <2>3 DEF B, b
  <2> QED
    BY <2>4 DEF u, d, b
<1>2. Plain(UpBack(p)) = Plain(p.up) /\ Plain(DownBack(p.down)) = Plain(p.down)
  BY PlanFields, UpPlain, DownPlain, Zenon
<1>3. p = B(p.attr, p.rates, p.sizes, p.repeater, p.rx1, p.offsets, p.up, p.down)
  BY PlanFields, Zenon
<1>4. NoFlags(Back(p)) = B(p.attr, p.rates, p.sizes, p.repeater, p.rx1, p.offsets, Plain(p.up), Plain(p.down))
  BY <1>1, <1>2 DEF Back
<1>5. NoFlags(p) = B(p.attr, p.rates, p.sizes, p.repeater, p.rx1, p.offsets, Plain(p.up), Plain(p.down))
  BY <1>1, <1>3
<1> QED
  BY <1>4, <1>5, Zenon

(***************************************************************************)
(* Whatever part of the file is read, the rest of its events leads to the  *)
(* end that the file has.                                                  *)
(***************************************************************************)
RbInv ==
  /\ rbFile \in RbFiles
  /\ \E g : Final(rbFile, g) /\ ReadsTo(rbHandler, rbEvents, g)
  /\ rbLoad = "reading" => rbHandler.result = "ok"
  /\ rbLoad = "ok" => rbEvents = <<>> /\ rbHandler.result = "ok"

\* Where no events are left the handler is at the end.
LEMMA NothingLeft ==
  ASSUME NEW h, NEW g, ReadsTo(h, <<>>, g)
  PROVE  g = h
<1> DEFINE s == <<>>
<1>1. Len(s) = 0
  OBVIOUS
<1>2. ReadsTo(h, s, g)
  OBVIOUS
<1> HIDE DEF s
<1>3. PICK r : r[0] = h /\ r[Len(s)] = g
  BY <1>2, Zenon DEF ReadsTo, EventRun
<1> QED
  BY <1>1, <1>3, Zenon

\* A handler that has failed is the end of the file, so it has crashed.
LEMMA FailedEnds ==
  ASSUME NEW file, NEW h, NEW es, h.result # "ok", \E g : Final(file, g) /\ ReadsTo(h, es, g)
  PROVE  h.result = "crash" /\ BadBefore(file, Len(file))
<1>1. PICK g : Final(file, g) /\ ReadsTo(h, es, g)
  OBVIOUS
<1>2. g = h
  BY <1>1, FailedStays, Zenon
<1> QED
  BY <1>1, <1>2, Zenon DEF Final

\* The invariant holds before the first event.
LEMMA RbInvStarts == RbInit => RbInv
<1> SUFFICES ASSUME RbInit PROVE RbInv
  OBVIOUS
<1>1. /\ rbFile \in RbFiles /\ rbEvents = PlansToJson(rbFile)
      /\ rbHandler = NewHandler /\ rbLoad = "reading"
  BY Zenon DEF RbInit
<1>2. Len(rbFile) \in Nat /\ \A i \in 1 .. Len(rbFile) : PlanOK(rbFile[i])
  BY <1>1, RbAssumption, Zenon
<1>3. \E g : Final(rbFile, g) /\ ReadsTo(rbHandler, rbEvents, g)
  BY <1>1, <1>2, FileReads, Zenon
<1>4. rbHandler.result = "ok"
  BY <1>1 DEF NewHandler
<1>5. rbLoad # "ok"
  BY <1>1
<1> QED
  BY <1>1, <1>3, <1>4, <1>5, Zenon DEF RbInv

\* Every step keeps the invariant.
LEMMA RbInvKept == RbInv /\ [RbNext]_rbVars => RbInv'
<1> SUFFICES ASSUME RbInv, [RbNext]_rbVars PROVE RbInv'
  OBVIOUS
<1>1. PICK g : Final(rbFile, g) /\ ReadsTo(rbHandler, rbEvents, g)
  BY Zenon DEF RbInv
<1>2. /\ rbFile \in RbFiles
      /\ rbLoad = "reading" => rbHandler.result = "ok"
      /\ rbLoad = "ok" => rbEvents = <<>> /\ rbHandler.result = "ok"
  BY Zenon DEF RbInv
<1>3. CASE ReadEvent
  <2>1. /\ rbLoad = "reading" /\ rbEvents # <<>> /\ rbFile' = rbFile
        /\ rbHandler' = Handle(rbHandler, Head(rbEvents)) /\ rbEvents' = Tail(rbEvents)
        /\ rbLoad' = IF rbHandler'.result = "ok" THEN "reading" ELSE rbHandler'.result
    BY <1>3, Zenon DEF ReadEvent
  <2>2. rbHandler' = Taken(rbHandler, Head(rbEvents))
    BY <1>2, <2>1, Zenon DEF Taken
  <2>3. ReadsTo(rbHandler', rbEvents', g)
    BY <1>1, <2>1, <2>2, ReadsHead, Zenon
  <2>4. \E f : Final(rbFile', f) /\ ReadsTo(rbHandler', rbEvents', f)
    BY <1>1, <2>1, <2>3, Zenon
  <2>5. CASE rbHandler'.result = "ok"
    <3>1. rbLoad' = "reading" /\ rbLoad' # "ok"
      BY <2>1, <2>5
    <3> QED
      BY <1>2, <2>1, <2>4, <2>5, <3>1, Zenon DEF RbInv
  <2>6. CASE rbHandler'.result # "ok"
    <3>1. rbHandler'.result = "crash"
      BY <2>4, <2>6, FailedEnds, Zenon
    <3>2. rbLoad' # "reading" /\ rbLoad' # "ok"
      BY <2>1, <3>1
    <3> QED
      BY <1>2, <2>1, <2>4, <3>2, Zenon DEF RbInv
  <2> QED
    BY <2>5, <2>6
<1>4. CASE Truncated
  <2>1. rbLoad' = "error" /\ rbFile' = rbFile /\ rbEvents' = rbEvents /\ rbHandler' = rbHandler
    BY <1>4 DEF Truncated
  <2>2. rbLoad' # "reading" /\ rbLoad' # "ok"
    BY <2>1
  <2> QED
    BY <1>1, <1>2, <2>1, <2>2, Zenon DEF RbInv
<1>5. CASE BuildIndex
  <2>1. /\ rbLoad = "reading" /\ rbEvents = <<>>
        /\ rbFile' = rbFile /\ rbEvents' = rbEvents /\ rbHandler' = rbHandler
    BY <1>5 DEF BuildIndex
  <2> QED
    BY <1>1, <1>2, <2>1, Zenon DEF RbInv
<1>6. CASE UNCHANGED rbVars \/ \E n \in RbNames : ChoosePlan(n)
  <2>1. rbFile' = rbFile /\ rbEvents' = rbEvents /\ rbHandler' = rbHandler /\ rbLoad' = rbLoad
    BY <1>6 DEF rbVars, ChoosePlan
  <2> QED
    BY <1>1, <1>2, <2>1, Zenon DEF RbInv
<1> QED
  BY <1>3, <1>4, <1>5, <1>6, Zenon DEF RbNext

\* The invariant says what the handler is when load() has succeeded.
LEMMA RbInvReadsBack == RbInv => PlansReadBack
<1> SUFFICES ASSUME RbInv PROVE PlansReadBack
  OBVIOUS
<1> DEFINE n == Len(rbFile)
           bs == rbHandler.bands
<1>1. PICK g : Final(rbFile, g) /\ ReadsTo(rbHandler, rbEvents, g)
  BY Zenon DEF RbInv
<1>2. n \in Nat /\ \A i \in 1 .. n : PlanOK(rbFile[i])
  BY RbAssumption, Zenon DEF RbInv
<1>3. rbHandler.result # "error"
  <2>1. rbHandler.result # "ok" => rbHandler.result = "crash"
    BY <1>1, FailedEnds, Zenon
  <2> QED
    BY <2>1
<1>4. rbHandler.result = "crash" => \E i \in 1 .. n : rbFile[i].up = <<>> /\ rbFile[i].down # <<>>
  <2>1. rbHandler.result = "crash" => rbHandler.result # "ok"
    OBVIOUS
  <2>2. rbHandler.result = "crash" => BadBefore(rbFile, n)
    BY <1>1, <2>1, FailedEnds, Zenon
  <2> QED
    BY <2>2, Zenon DEF BadBefore, Bad
<1>5. ASSUME rbLoad = "ok"
      PROVE  /\ [i \in 1 .. Len(bs) |-> NoFlags(bs[i])] = [i \in 1 .. n |-> NoFlags(rbFile[i])]
             /\ \A i \in 1 .. n : rbFile[i].down = <<>> => bs[i].up = rbFile[i].up
  <2>1. rbEvents = <<>> /\ rbHandler.result = "ok"
    BY <1>5, Zenon DEF RbInv
  <2>2. g = rbHandler
    BY <1>1, <2>1, NothingLeft, Zenon
  <2>3. rbHandler.result # "crash"
    BY <2>1
  <2>4. bs = BackAll(rbFile, n)
    BY <1>1, <2>2, <2>3, Zenon DEF Final
  <2>5. Len(bs) = n /\ \A i \in 1 .. n : bs[i] = Back(rbFile[i])
    BY <1>2, <2>4 DEF BackAll
  <2> HIDE DEF bs, n
  <2>6. ASSUME NEW i \in 1 .. n PROVE NoFlags(bs[i]) = NoFlags(rbFile[i])
    BY <1>2, <2>5, BackPlain, Zenon
  <2>7. ASSUME NEW i \in 1 .. n, rbFile[i].down = <<>> PROVE bs[i].up = rbFile[i].up
    <3> DEFINE p == rbFile[i]
    <3>1. p.up \in Seq(Channels) /\ p.down \in Seq(Channels)
      BY <1>2, PlanFields, Zenon
    <3>2. UpBack(p) = p.up
      BY <2>7, <3>1, UpPlain, Zenon
    <3> HIDE DEF p
    <3>3. Back(p).up = UpBack(p)
      BY DEF Back, B
    <3> QED
      BY <2>5, <3>2, <3>3, Zenon DEF p
  <2> QED
    BY <2>5, <2>6, <2>7, Zenon
<1> QED
  BY <1>3, <1>4, <1>5, Zenon DEF PlansReadBack

(***************************************************************************)
(* For every file of plans, of any number and with arrays of any size, the *)
(* handler reads back what toJsonString() wrote: attributes, data rates,   *)
(* payload sizes, offsets and channels are each in their place, the file   *)
(* is never refused, and the reader breaks only on a plan with downlink    *)
(* channels and without uplink channels.                                   *)
(***************************************************************************)
THEOREM PlansAreReadBack == RbSpec => []PlansReadBack
<1>1. RbInit => RbInv
  BY RbInvStarts
<1>2. RbInv /\ [RbNext]_rbVars => RbInv'
  BY RbInvKept
<1>3. RbInv => PlansReadBack
  BY RbInvReadsBack
<1> QED
  BY <1>1, <1>2, <1>3, PTL DEF RbSpec
=============================================================================
