----------------------------- MODULE MacProofs ------------------------------
(***************************************************************************)
(* MAC commands: that the commands of a command line come back out of the  *)
(* bytes they become, and that MacPtr counts the bytes of a payload        *)
(* exactly.                                                                *)
(***************************************************************************)
EXTENDS MacGateway, OrderLemmas

(***************************************************************************)
(* Sums.                                                                   *)
(***************************************************************************)
\* sum holds the sums of the prefixes of s.
Sums(s, sum) ==
  /\ sum[0] = 0
  /\ \A n \in 1 .. Len(s) : sum[n] = sum[n - 1] + s[n]

LEMMA TotalSums ==
  ASSUME NEW s \in Seq(Int)
  PROVE  \E sum \in [0 .. Len(s) -> Int] : Sums(s, sum) /\ Total(s) = sum[Len(s)]
<1> DEFINE L == Len(s)
           step == [i \in 1 .. L |-> [x \in Int |-> x + s[i]]]
           Loop(t) == t = [n \in 0 .. Len(s) |-> IF n = 0 THEN 0 ELSE t[n - 1] + s[n]]
           sum == CHOOSE t : Loop(t)
<1>1. L \in Nat /\ 0 \in Int /\ \A i \in 1 .. L : s[i] \in Int
  OBVIOUS
<1>2. step \in [1 .. L -> [Int -> Int]]
  BY <1>1
<1>12. \A i \in 1 .. L : \A x \in Int : step[i][x] = x + s[i]
  OBVIOUS
<1> HIDE DEF step
<1>3. PICK r : LoopRun(r, Int, 0, L, step)
  <2> HIDE DEF L
  <2> QED
    BY <1>1, <1>2, LoopRuns
<1>4. /\ r \in [0 .. L -> Int] /\ r[0] = 0
      /\ \A i \in 1 .. L : r[i] = step[i][r[i - 1]]
  BY <1>3 DEF LoopRun
<1>5. \A i \in 1 .. L : r[i - 1] \in Int /\ r[i] = r[i - 1] + s[i]
  <2>1. \A i \in 1 .. L : r[i - 1] \in Int
    BY <1>1, <1>4
  <2> QED
    BY <1>4, <1>12, <2>1
<1>6. Loop(r)
  BY <1>1, <1>4, <1>5
<1>7. Loop(sum)
  BY <1>6, Zenon
<1>8. Total(s) = sum[L]
  BY DEF Total
<1> HIDE DEF sum
<1>9. Sums(s, sum)
  BY <1>1, <1>7 DEF Sums
<1> DEFINE T == {k \in Nat : k <= L => sum[k] \in Int}
<1>10. L \in Nat /\ Nat \subseteq T
  <2>1. 0 \in T
    BY <1>9 DEF Sums
  <2>2. ASSUME NEW k \in Nat, k \in T PROVE k + 1 \in T
    <3> SUFFICES ASSUME k + 1 <= L PROVE sum[k + 1] \in Int
      OBVIOUS
    <3>1. k + 1 \in 1 .. L /\ sum[k] \in Int
      BY <1>1, <2>2
    <3> QED
      BY <1>1, <1>9, <3>1 DEF Sums
  <2> HIDE DEF T
  <2> QED
    BY <1>1, <2>1, <2>2, EveryNat
<1>11. sum \in [0 .. L -> Int]
  <2>1. \A k \in 0 .. L : sum[k] \in Int
    BY <1>10
  <2>2. sum = [n \in 0 .. L |-> IF n = 0 THEN 0 ELSE sum[n - 1] + s[n]]
    BY <1>7
  <2> QED
    BY <2>1, <2>2
<1> QED
  BY <1>8, <1>9, <1>11

LEMMA TotalEmpty == Total(<<>>) = 0
<1>1. <<>> \in Seq(Int) /\ Len(<<>>) = 0
  OBVIOUS
<1>2. PICK sum \in [0 .. Len(<<>>) -> Int] : Sums(<<>>, sum) /\ Total(<<>>) = sum[Len(<<>>)]
  BY <1>1, TotalSums
<1> QED
  BY <1>1, <1>2 DEF Sums

LEMMA TotalAppend ==
  ASSUME NEW s \in Seq(Int), NEW x \in Int
  PROVE  Total(Append(s, x)) = Total(s) + x
<1> DEFINE t == Append(s, x)
<1>1. PICK a \in [0 .. Len(s) -> Int] : Sums(s, a) /\ Total(s) = a[Len(s)]
  BY TotalSums
<1>2. t \in Seq(Int) /\ Len(t) = Len(s) + 1 /\ t[Len(s) + 1] = x
      /\ \A i \in 1 .. Len(s) : t[i] = s[i]
  OBVIOUS
<1>3. PICK b \in [0 .. Len(t) -> Int] : Sums(t, b) /\ Total(t) = b[Len(t)]
  BY <1>2, TotalSums
<1> HIDE DEF t
<1> DEFINE T == {k \in Nat : k <= Len(s) => b[k] = a[k]}
<1>4. 0 \in T
  BY <1>1, <1>3 DEF Sums
<1>5. ASSUME NEW k \in Nat, k \in T PROVE k + 1 \in T
  <2> SUFFICES ASSUME k + 1 <= Len(s) PROVE b[k + 1] = a[k + 1]
    OBVIOUS
  <2>1. k + 1 \in 1 .. Len(s) /\ k + 1 \in 1 .. Len(t) /\ b[k] = a[k]
    BY <1>2, <1>5
  <2> QED
    BY <1>1, <1>2, <1>3, <2>1 DEF Sums
<1>6. Len(s) \in Nat /\ Len(s) \in T
  <2> HIDE DEF T
  <2>1. Nat \subseteq T
    BY <1>4, <1>5, EveryNat
  <2> QED
    BY <2>1
<1>7. b[Len(s) + 1] = b[Len(s)] + x
  BY <1>2, <1>3, SMTT(30) DEF Sums
<1> QED
  BY <1>1, <1>2, <1>3, <1>6, <1>7 DEF t

LEMMA TotalType ==
  /\ \A s \in Seq(Int) : Total(s) \in Int
  /\ \A s \in Seq(Nat) : Total(s) \in Nat
<1>1. \A s \in Seq(Int) : Total(s) \in Int
  BY TotalSums
<1>2. ASSUME NEW s \in Seq(Nat) PROVE Total(s) \in Nat
  <2>1. s \in Seq(Int) /\ Len(s) \in Nat /\ \A i \in 1 .. Len(s) : s[i] \in Nat
    OBVIOUS
  <2>2. PICK a \in [0 .. Len(s) -> Int] : Sums(s, a) /\ Total(s) = a[Len(s)]
    BY <2>1, TotalSums
  <2> DEFINE T == {k \in Nat : k <= Len(s) => a[k] \in Nat}
  <2>3. 0 \in T
    BY <2>2 DEF Sums
  <2>4. ASSUME NEW k \in Nat, k \in T PROVE k + 1 \in T
    <3> SUFFICES ASSUME k + 1 <= Len(s) PROVE a[k + 1] \in Nat
      OBVIOUS
    <3>1. k + 1 \in 1 .. Len(s) /\ a[k] \in Nat
      BY <2>1, <2>4
    <3> QED
      BY <2>1, <2>2, <3>1, SMTT(30) DEF Sums
  <2>5. Len(s) \in T
    <3> HIDE DEF T
    <3> QED
      BY <2>1, <2>3, <2>4, EveryNat
  <2> QED
    BY <2>1, <2>2, <2>5
<1> QED
  BY <1>1, <1>2

\* The sums of the few fields of a structure.
LEMMA TotalOfFew ==
  ASSUME NEW s \in Seq(Int)
  PROVE  /\ Len(s) = 1 => Total(s) = s[1]
         /\ Len(s) = 2 => Total(s) = s[1] + s[2]
         /\ Len(s) = 3 => Total(s) = s[1] + s[2] + s[3]
         /\ Len(s) = 4 => Total(s) = s[1] + s[2] + s[3] + s[4]
         /\ Len(s) = 6 => Total(s) = s[1] + s[2] + s[3] + s[4] + s[5] + s[6]
<1>1. PICK a \in [0 .. Len(s) -> Int] : Sums(s, a) /\ Total(s) = a[Len(s)]
  BY TotalSums
<1>2. a[0] = 0 /\ \A n \in 1 .. Len(s) : s[n] \in Int /\ a[n] \in Int /\ a[n] = a[n - 1] + s[n]
  BY <1>1 DEF Sums
<1>3. 1 - 1 = 0 /\ 2 - 1 = 1 /\ 3 - 1 = 2 /\ 4 - 1 = 3 /\ 5 - 1 = 4 /\ 6 - 1 = 5
  OBVIOUS
<1>4. Len(s) >= 1 => a[1] = s[1]
  BY <1>2
<1>5. Len(s) >= 2 => a[2] = s[1] + s[2]
  BY <1>2, <1>4
<1>6. Len(s) >= 3 => a[3] = s[1] + s[2] + s[3]
  BY <1>2, <1>5
<1>7. Len(s) >= 4 => a[4] = s[1] + s[2] + s[3] + s[4]
  BY <1>2, <1>6
<1>8. Len(s) >= 5 => a[5] = s[1] + s[2] + s[3] + s[4] + s[5]
  BY <1>2, <1>7
<1>9. Len(s) >= 6 => a[6] = a[5] + s[6]
  BY <1>2
<1>10. Len(s) >= 6 => a[6] = s[1] + s[2] + s[3] + s[4] + s[5] + s[6]
  BY <1>2, <1>8, <1>9
<1>11. \A n \in Nat : Len(s) = n => Total(s) = a[n]
  BY <1>1
<1>12. Len(s) \in Nat
  OBVIOUS
<1>13. Len(s) = 1 => Total(s) = s[1]
  BY <1>4, <1>11, <1>12
<1>14. Len(s) = 2 => Total(s) = s[1] + s[2]
  BY <1>5, <1>11, <1>12
<1>15. Len(s) = 3 => Total(s) = s[1] + s[2] + s[3]
  BY <1>6, <1>11, <1>12
<1>16. Len(s) = 4 => Total(s) = s[1] + s[2] + s[3] + s[4]
  BY <1>7, <1>11, <1>12
<1>17. Len(s) = 6 => Total(s) = s[1] + s[2] + s[3] + s[4] + s[5] + s[6]
  BY <1>10, <1>11, <1>12
<1> QED
  BY <1>13, <1>14, <1>15, <1>16, <1>17

(***************************************************************************)
(* The tables.                                                             *)
(***************************************************************************)
Widths == {1, 2, 3, 4, 5, 6, 7, 8, 16, 24, 32}

\* A sequence of bit fields.
Structure(fs) ==
  /\ Len(fs) \in Nat /\ fs \in Seq({fs[i] : i \in 1 .. Len(fs)})
  /\ \A i \in 1 .. Len(fs) : fs[i].bits \in Widths

LEMMA CodesDiffer ==
  \A c \in Cids : /\ Code[c] \in Nat /\ Code[c] # 0
                  /\ \A d \in Cids : Code[c] = Code[d] => c = d
BY DEF Cids, Code

LEMMA CidOfCode == \A c \in Cids : CidOf(Code[c]) = c
BY CodesDiffer DEF CidOf

LEMMA StructFields ==
  /\ \A s \in DOMAIN MacStructs1 : Structure(MacStructs1[s])
  /\ \A s \in DOMAIN MacStructs2 : Structure(MacStructs2[s])
<1> USE DEF Structure, Widths, F
<1>1. ASSUME NEW s \in DOMAIN MacStructs1 PROVE Structure(MacStructs1[s])
  <2>1. Structure(MacStructs1["EMPTY"])
    BY DEF MacStructs1
  <2>2. Structure(MacStructs1["RESET"])
    BY DEF MacStructs1
  <2>3. Structure(MacStructs1["LINK_CHECK"])
    BY DEF MacStructs1
  <2>4. Structure(MacStructs1["LINK_ADR_REQ"])
    BY DEF MacStructs1
  <2>5. Structure(MacStructs1["LINK_ADR_RESP"])
    BY DEF MacStructs1
  <2>6. Structure(MacStructs1["DUTY_CYCLE"])
    BY DEF MacStructs1
  <2>7. Structure(MacStructs1["RXPARAM_REQ"])
    BY DEF MacStructs1
  <2>8. Structure(MacStructs1["RXPARAM_RESP"])
    BY DEF MacStructs1
  <2>9. Structure(MacStructs1["DEVSTATUS"])
    BY DEF MacStructs1
  <2>10. Structure(MacStructs1["NEWCHANNEL_REQ"])
    BY DEF MacStructs1
  <2>11. Structure(MacStructs1["NEWCHANNEL_RESP"])
    BY DEF MacStructs1
  <2>12. Structure(MacStructs1["TIMINGSETUP"])
    BY DEF MacStructs1
  <2>13. Structure(MacStructs1["TXPARAMSETUP"])
    BY DEF MacStructs1
  <2>14. Structure(MacStructs1["DLCHANNEL_REQ"])
    BY DEF MacStructs1
  <2>15. Structure(MacStructs1["DLCHANNEL_RESP"])
    BY DEF MacStructs1
  <2>16. s \in {"EMPTY", "RESET", "LINK_CHECK", "LINK_ADR_REQ", "LINK_ADR_RESP",
            "DUTY_CYCLE", "RXPARAM_REQ", "RXPARAM_RESP", "DEVSTATUS",
            "NEWCHANNEL_REQ", "NEWCHANNEL_RESP", "TIMINGSETUP", "TXPARAMSETUP",
            "DLCHANNEL_REQ", "DLCHANNEL_RESP"}
    BY DEF MacStructs1
  <2> HIDE DEF Structure
  <2> QED
    BY <2>1, <2>2, <2>3, <2>4, <2>5, <2>6, <2>7, <2>8, <2>9, <2>10, <2>11, <2>12, <2>13, <2>14, <2>15, <2>16
<1>2. ASSUME NEW s \in DOMAIN MacStructs2 PROVE Structure(MacStructs2[s])
  <2>1. Structure(MacStructs2["REKEY"])
    BY DEF MacStructs2
  <2>2. Structure(MacStructs2["ADRPARAMSETUP"])
    BY DEF MacStructs2
  <2>3. Structure(MacStructs2["DEVICETIME"])
    BY DEF MacStructs2
  <2>4. Structure(MacStructs2["FORCEREJOIN"])
    BY DEF MacStructs2
  <2>5. Structure(MacStructs2["REJOINPARAM_REQ"])
    BY DEF MacStructs2
  <2>6. Structure(MacStructs2["REJOINPARAM_RESP"])
    BY DEF MacStructs2
  <2>7. Structure(MacStructs2["PINGSLOTINFO"])
    BY DEF MacStructs2
  <2>8. Structure(MacStructs2["PINGCHANNEL_REQ"])
    BY DEF MacStructs2
  <2>9. Structure(MacStructs2["PINGCHANNEL_RESP"])
    BY DEF MacStructs2
  <2>10. Structure(MacStructs2["BEACONTIMING"])
    BY DEF MacStructs2
  <2>11. Structure(MacStructs2["BEACONFREQ_REQ"])
    BY DEF MacStructs2
  <2>12. Structure(MacStructs2["BEACONFREQ_RESP"])
    BY DEF MacStructs2
  <2>13. Structure(MacStructs2["DEVICEMODE"])
    BY DEF MacStructs2
  <2>14. s \in {"REKEY", "ADRPARAMSETUP", "DEVICETIME", "FORCEREJOIN",
            "REJOINPARAM_REQ", "REJOINPARAM_RESP", "PINGSLOTINFO",
            "PINGCHANNEL_REQ", "PINGCHANNEL_RESP", "BEACONTIMING",
            "BEACONFREQ_REQ", "BEACONFREQ_RESP", "DEVICEMODE"}
    BY DEF MacStructs2
  <2> HIDE DEF Structure
  <2> QED
    BY <2>1, <2>2, <2>3, <2>4, <2>5, <2>6, <2>7, <2>8, <2>9, <2>10, <2>11, <2>12, <2>13, <2>14
<1> QED
  BY <1>1, <1>2

LEMMA SideStructs ==
  \A c \in Cids : /\ ClientSide[c] \in DOMAIN MacStructs1 \cup DOMAIN MacStructs2
                  /\ ServerSide[c] \in DOMAIN MacStructs1 \cup DOMAIN MacStructs2
BY DEF Cids, Code, ClientSide, ServerSide, MacStructs1, MacStructs2

LEMMA FieldsOfType ==
  ASSUME NEW c \in Cids, NEW client
  PROVE  Structure(FieldsOf(c, client))
BY SideStructs, StructFields DEF FieldsOf, Fields

(***************************************************************************)
(* Sizes and offsets.                                                      *)
(***************************************************************************)
LEMMA BitsType ==
  ASSUME NEW fs, Structure(fs)
  PROVE  Bits(fs) \in Nat
<1>1. \A w \in Widths : w \in Nat
  BY DEF Widths
<1>2. [i \in 1 .. Len(fs) |-> fs[i].bits] \in Seq(Nat)
  BY <1>1 DEF Structure
<1> QED
  BY <1>2, TotalType DEF Bits

LEMMA SizeType ==
  ASSUME NEW c \in Cids, NEW client
  PROVE  commandSize(c, client) \in Nat /\ commandSize(c, client) >= 1
<1>1. Bits(FieldsOf(c, client)) \in Nat
  BY FieldsOfType, BitsType
<1> QED
  BY <1>1 DEF commandSize

LEMMA SizeOfString ==
  ASSUME NEW m, m.cid \in Cids
  PROVE  /\ Len(toString(m)) = commandSize(m.cid, m.client)
         /\ toString(m)[1] = Code[m.cid]
         /\ \A k \in 1 .. commandSize(m.cid, m.client) - 1 :
               toString(m)[k + 1] = Total([i \in 1 .. Len(FieldsOf(m.cid, m.client)) |->
                                       Part(FieldsOf(m.cid, m.client), m.data, i, k - 1)])
<1> DEFINE size == commandSize(m.cid, m.client)
           byte(k) == Total([i \in 1 .. Len(FieldsOf(m.cid, m.client)) |->
                         Part(FieldsOf(m.cid, m.client), m.data, i, k - 1)])
           rest == [k \in 1 .. size - 1 |-> byte(k)]
<1>1. size \in Nat /\ size >= 1
  BY SizeType
<1>2. toString(m) = <<Code[m.cid]>> \o rest
  BY DEF toString
<1> HIDE DEF size, byte
<1>3. Len(rest) = size - 1 /\ rest \in Seq({byte(k) : k \in 1 .. size - 1})
      /\ \A k \in 1 .. size - 1 : rest[k] = byte(k)
  BY <1>1
<1> DEFINE S == {byte(k) : k \in 1 .. size - 1} \cup {Code[m.cid]}
<1>4. <<Code[m.cid]>> \in Seq(S) /\ rest \in Seq(S)
  BY <1>1
<1> HIDE DEF rest, S
<1>5. Len(<<Code[m.cid]>> \o rest) = size /\ (<<Code[m.cid]>> \o rest)[1] = Code[m.cid]
      /\ \A k \in 1 .. size - 1 : (<<Code[m.cid]>> \o rest)[k + 1] = rest[k]
  BY <1>1, <1>3, <1>4
<1> QED
  BY <1>2, <1>3, <1>5 DEF size, byte

LEMMA Offsets ==
  ASSUME NEW fs, Structure(fs)
  PROVE  /\ Offset(fs, 1) = 0
         /\ \A i \in 1 .. Len(fs) : Offset(fs, i + 1) = Offset(fs, i) + fs[i].bits
         /\ Bits(fs) = Offset(fs, Len(fs) + 1)
<1> DEFINE B(n) == [j \in 1 .. n |-> fs[j].bits]
<1>1. \A w \in Widths : w \in Int
  BY DEF Widths
<1>2. \A i \in 1 .. Len(fs) : fs[i].bits \in Int
  BY <1>1 DEF Structure
<1>3. Len(fs) \in Nat
  BY DEF Structure
<1>4. ASSUME NEW n \in 0 .. Len(fs) PROVE Offset(fs, n + 1) = Total(B(n)) /\ B(n) \in Seq(Int)
  <2> DEFINE S == {fs[i] : i \in 1 .. Len(fs)}
             p == SubSeq(fs, 1, n)
  <2>1. fs \in Seq(S)
    BY DEF Structure
  <2> HIDE DEF S
  <2>2. Len(p) = n /\ \A j \in 1 .. n : p[j] = fs[j]
    BY <1>3, <2>1
  <2>3. n + 1 - 1 = n
    BY <1>3
  <2>4. Offset(fs, n + 1) = Bits(p)
    BY <2>3 DEF Offset
  <2> HIDE DEF p
  <2>5. [i \in 1 .. Len(p) |-> p[i].bits] = B(n)
    BY <2>2
  <2>6. B(n) \in Seq(Int)
    BY <1>2, <1>3
  <2> QED
    BY <2>4, <2>5, <2>6 DEF Bits
<1>5. Offset(fs, 1) = 0
  <2>1. 0 \in 0 .. Len(fs) /\ 0 + 1 = 1 /\ B(0) = <<>>
    BY <1>3
  <2> HIDE DEF B
  <2> QED
    BY <1>4, <2>1, TotalEmpty
<1>6. ASSUME NEW i \in 1 .. Len(fs) PROVE Offset(fs, i + 1) = Offset(fs, i) + fs[i].bits
  <2>1. i \in 0 .. Len(fs) /\ i - 1 \in 0 .. Len(fs) /\ i - 1 + 1 = i /\ fs[i].bits \in Int
    BY <1>2, <1>3
  <2>2. B(i) = Append(B(i - 1), fs[i].bits)
    BY <1>2, <1>3
  <2> HIDE DEF B
  <2> QED
    BY <1>4, <2>1, <2>2, TotalAppend
<1>7. Bits(fs) = Offset(fs, Len(fs) + 1)
  <2>1. Len(fs) \in 0 .. Len(fs)
    BY <1>3
  <2> QED
    BY <1>4, <2>1 DEF Bits
<1> QED
  BY <1>5, <1>6, <1>7

(***************************************************************************)
(* Fields in bytes.                                                        *)
(***************************************************************************)
LEMMA Powers2 ==
  /\ \A x : x = 0 => 2^x = 1
  /\ \A x : x = 1 => 2^x = 2
  /\ \A x : x = 2 => 2^x = 4
  /\ \A x : x = 3 => 2^x = 8
  /\ \A x : x = 4 => 2^x = 16
  /\ \A x : x = 5 => 2^x = 32
  /\ \A x : x = 6 => 2^x = 64
  /\ \A x : x = 7 => 2^x = 128
  /\ \A x : x = 8 => 2^x = 256
  /\ \A x : x = 16 => 2^x = 65536
  /\ \A x : x = 24 => 2^x = 16777216
<1>1. \A x : x = 0 => 2^x = 1
  BY SMT
<1>2. \A x : x = 1 => 2^x = 2
  BY SMT
<1>3. \A x : x = 2 => 2^x = 4
  BY SMT
<1>4. \A x : x = 3 => 2^x = 8
  BY SMT
<1>5. \A x : x = 4 => 2^x = 16
  BY SMT
<1>6. \A x : x = 5 => 2^x = 32
  BY SMT
<1>7. \A x : x = 6 => 2^x = 64
  BY SMT
<1>8. \A x : x = 7 => 2^x = 128
  BY SMT
<1>9. \A x : x = 8 => 2^x = 256
  BY SMT
<1>10. \A x : x = 16 => 2^x = 65536
  BY SMT
<1>11. \A x : x = 24 => 2^x = 16777216
  BY SMT
<1> QED
  BY <1>1, <1>2, <1>3, <1>4, <1>5, <1>6, <1>7, <1>8, <1>9, <1>10, <1>11, SMT

LEMMA Powers256 ==
  /\ \A x : x = 0 => 256^x = 1
  /\ \A x : x = 1 => 256^x = 256
  /\ \A x : x = 2 => 256^x = 65536
<1>1. \A x : x = 0 => 256^x = 1
  BY SMT
<1>2. \A x : x = 1 => 256^x = 256
  BY SMT
<1>3. \A x : x = 2 => 256^x = 65536
  BY SMT
<1> QED
  BY <1>1, <1>2, <1>3, SMT

OffsetsOf(fs, n) ==
  /\ Offset(fs, 1) = 0
  /\ \A i \in 1 .. n : \A j : j = i + 1 => Offset(fs, j) = Offset(fs, i) + fs[i].bits
  /\ \A j : j = n + 1 => Bits(fs) = Offset(fs, j)

LEMMA OffsetsOfFew ==
  ASSUME NEW fs, Structure(fs), NEW n \in Nat, Len(fs) = n
  PROVE  OffsetsOf(fs, n)
BY Offsets DEF OffsetsOf

TwoBytes(d) == (d % 256) + ((d \div 256) % 256) * 256 = d
ThreeBytes(d) == (d % 256) + ((d \div 256) % 256) * 256 + ((d \div 65536) % 256) * 65536 = d

LEMMA BytesOfWhole ==
  ASSUME NEW d \in Nat
  PROVE  /\ d < 65536 => TwoBytes(d)
         /\ d < 16777216 => ThreeBytes(d)
<1>1. d < 65536 => TwoBytes(d)
  BY SMT DEF TwoBytes
<1>2. d < 16777216 => ThreeBytes(d)
  BY SMT DEF ThreeBytes
<1> QED
  BY <1>1, <1>2

\* The part of a field in the byte where it begins, in the bytes where it goes
\* on, and elsewhere.
PartCases(fs, data, i, k, o, w, d) ==
  /\ k = o \div 8 => Part(fs, data, i, k) = ((d % 256) * 2^(o % 8)) % 256
  /\ k < o \div 8 => Part(fs, data, i, k) = 0
  /\ k > o \div 8 /\ (k - o \div 8) * 8 >= w => Part(fs, data, i, k) = 0
  /\ k = o \div 8 + 1 /\ w > 8 => Part(fs, data, i, k) = (d \div 256) % 256
  /\ k = o \div 8 + 2 /\ w > 16 => Part(fs, data, i, k) = (d \div 65536) % 256

LEMMA Parts ==
  ASSUME NEW fs, NEW data, NEW i, NEW k \in Nat, NEW o \in Nat, Offset(fs, i) = o,
         NEW w \in Nat, fs[i].bits = w, NEW d, data[i] = d
  PROVE  PartCases(fs, data, i, k, o, w, d)
<1> DEFINE first == o \div 8
<1>1. first \in Nat
  OBVIOUS
<1>2. Part(fs, data, i, k) =
        IF k = first THEN ((d % 256) * 2^(o % 8)) % 256
        ELSE IF k \in first + 1 .. first + 3 /\ (k - first) * 8 < w
             THEN (d \div 256^(k - first)) % 256 ELSE 0
  BY DEF Part
<1> HIDE DEF first
<1>3. k = first => Part(fs, data, i, k) = ((d % 256) * 2^(o % 8)) % 256
  BY <1>2
<1>4. k < first => Part(fs, data, i, k) = 0
  BY <1>1, <1>2
<1>5. k > first /\ (k - first) * 8 >= w => Part(fs, data, i, k) = 0
  BY <1>1, <1>2
<1>6. ASSUME k = first + 1, w > 8 PROVE Part(fs, data, i, k) = (d \div 256) % 256
  <2>1. k - first = 1 /\ k # first /\ k \in first + 1 .. first + 3
    BY <1>1, <1>6
  <2>2. Part(fs, data, i, k) = (d \div 256^(k - first)) % 256
    BY <1>2, <1>6, <2>1
  <2> QED
    BY <2>1, <2>2, Powers256, SMT
<1>7. ASSUME k = first + 2, w > 16 PROVE Part(fs, data, i, k) = (d \div 65536) % 256
  <2>1. k - first = 2 /\ k # first /\ k \in first + 1 .. first + 3
    BY <1>1, <1>7
  <2>2. Part(fs, data, i, k) = (d \div 256^(k - first)) % 256
    BY <1>2, <1>7, <2>1
  <2> QED
    BY <2>1, <2>2, Powers256, SMT
<1> QED
  BY <1>3, <1>4, <1>5, <1>6, <1>7, SMT DEF first, PartCases

\* Field i has w bits in byte `at', from bit sh on.
SmallAt(fs, i, at, sh, w) ==
  /\ \A data : \A k \in Nat :
        data[i] \in Nat /\ data[i] < 2^w =>
          Part(fs, data, i, k) = IF k = at THEN data[i] * 2^sh ELSE 0
  /\ \A B, p : FieldAt(fs, B, p, i) = (B[p + 1 + at] \div 2^sh) % 2^w

LEMMA IsSmall ==
  ASSUME NEW fs, NEW i, NEW at \in Nat, NEW sh \in 0 .. 7, Offset(fs, i) = 8 * at + sh,
         NEW w \in 1 .. 7, fs[i].bits = w, sh + w <= 8
  PROVE  SmallAt(fs, i, at, sh, w)
<1> DEFINE o == 8 * at + sh
<1>1. o \in Nat /\ o \div 8 = at /\ o % 8 = sh
  OBVIOUS
<1>2. ASSUME NEW data, NEW k \in Nat, data[i] \in Nat, data[i] < 2^w
      PROVE  Part(fs, data, i, k) = IF k = at THEN data[i] * 2^sh ELSE 0
  <2> DEFINE d == data[i]
  <2> HIDE DEF o, d
  <2>1. d \in Nat /\ d < 2^w /\ data[i] = d /\ Offset(fs, i) = o /\ w \in Nat
    BY <1>2 DEF o, d
  <2>4. PartCases(fs, data, i, k, o, w, d)
    BY <1>1, <2>1, Parts
  <2>2. CASE k # at
    <3>1. k < at \/ (k > at /\ (k - at) * 8 >= w)
      BY <2>2
    <3> QED
      BY <1>1, <2>2, <2>4, <3>1, SMT DEF PartCases
  <2>3. CASE k = at
    <3>1. Part(fs, data, i, k) = ((d % 256) * 2^sh) % 256
      BY <1>1, <2>3, <2>4, SMT DEF PartCases
    <3>2. ((d % 256) * 2^sh) % 256 = d * 2^sh
      <4>1. CASE sh = 0
        BY <2>1, <4>1, Powers2, SMT
      <4>2. CASE sh = 1
        BY <2>1, <4>2, Powers2, SMT
      <4>3. CASE sh = 2
        BY <2>1, <4>3, Powers2, SMT
      <4>4. CASE sh = 3
        BY <2>1, <4>4, Powers2, SMT
      <4>5. CASE sh = 4
        BY <2>1, <4>5, Powers2, SMT
      <4>6. CASE sh = 5
        BY <2>1, <4>6, Powers2, SMT
      <4>7. CASE sh = 6
        BY <2>1, <4>7, Powers2, SMT
      <4>8. CASE sh = 7
        BY <2>1, <4>8, Powers2, SMT
      <4> QED
        BY <4>1, <4>2, <4>3, <4>4, <4>5, <4>6, <4>7, <4>8
    <3> QED
      BY <2>1, <2>3, <3>1, <3>2
  <2> QED
    BY <2>2, <2>3
<1>3. ASSUME NEW B, NEW p PROVE FieldAt(fs, B, p, i) = (B[p + 1 + at] \div 2^sh) % 2^w
  <2> HIDE DEF o
  <2>1. Offset(fs, i) = o /\ w < 8
    BY DEF o
  <2>2. FieldAt(fs, B, p, i) = (B[p + 1 + o \div 8] \div 2^(o % 8)) % 2^w
    BY <2>1 DEF FieldAt
  <2> QED
    BY <1>1, <2>2
<1> QED
  BY <1>2, <1>3 DEF SmallAt

\* Field i is the w bits from byte `at' on.
WholeAt(fs, i, at, w) ==
  /\ \A data : \A k \in Nat :
        data[i] \in Nat =>
          Part(fs, data, i, k) = IF k = at THEN data[i] % 256
                                 ELSE IF k = at + 1 /\ w > 8 THEN (data[i] \div 256) % 256
                                 ELSE IF k = at + 2 /\ w > 16 THEN (data[i] \div 65536) % 256
                                 ELSE 0
  /\ \A B, p : FieldAt(fs, B, p, i) =
                 Total([k \in 1 .. w \div 8 |-> B[p + 1 + at + k - 1] * 256^(k - 1)])

LEMMA IsWhole ==
  ASSUME NEW fs, NEW i, NEW at \in Nat, Offset(fs, i) = 8 * at,
         NEW w \in {8, 16, 24}, fs[i].bits = w
  PROVE  WholeAt(fs, i, at, w)
<1> DEFINE o == 8 * at
<1>1. o \in Nat /\ o \div 8 = at /\ o % 8 = 0
  OBVIOUS
<1>2. ASSUME NEW data, NEW k \in Nat, data[i] \in Nat
      PROVE  Part(fs, data, i, k) = IF k = at THEN data[i] % 256
                                    ELSE IF k = at + 1 /\ w > 8 THEN (data[i] \div 256) % 256
                                    ELSE IF k = at + 2 /\ w > 16 THEN (data[i] \div 65536) % 256
                                    ELSE 0
  <2> DEFINE d == data[i]
  <2> HIDE DEF o, d
  <2>1. d \in Nat /\ data[i] = d /\ Offset(fs, i) = o /\ w \in Nat /\ w >= 8 /\ w <= 24
    BY <1>2 DEF o, d
  <2>6. PartCases(fs, data, i, k, o, w, d)
    BY <1>1, <2>1, Parts
  <2>2. k = at => Part(fs, data, i, k) = d % 256
    <3>1. 2^(o % 8) = 1
      BY <1>1, Powers2
    <3>2. ((d % 256) * 1) % 256 = d % 256
      BY <2>1
    <3>3. k = at => Part(fs, data, i, k) = ((d % 256) * 2^(o % 8)) % 256
      BY <1>1, <2>6, SMT DEF PartCases
    <3> QED
      BY <3>1, <3>2, <3>3
  <2>3. k < at \/ (k > at /\ (k - at) * 8 >= w) => Part(fs, data, i, k) = 0
    BY <1>1, <2>6, SMT DEF PartCases
  <2>4. k = at + 1 /\ w > 8 => Part(fs, data, i, k) = (d \div 256) % 256
    BY <1>1, <2>6, SMT DEF PartCases
  <2>5. k = at + 2 /\ w > 16 => Part(fs, data, i, k) = (d \div 65536) % 256
    BY <1>1, <2>6, SMT DEF PartCases
  <2> QED
    BY <2>1, <2>2, <2>3, <2>4, <2>5, SMT
<1>3. ASSUME NEW B, NEW p
      PROVE  FieldAt(fs, B, p, i) =
                Total([k \in 1 .. w \div 8 |-> B[p + 1 + at + k - 1] * 256^(k - 1)])
  <2> HIDE DEF o
  <2>1. Offset(fs, i) = o /\ ~ (w < 8) /\ ~ (w > 24)
    BY DEF o
  <2>2. FieldAt(fs, B, p, i) =
          Total([k \in 1 .. w \div 8 |-> B[p + 1 + o \div 8 + k - 1] * 256^(k - 1)])
    BY <2>1 DEF FieldAt
  <2> QED
    BY <1>1, <2>2
<1> QED
  BY <1>2, <1>3, SMT DEF WholeAt

\* The bytes from p + 1 on are those of the fields, each with a value that fits.
Carried(fs, data, B, p) ==
  /\ \A i \in 1 .. Len(fs) : data[i] \in Nat /\ data[i] < 2^fs[i].bits
  /\ \A k \in 0 .. Bits(fs) \div 8 - 1 :
        B[p + 1 + k] = Total([i \in 1 .. Len(fs) |-> Part(fs, data, i, k)])

ReadsBack(fs, data, B, p) == \A i \in 1 .. Len(fs) : FieldAt(fs, B, p, i) = data[i]

Packed332(x, a, b, c) ==
  /\ a \in Nat /\ a < 8 /\ b \in Nat /\ b < 8 /\ c \in Nat /\ c < 4
  /\ x = a + b * 8 + c * 64

Packed4112(x, a, b, c, d) ==
  /\ a \in Nat /\ a < 16 /\ b \in Nat /\ b < 2 /\ c \in Nat /\ c < 2 /\ d \in Nat /\ d < 4
  /\ x = a + b * 16 + c * 32 + d * 64

Packed431(x, a, b, c) ==
  /\ a \in Nat /\ a < 16 /\ b \in Nat /\ b < 8 /\ c \in Nat /\ c < 2
  /\ x = a + b * 16 + c * 128

Packed44(x, a, b) ==
  /\ a \in Nat /\ a < 16 /\ b \in Nat /\ b < 16
  /\ x = a + b * 16

LEMMA Packing ==
  /\ \A x, a, b, c : Packed332(x, a, b, c) =>
        (x \div 1) % 8 = a /\ (x \div 8) % 8 = b /\ (x \div 64) % 4 = c
  /\ \A x, a, b, c, d : Packed4112(x, a, b, c, d) =>
        (x \div 1) % 16 = a /\ (x \div 16) % 2 = b /\ (x \div 32) % 2 = c /\ (x \div 64) % 4 = d
  /\ \A x, a, b, c : Packed431(x, a, b, c) =>
        (x \div 1) % 16 = a /\ (x \div 16) % 8 = b /\ (x \div 128) % 2 = c
  /\ \A x, a, b : Packed44(x, a, b) =>
        (x \div 1) % 16 = a /\ (x \div 16) % 16 = b
<1>1. ASSUME NEW x, NEW a, NEW b, NEW c, Packed332(x, a, b, c)
      PROVE  (x \div 1) % 8 = a /\ (x \div 8) % 8 = b /\ (x \div 64) % 4 = c
  <2>1. (x \div 1) % 8 = a
    BY <1>1, SMT DEF Packed332
  <2>2. (x \div 8) % 8 = b
    BY <1>1, SMT DEF Packed332
  <2>3. (x \div 64) % 4 = c
    BY <1>1, SMT DEF Packed332
  <2> QED
    BY <2>1, <2>2, <2>3
<1>2. ASSUME NEW x, NEW a, NEW b, NEW c, NEW d, Packed4112(x, a, b, c, d)
      PROVE  (x \div 1) % 16 = a /\ (x \div 16) % 2 = b /\ (x \div 32) % 2 = c /\ (x \div 64) % 4 = d
  <2>1. (x \div 1) % 16 = a
    BY <1>2, SMT DEF Packed4112
  <2>2. (x \div 16) % 2 = b
    BY <1>2, SMT DEF Packed4112
  <2>3. (x \div 32) % 2 = c
    BY <1>2, SMT DEF Packed4112
  <2>4. (x \div 64) % 4 = d
    BY <1>2, SMT DEF Packed4112
  <2> QED
    BY <2>1, <2>2, <2>3, <2>4
<1>3. ASSUME NEW x, NEW a, NEW b, NEW c, Packed431(x, a, b, c)
      PROVE  (x \div 1) % 16 = a /\ (x \div 16) % 8 = b /\ (x \div 128) % 2 = c
  <2>1. (x \div 1) % 16 = a
    BY <1>3, SMT DEF Packed431
  <2>2. (x \div 16) % 8 = b
    BY <1>3, SMT DEF Packed431
  <2>3. (x \div 128) % 2 = c
    BY <1>3, SMT DEF Packed431
  <2> QED
    BY <2>1, <2>2, <2>3
<1>4. ASSUME NEW x, NEW a, NEW b, Packed44(x, a, b)
      PROVE  (x \div 1) % 16 = a /\ (x \div 16) % 16 = b
  <2>1. (x \div 1) % 16 = a
    BY <1>4, SMT DEF Packed44
  <2>2. (x \div 16) % 16 = b
    BY <1>4, SMT DEF Packed44
  <2> QED
    BY <2>1, <2>2
<1> QED
  BY <1>1, <1>2, <1>3, <1>4

LEMMA TwoNibbles ==
  ASSUME NEW fs, Structure(fs), Len(fs) = 2,
         fs[1].bits = 4, fs[2].bits = 4,
         NEW data, NEW B, NEW p \in Nat, Carried(fs, data, B, p)
  PROVE  ReadsBack(fs, data, B, p)
<1>0. OffsetsOf(fs, 2)
  BY OffsetsOfFew
<1>1. /\ Offset(fs, 1) = 0
      /\ Offset(fs, 2) = 4
      /\ Offset(fs, 3) = 8
  <2>1. Offset(fs, 1) = 0
    BY <1>0 DEF OffsetsOf
  <2>2. Offset(fs, 2) = 4
    BY <1>0, <2>1 DEF OffsetsOf
  <2>3. Offset(fs, 3) = 8
    BY <1>0, <2>2 DEF OffsetsOf
  <2> QED
    BY <2>1, <2>2, <2>3
<1>2. Bits(fs) \div 8 = 1
  BY <1>0, <1>1 DEF OffsetsOf
<1>3. /\ data[1] \in Nat /\ data[1] < 16
      /\ data[2] \in Nat /\ data[2] < 16
  BY Powers2, SMT DEF Carried
<1>4. /\ SmallAt(fs, 1, 0, 0, 4)
      /\ SmallAt(fs, 2, 0, 4, 4)
  <2>1. SmallAt(fs, 1, 0, 0, 4)
    BY <1>1, IsSmall
  <2>2. SmallAt(fs, 2, 0, 4, 4)
    BY <1>1, IsSmall
  <2> QED
    BY <2>1, <2>2
<1>5. B[p + 1] = data[1] + data[2] * 16
  <2> DEFINE s == [i \in 1 .. Len(fs) |-> Part(fs, data, i, 0)]
  <2>1. B[p + 1 + 0] = Total(s)
    BY <1>2 DEF Carried
  <2>2. /\ s[1] = data[1]
        /\ s[2] = data[2] * 16
    BY <1>3, <1>4, SMT DEF SmallAt, WholeAt
  <2>3. s \in Seq(Int) /\ Len(s) = 2
    <3>1. \A i \in 1 .. 2 : s[i] \in Int
      BY <1>3, <2>2, SMT
    <3> QED
      BY <3>1
  <2> HIDE DEF s
  <2>4. Total(s) = s[1] + s[2]
    BY <2>3, TotalOfFew
  <2> QED
    BY <1>3, <2>1, <2>2, <2>4, SMT
<1>6. FieldAt(fs, B, p, 1) = data[1]
  <2>1. FieldAt(fs, B, p, 1) = (B[p + 1 + 0] \div 1) % 16
    BY <1>4, SMT DEF SmallAt
  <2>2. Packed44(B[p + 1], data[1], data[2])
    BY <1>3, <1>5, SMT DEF Packed44
  <2>3. (B[p + 1] \div 1) % 16 = data[1]
    BY <2>2, Packing
  <2> QED
    BY <2>1, <2>3, SMT
<1>7. FieldAt(fs, B, p, 2) = data[2]
  <2>1. FieldAt(fs, B, p, 2) = (B[p + 1 + 0] \div 16) % 16
    BY <1>4, SMT DEF SmallAt
  <2>2. Packed44(B[p + 1], data[1], data[2])
    BY <1>3, <1>5, SMT DEF Packed44
  <2>3. (B[p + 1] \div 16) % 16 = data[2]
    BY <2>2, Packing
  <2> QED
    BY <2>1, <2>3, SMT
<1> QED
  BY <1>6, <1>7 DEF ReadsBack

LEMMA LinkADRShape ==
  ASSUME NEW fs, Structure(fs), Len(fs) = 6,
         fs[1].bits = 4, fs[2].bits = 4, fs[3].bits = 16, fs[4].bits = 4, fs[5].bits = 3, fs[6].bits = 1,
         NEW data, NEW B, NEW p \in Nat, Carried(fs, data, B, p)
  PROVE  ReadsBack(fs, data, B, p)
<1>0. OffsetsOf(fs, 6)
  BY OffsetsOfFew
<1>1. /\ Offset(fs, 1) = 0
      /\ Offset(fs, 2) = 4
      /\ Offset(fs, 3) = 8
      /\ Offset(fs, 4) = 24
      /\ Offset(fs, 5) = 28
      /\ Offset(fs, 6) = 31
      /\ Offset(fs, 7) = 32
  <2>1. Offset(fs, 1) = 0
    BY <1>0 DEF OffsetsOf
  <2>2. Offset(fs, 2) = 4
    BY <1>0, <2>1 DEF OffsetsOf
  <2>3. Offset(fs, 3) = 8
    BY <1>0, <2>2 DEF OffsetsOf
  <2>4. Offset(fs, 4) = 24
    BY <1>0, <2>3 DEF OffsetsOf
  <2>5. Offset(fs, 5) = 28
    BY <1>0, <2>4 DEF OffsetsOf
  <2>6. Offset(fs, 6) = 31
    BY <1>0, <2>5 DEF OffsetsOf
  <2>7. Offset(fs, 7) = 32
    BY <1>0, <2>6 DEF OffsetsOf
  <2> QED
    BY <2>1, <2>2, <2>3, <2>4, <2>5, <2>6, <2>7
<1>2. Bits(fs) \div 8 = 4
  BY <1>0, <1>1 DEF OffsetsOf
<1>3. /\ data[1] \in Nat /\ data[1] < 16
      /\ data[2] \in Nat /\ data[2] < 16
      /\ data[3] \in Nat /\ data[3] < 65536
      /\ data[4] \in Nat /\ data[4] < 16
      /\ data[5] \in Nat /\ data[5] < 8
      /\ data[6] \in Nat /\ data[6] < 2
  BY Powers2, SMT DEF Carried
<1>4. /\ SmallAt(fs, 1, 0, 0, 4)
      /\ SmallAt(fs, 2, 0, 4, 4)
      /\ WholeAt(fs, 3, 1, 16)
      /\ SmallAt(fs, 4, 3, 0, 4)
      /\ SmallAt(fs, 5, 3, 4, 3)
      /\ SmallAt(fs, 6, 3, 7, 1)
  <2>1. SmallAt(fs, 1, 0, 0, 4)
    BY <1>1, IsSmall
  <2>2. SmallAt(fs, 2, 0, 4, 4)
    BY <1>1, IsSmall
  <2>3. WholeAt(fs, 3, 1, 16)
    BY <1>1, IsWhole
  <2>4. SmallAt(fs, 4, 3, 0, 4)
    BY <1>1, IsSmall
  <2>5. SmallAt(fs, 5, 3, 4, 3)
    BY <1>1, IsSmall
  <2>6. SmallAt(fs, 6, 3, 7, 1)
    BY <1>1, IsSmall
  <2> QED
    BY <2>1, <2>2, <2>3, <2>4, <2>5, <2>6
<1>5. B[p + 1] = data[1] + data[2] * 16
  <2> DEFINE s == [i \in 1 .. Len(fs) |-> Part(fs, data, i, 0)]
  <2>1. B[p + 1 + 0] = Total(s)
    BY <1>2 DEF Carried
  <2>2. /\ s[1] = data[1]
        /\ s[2] = data[2] * 16
        /\ s[3] = 0
        /\ s[4] = 0
        /\ s[5] = 0
        /\ s[6] = 0
    BY <1>3, <1>4, SMT DEF SmallAt, WholeAt
  <2>3. s \in Seq(Int) /\ Len(s) = 6
    <3>1. \A i \in 1 .. 6 : s[i] \in Int
      BY <1>3, <2>2, SMT
    <3> QED
      BY <3>1
  <2> HIDE DEF s
  <2>4. Total(s) = s[1] + s[2] + s[3] + s[4] + s[5] + s[6]
    BY <2>3, TotalOfFew
  <2> QED
    BY <1>3, <2>1, <2>2, <2>4, SMT
<1>6. B[p + 2] = data[3] % 256
  <2> DEFINE s == [i \in 1 .. Len(fs) |-> Part(fs, data, i, 1)]
  <2>1. B[p + 1 + 1] = Total(s)
    BY <1>2 DEF Carried
  <2>2. /\ s[1] = 0
        /\ s[2] = 0
        /\ s[3] = data[3] % 256
        /\ s[4] = 0
        /\ s[5] = 0
        /\ s[6] = 0
    BY <1>3, <1>4, SMT DEF SmallAt, WholeAt
  <2>3. s \in Seq(Int) /\ Len(s) = 6
    <3>1. \A i \in 1 .. 6 : s[i] \in Int
      BY <1>3, <2>2, SMT
    <3> QED
      BY <3>1
  <2> HIDE DEF s
  <2>4. Total(s) = s[1] + s[2] + s[3] + s[4] + s[5] + s[6]
    BY <2>3, TotalOfFew
  <2> QED
    BY <1>3, <2>1, <2>2, <2>4, SMT
<1>7. B[p + 3] = (data[3] \div 256) % 256
  <2> DEFINE s == [i \in 1 .. Len(fs) |-> Part(fs, data, i, 2)]
  <2>1. B[p + 1 + 2] = Total(s)
    BY <1>2 DEF Carried
  <2>2. /\ s[1] = 0
        /\ s[2] = 0
        /\ s[3] = (data[3] \div 256) % 256
        /\ s[4] = 0
        /\ s[5] = 0
        /\ s[6] = 0
    BY <1>3, <1>4, SMT DEF SmallAt, WholeAt
  <2>3. s \in Seq(Int) /\ Len(s) = 6
    <3>1. \A i \in 1 .. 6 : s[i] \in Int
      BY <1>3, <2>2, SMT
    <3> QED
      BY <3>1
  <2> HIDE DEF s
  <2>4. Total(s) = s[1] + s[2] + s[3] + s[4] + s[5] + s[6]
    BY <2>3, TotalOfFew
  <2> QED
    BY <1>3, <2>1, <2>2, <2>4, SMT
<1>8. B[p + 4] = data[4] + data[5] * 16 + data[6] * 128
  <2> DEFINE s == [i \in 1 .. Len(fs) |-> Part(fs, data, i, 3)]
  <2>1. B[p + 1 + 3] = Total(s)
    BY <1>2 DEF Carried
  <2>2. /\ s[1] = 0
        /\ s[2] = 0
        /\ s[3] = 0
        /\ s[4] = data[4]
        /\ s[5] = data[5] * 16
        /\ s[6] = data[6] * 128
    BY <1>3, <1>4, SMT DEF SmallAt, WholeAt
  <2>3. s \in Seq(Int) /\ Len(s) = 6
    <3>1. \A i \in 1 .. 6 : s[i] \in Int
      BY <1>3, <2>2, SMT
    <3> QED
      BY <3>1
  <2> HIDE DEF s
  <2>4. Total(s) = s[1] + s[2] + s[3] + s[4] + s[5] + s[6]
    BY <2>3, TotalOfFew
  <2> QED
    BY <1>3, <2>1, <2>2, <2>4, SMT
<1>9. FieldAt(fs, B, p, 1) = data[1]
  <2>1. FieldAt(fs, B, p, 1) = (B[p + 1 + 0] \div 1) % 16
    BY <1>4, SMT DEF SmallAt
  <2>2. Packed44(B[p + 1], data[1], data[2])
    BY <1>3, <1>5, SMT DEF Packed44
  <2>3. (B[p + 1] \div 1) % 16 = data[1]
    BY <2>2, Packing
  <2> QED
    BY <2>1, <2>3, SMT
<1>10. FieldAt(fs, B, p, 2) = data[2]
  <2>1. FieldAt(fs, B, p, 2) = (B[p + 1 + 0] \div 16) % 16
    BY <1>4, SMT DEF SmallAt
  <2>2. Packed44(B[p + 1], data[1], data[2])
    BY <1>3, <1>5, SMT DEF Packed44
  <2>3. (B[p + 1] \div 16) % 16 = data[2]
    BY <2>2, Packing
  <2> QED
    BY <2>1, <2>3, SMT
<1>11. FieldAt(fs, B, p, 3) = data[3]
  <2> DEFINE s == [k \in 1 .. 2 |-> B[p + 1 + 1 + k - 1] * 256^(k - 1)]
  <2>1. FieldAt(fs, B, p, 3) = Total(s)
    BY <1>4, SMT DEF WholeAt
  <2>2. /\ s[1] = B[p + 2]
        /\ s[2] = B[p + 3] * 256
    BY <1>3, <1>6, <1>7, Powers256, SMT
  <2>3. s \in Seq(Int) /\ Len(s) = 2
    <3>1. \A k \in 1 .. 2 : s[k] \in Int
      BY <1>3, <1>6, <1>7, <2>2, SMT
    <3> QED
      BY <3>1
  <2> HIDE DEF s
  <2>4. Total(s) = B[p + 2] + B[p + 3] * 256
    BY <2>2, <2>3, TotalOfFew, SMT
  <2>5. (data[3] % 256) + ((data[3] \div 256) % 256) * 256 = data[3]
    <3>1. TwoBytes(data[3])
      BY <1>3, BytesOfWhole, SMT
    <3> QED
      BY <3>1, SMT DEF TwoBytes
  <2> QED
    BY <1>6, <1>7, <2>1, <2>4, <2>5, SMT
<1>12. FieldAt(fs, B, p, 4) = data[4]
  <2>1. FieldAt(fs, B, p, 4) = (B[p + 1 + 3] \div 1) % 16
    BY <1>4, SMT DEF SmallAt
  <2>2. Packed431(B[p + 4], data[4], data[5], data[6])
    BY <1>3, <1>8, SMT DEF Packed431
  <2>3. (B[p + 4] \div 1) % 16 = data[4]
    BY <2>2, Packing
  <2> QED
    BY <2>1, <2>3, SMT
<1>13. FieldAt(fs, B, p, 5) = data[5]
  <2>1. FieldAt(fs, B, p, 5) = (B[p + 1 + 3] \div 16) % 8
    BY <1>4, SMT DEF SmallAt
  <2>2. Packed431(B[p + 4], data[4], data[5], data[6])
    BY <1>3, <1>8, SMT DEF Packed431
  <2>3. (B[p + 4] \div 16) % 8 = data[5]
    BY <2>2, Packing
  <2> QED
    BY <2>1, <2>3, SMT
<1>14. FieldAt(fs, B, p, 6) = data[6]
  <2>1. FieldAt(fs, B, p, 6) = (B[p + 1 + 3] \div 128) % 2
    BY <1>4, SMT DEF SmallAt
  <2>2. Packed431(B[p + 4], data[4], data[5], data[6])
    BY <1>3, <1>8, SMT DEF Packed431
  <2>3. (B[p + 4] \div 128) % 2 = data[6]
    BY <2>2, Packing
  <2> QED
    BY <2>1, <2>3, SMT
<1> QED
  BY <1>9, <1>10, <1>11, <1>12, <1>13, <1>14 DEF ReadsBack

LEMMA RXParamShape ==
  ASSUME NEW fs, Structure(fs), Len(fs) = 4,
         fs[1].bits = 4, fs[2].bits = 3, fs[3].bits = 1, fs[4].bits = 24,
         NEW data, NEW B, NEW p \in Nat, Carried(fs, data, B, p)
  PROVE  ReadsBack(fs, data, B, p)
<1>0. OffsetsOf(fs, 4)
  BY OffsetsOfFew
<1>1. /\ Offset(fs, 1) = 0
      /\ Offset(fs, 2) = 4
      /\ Offset(fs, 3) = 7
      /\ Offset(fs, 4) = 8
      /\ Offset(fs, 5) = 32
  <2>1. Offset(fs, 1) = 0
    BY <1>0 DEF OffsetsOf
  <2>2. Offset(fs, 2) = 4
    BY <1>0, <2>1 DEF OffsetsOf
  <2>3. Offset(fs, 3) = 7
    BY <1>0, <2>2 DEF OffsetsOf
  <2>4. Offset(fs, 4) = 8
    BY <1>0, <2>3 DEF OffsetsOf
  <2>5. Offset(fs, 5) = 32
    BY <1>0, <2>4 DEF OffsetsOf
  <2> QED
    BY <2>1, <2>2, <2>3, <2>4, <2>5
<1>2. Bits(fs) \div 8 = 4
  BY <1>0, <1>1 DEF OffsetsOf
<1>3. /\ data[1] \in Nat /\ data[1] < 16
      /\ data[2] \in Nat /\ data[2] < 8
      /\ data[3] \in Nat /\ data[3] < 2
      /\ data[4] \in Nat /\ data[4] < 16777216
  BY Powers2, SMT DEF Carried
<1>4. /\ SmallAt(fs, 1, 0, 0, 4)
      /\ SmallAt(fs, 2, 0, 4, 3)
      /\ SmallAt(fs, 3, 0, 7, 1)
      /\ WholeAt(fs, 4, 1, 24)
  <2>1. SmallAt(fs, 1, 0, 0, 4)
    BY <1>1, IsSmall
  <2>2. SmallAt(fs, 2, 0, 4, 3)
    BY <1>1, IsSmall
  <2>3. SmallAt(fs, 3, 0, 7, 1)
    BY <1>1, IsSmall
  <2>4. WholeAt(fs, 4, 1, 24)
    BY <1>1, IsWhole
  <2> QED
    BY <2>1, <2>2, <2>3, <2>4
<1>5. B[p + 1] = data[1] + data[2] * 16 + data[3] * 128
  <2> DEFINE s == [i \in 1 .. Len(fs) |-> Part(fs, data, i, 0)]
  <2>1. B[p + 1 + 0] = Total(s)
    BY <1>2 DEF Carried
  <2>2. /\ s[1] = data[1]
        /\ s[2] = data[2] * 16
        /\ s[3] = data[3] * 128
        /\ s[4] = 0
    BY <1>3, <1>4, SMT DEF SmallAt, WholeAt
  <2>3. s \in Seq(Int) /\ Len(s) = 4
    <3>1. \A i \in 1 .. 4 : s[i] \in Int
      BY <1>3, <2>2, SMT
    <3> QED
      BY <3>1
  <2> HIDE DEF s
  <2>4. Total(s) = s[1] + s[2] + s[3] + s[4]
    BY <2>3, TotalOfFew
  <2> QED
    BY <1>3, <2>1, <2>2, <2>4, SMT
<1>6. B[p + 2] = data[4] % 256
  <2> DEFINE s == [i \in 1 .. Len(fs) |-> Part(fs, data, i, 1)]
  <2>1. B[p + 1 + 1] = Total(s)
    BY <1>2 DEF Carried
  <2>2. /\ s[1] = 0
        /\ s[2] = 0
        /\ s[3] = 0
        /\ s[4] = data[4] % 256
    BY <1>3, <1>4, SMT DEF SmallAt, WholeAt
  <2>3. s \in Seq(Int) /\ Len(s) = 4
    <3>1. \A i \in 1 .. 4 : s[i] \in Int
      BY <1>3, <2>2, SMT
    <3> QED
      BY <3>1
  <2> HIDE DEF s
  <2>4. Total(s) = s[1] + s[2] + s[3] + s[4]
    BY <2>3, TotalOfFew
  <2> QED
    BY <1>3, <2>1, <2>2, <2>4, SMT
<1>7. B[p + 3] = (data[4] \div 256) % 256
  <2> DEFINE s == [i \in 1 .. Len(fs) |-> Part(fs, data, i, 2)]
  <2>1. B[p + 1 + 2] = Total(s)
    BY <1>2 DEF Carried
  <2>2. /\ s[1] = 0
        /\ s[2] = 0
        /\ s[3] = 0
        /\ s[4] = (data[4] \div 256) % 256
    BY <1>3, <1>4, SMT DEF SmallAt, WholeAt
  <2>3. s \in Seq(Int) /\ Len(s) = 4
    <3>1. \A i \in 1 .. 4 : s[i] \in Int
      BY <1>3, <2>2, SMT
    <3> QED
      BY <3>1
  <2> HIDE DEF s
  <2>4. Total(s) = s[1] + s[2] + s[3] + s[4]
    BY <2>3, TotalOfFew
  <2> QED
    BY <1>3, <2>1, <2>2, <2>4, SMT
<1>8. B[p + 4] = (data[4] \div 65536) % 256
  <2> DEFINE s == [i \in 1 .. Len(fs) |-> Part(fs, data, i, 3)]
  <2>1. B[p + 1 + 3] = Total(s)
    BY <1>2 DEF Carried
  <2>2. /\ s[1] = 0
        /\ s[2] = 0
        /\ s[3] = 0
        /\ s[4] = (data[4] \div 65536) % 256
    BY <1>3, <1>4, SMT DEF SmallAt, WholeAt
  <2>3. s \in Seq(Int) /\ Len(s) = 4
    <3>1. \A i \in 1 .. 4 : s[i] \in Int
      BY <1>3, <2>2, SMT
    <3> QED
      BY <3>1
  <2> HIDE DEF s
  <2>4. Total(s) = s[1] + s[2] + s[3] + s[4]
    BY <2>3, TotalOfFew
  <2> QED
    BY <1>3, <2>1, <2>2, <2>4, SMT
<1>9. FieldAt(fs, B, p, 1) = data[1]
  <2>1. FieldAt(fs, B, p, 1) = (B[p + 1 + 0] \div 1) % 16
    BY <1>4, SMT DEF SmallAt
  <2>2. Packed431(B[p + 1], data[1], data[2], data[3])
    BY <1>3, <1>5, SMT DEF Packed431
  <2>3. (B[p + 1] \div 1) % 16 = data[1]
    BY <2>2, Packing
  <2> QED
    BY <2>1, <2>3, SMT
<1>10. FieldAt(fs, B, p, 2) = data[2]
  <2>1. FieldAt(fs, B, p, 2) = (B[p + 1 + 0] \div 16) % 8
    BY <1>4, SMT DEF SmallAt
  <2>2. Packed431(B[p + 1], data[1], data[2], data[3])
    BY <1>3, <1>5, SMT DEF Packed431
  <2>3. (B[p + 1] \div 16) % 8 = data[2]
    BY <2>2, Packing
  <2> QED
    BY <2>1, <2>3, SMT
<1>11. FieldAt(fs, B, p, 3) = data[3]
  <2>1. FieldAt(fs, B, p, 3) = (B[p + 1 + 0] \div 128) % 2
    BY <1>4, SMT DEF SmallAt
  <2>2. Packed431(B[p + 1], data[1], data[2], data[3])
    BY <1>3, <1>5, SMT DEF Packed431
  <2>3. (B[p + 1] \div 128) % 2 = data[3]
    BY <2>2, Packing
  <2> QED
    BY <2>1, <2>3, SMT
<1>12. FieldAt(fs, B, p, 4) = data[4]
  <2> DEFINE s == [k \in 1 .. 3 |-> B[p + 1 + 1 + k - 1] * 256^(k - 1)]
  <2>1. FieldAt(fs, B, p, 4) = Total(s)
    BY <1>4, SMT DEF WholeAt
  <2>2. /\ s[1] = B[p + 2]
        /\ s[2] = B[p + 3] * 256
        /\ s[3] = B[p + 4] * 65536
    BY <1>3, <1>6, <1>7, <1>8, Powers256, SMT
  <2>3. s \in Seq(Int) /\ Len(s) = 3
    <3>1. \A k \in 1 .. 3 : s[k] \in Int
      BY <1>3, <1>6, <1>7, <1>8, <2>2, SMT
    <3> QED
      BY <3>1
  <2> HIDE DEF s
  <2>4. Total(s) = B[p + 2] + B[p + 3] * 256 + B[p + 4] * 65536
    BY <2>2, <2>3, TotalOfFew, SMT
  <2>5. (data[4] % 256) + ((data[4] \div 256) % 256) * 256 + ((data[4] \div 65536) % 256) * 65536 = data[4]
    <3>1. ThreeBytes(data[4])
      BY <1>3, BytesOfWhole, SMT
    <3> QED
      BY <3>1, SMT DEF ThreeBytes
  <2> QED
    BY <1>6, <1>7, <1>8, <2>1, <2>4, <2>5, SMT
<1> QED
  BY <1>9, <1>10, <1>11, <1>12 DEF ReadsBack

LEMMA NewChannelShape ==
  ASSUME NEW fs, Structure(fs), Len(fs) = 4,
         fs[1].bits = 8, fs[2].bits = 24, fs[3].bits = 4, fs[4].bits = 4,
         NEW data, NEW B, NEW p \in Nat, Carried(fs, data, B, p)
  PROVE  ReadsBack(fs, data, B, p)
<1>0. OffsetsOf(fs, 4)
  BY OffsetsOfFew
<1>1. /\ Offset(fs, 1) = 0
      /\ Offset(fs, 2) = 8
      /\ Offset(fs, 3) = 32
      /\ Offset(fs, 4) = 36
      /\ Offset(fs, 5) = 40
  <2>1. Offset(fs, 1) = 0
    BY <1>0 DEF OffsetsOf
  <2>2. Offset(fs, 2) = 8
    BY <1>0, <2>1 DEF OffsetsOf
  <2>3. Offset(fs, 3) = 32
    BY <1>0, <2>2 DEF OffsetsOf
  <2>4. Offset(fs, 4) = 36
    BY <1>0, <2>3 DEF OffsetsOf
  <2>5. Offset(fs, 5) = 40
    BY <1>0, <2>4 DEF OffsetsOf
  <2> QED
    BY <2>1, <2>2, <2>3, <2>4, <2>5
<1>2. Bits(fs) \div 8 = 5
  BY <1>0, <1>1 DEF OffsetsOf
<1>3. /\ data[1] \in Nat /\ data[1] < 256
      /\ data[2] \in Nat /\ data[2] < 16777216
      /\ data[3] \in Nat /\ data[3] < 16
      /\ data[4] \in Nat /\ data[4] < 16
  BY Powers2, SMT DEF Carried
<1>4. /\ WholeAt(fs, 1, 0, 8)
      /\ WholeAt(fs, 2, 1, 24)
      /\ SmallAt(fs, 3, 4, 0, 4)
      /\ SmallAt(fs, 4, 4, 4, 4)
  <2>1. WholeAt(fs, 1, 0, 8)
    BY <1>1, IsWhole
  <2>2. WholeAt(fs, 2, 1, 24)
    BY <1>1, IsWhole
  <2>3. SmallAt(fs, 3, 4, 0, 4)
    BY <1>1, IsSmall
  <2>4. SmallAt(fs, 4, 4, 4, 4)
    BY <1>1, IsSmall
  <2> QED
    BY <2>1, <2>2, <2>3, <2>4
<1>5. B[p + 1] = data[1] % 256
  <2> DEFINE s == [i \in 1 .. Len(fs) |-> Part(fs, data, i, 0)]
  <2>1. B[p + 1 + 0] = Total(s)
    BY <1>2 DEF Carried
  <2>2. /\ s[1] = data[1] % 256
        /\ s[2] = 0
        /\ s[3] = 0
        /\ s[4] = 0
    BY <1>3, <1>4, SMT DEF SmallAt, WholeAt
  <2>3. s \in Seq(Int) /\ Len(s) = 4
    <3>1. \A i \in 1 .. 4 : s[i] \in Int
      BY <1>3, <2>2, SMT
    <3> QED
      BY <3>1
  <2> HIDE DEF s
  <2>4. Total(s) = s[1] + s[2] + s[3] + s[4]
    BY <2>3, TotalOfFew
  <2> QED
    BY <1>3, <2>1, <2>2, <2>4, SMT
<1>6. B[p + 2] = data[2] % 256
  <2> DEFINE s == [i \in 1 .. Len(fs) |-> Part(fs, data, i, 1)]
  <2>1. B[p + 1 + 1] = Total(s)
    BY <1>2 DEF Carried
  <2>2. /\ s[1] = 0
        /\ s[2] = data[2] % 256
        /\ s[3] = 0
        /\ s[4] = 0
    BY <1>3, <1>4, SMT DEF SmallAt, WholeAt
  <2>3. s \in Seq(Int) /\ Len(s) = 4
    <3>1. \A i \in 1 .. 4 : s[i] \in Int
      BY <1>3, <2>2, SMT
    <3> QED
      BY <3>1
  <2> HIDE DEF s
  <2>4. Total(s) = s[1] + s[2] + s[3] + s[4]
    BY <2>3, TotalOfFew
  <2> QED
    BY <1>3, <2>1, <2>2, <2>4, SMT
<1>7. B[p + 3] = (data[2] \div 256) % 256
  <2> DEFINE s == [i \in 1 .. Len(fs) |-> Part(fs, data, i, 2)]
  <2>1. B[p + 1 + 2] = Total(s)
    BY <1>2 DEF Carried
  <2>2. /\ s[1] = 0
        /\ s[2] = (data[2] \div 256) % 256
        /\ s[3] = 0
        /\ s[4] = 0
    BY <1>3, <1>4, SMT DEF SmallAt, WholeAt
  <2>3. s \in Seq(Int) /\ Len(s) = 4
    <3>1. \A i \in 1 .. 4 : s[i] \in Int
      BY <1>3, <2>2, SMT
    <3> QED
      BY <3>1
  <2> HIDE DEF s
  <2>4. Total(s) = s[1] + s[2] + s[3] + s[4]
    BY <2>3, TotalOfFew
  <2> QED
    BY <1>3, <2>1, <2>2, <2>4, SMT
<1>8. B[p + 4] = (data[2] \div 65536) % 256
  <2> DEFINE s == [i \in 1 .. Len(fs) |-> Part(fs, data, i, 3)]
  <2>1. B[p + 1 + 3] = Total(s)
    BY <1>2 DEF Carried
  <2>2. /\ s[1] = 0
        /\ s[2] = (data[2] \div 65536) % 256
        /\ s[3] = 0
        /\ s[4] = 0
    BY <1>3, <1>4, SMT DEF SmallAt, WholeAt
  <2>3. s \in Seq(Int) /\ Len(s) = 4
    <3>1. \A i \in 1 .. 4 : s[i] \in Int
      BY <1>3, <2>2, SMT
    <3> QED
      BY <3>1
  <2> HIDE DEF s
  <2>4. Total(s) = s[1] + s[2] + s[3] + s[4]
    BY <2>3, TotalOfFew
  <2> QED
    BY <1>3, <2>1, <2>2, <2>4, SMT
<1>9. B[p + 5] = data[3] + data[4] * 16
  <2> DEFINE s == [i \in 1 .. Len(fs) |-> Part(fs, data, i, 4)]
  <2>1. B[p + 1 + 4] = Total(s)
    BY <1>2 DEF Carried
  <2>2. /\ s[1] = 0
        /\ s[2] = 0
        /\ s[3] = data[3]
        /\ s[4] = data[4] * 16
    BY <1>3, <1>4, SMT DEF SmallAt, WholeAt
  <2>3. s \in Seq(Int) /\ Len(s) = 4
    <3>1. \A i \in 1 .. 4 : s[i] \in Int
      BY <1>3, <2>2, SMT
    <3> QED
      BY <3>1
  <2> HIDE DEF s
  <2>4. Total(s) = s[1] + s[2] + s[3] + s[4]
    BY <2>3, TotalOfFew
  <2> QED
    BY <1>3, <2>1, <2>2, <2>4, SMT
<1>10. FieldAt(fs, B, p, 1) = data[1]
  <2> DEFINE s == [k \in 1 .. 1 |-> B[p + 1 + 0 + k - 1] * 256^(k - 1)]
  <2>1. FieldAt(fs, B, p, 1) = Total(s)
    BY <1>4, SMT DEF WholeAt
  <2>2. /\ s[1] = B[p + 1]
    BY <1>3, <1>5, Powers256, SMT
  <2>3. s \in Seq(Int) /\ Len(s) = 1
    <3>1. \A k \in 1 .. 1 : s[k] \in Int
      BY <1>3, <1>5, <2>2, SMT
    <3> QED
      BY <3>1
  <2> HIDE DEF s
  <2>4. Total(s) = B[p + 1]
    BY <2>2, <2>3, TotalOfFew, SMT
  <2>5. data[1] % 256 = data[1]
    BY <1>3, SMT
  <2> QED
    BY <1>5, <2>1, <2>4, <2>5, SMT
<1>11. FieldAt(fs, B, p, 2) = data[2]
  <2> DEFINE s == [k \in 1 .. 3 |-> B[p + 1 + 1 + k - 1] * 256^(k - 1)]
  <2>1. FieldAt(fs, B, p, 2) = Total(s)
    BY <1>4, SMT DEF WholeAt
  <2>2. /\ s[1] = B[p + 2]
        /\ s[2] = B[p + 3] * 256
        /\ s[3] = B[p + 4] * 65536
    BY <1>3, <1>6, <1>7, <1>8, Powers256, SMT
  <2>3. s \in Seq(Int) /\ Len(s) = 3
    <3>1. \A k \in 1 .. 3 : s[k] \in Int
      BY <1>3, <1>6, <1>7, <1>8, <2>2, SMT
    <3> QED
      BY <3>1
  <2> HIDE DEF s
  <2>4. Total(s) = B[p + 2] + B[p + 3] * 256 + B[p + 4] * 65536
    BY <2>2, <2>3, TotalOfFew, SMT
  <2>5. (data[2] % 256) + ((data[2] \div 256) % 256) * 256 + ((data[2] \div 65536) % 256) * 65536 = data[2]
    <3>1. ThreeBytes(data[2])
      BY <1>3, BytesOfWhole, SMT
    <3> QED
      BY <3>1, SMT DEF ThreeBytes
  <2> QED
    BY <1>6, <1>7, <1>8, <2>1, <2>4, <2>5, SMT
<1>12. FieldAt(fs, B, p, 3) = data[3]
  <2>1. FieldAt(fs, B, p, 3) = (B[p + 1 + 4] \div 1) % 16
    BY <1>4, SMT DEF SmallAt
  <2>2. Packed44(B[p + 5], data[3], data[4])
    BY <1>3, <1>9, SMT DEF Packed44
  <2>3. (B[p + 5] \div 1) % 16 = data[3]
    BY <2>2, Packing
  <2> QED
    BY <2>1, <2>3, SMT
<1>13. FieldAt(fs, B, p, 4) = data[4]
  <2>1. FieldAt(fs, B, p, 4) = (B[p + 1 + 4] \div 16) % 16
    BY <1>4, SMT DEF SmallAt
  <2>2. Packed44(B[p + 5], data[3], data[4])
    BY <1>3, <1>9, SMT DEF Packed44
  <2>3. (B[p + 5] \div 16) % 16 = data[4]
    BY <2>2, Packing
  <2> QED
    BY <2>1, <2>3, SMT
<1> QED
  BY <1>10, <1>11, <1>12, <1>13 DEF ReadsBack

LEMMA TXParamShape ==
  ASSUME NEW fs, Structure(fs), Len(fs) = 4,
         fs[1].bits = 4, fs[2].bits = 1, fs[3].bits = 1, fs[4].bits = 2,
         NEW data, NEW B, NEW p \in Nat, Carried(fs, data, B, p)
  PROVE  ReadsBack(fs, data, B, p)
<1>0. OffsetsOf(fs, 4)
  BY OffsetsOfFew
<1>1. /\ Offset(fs, 1) = 0
      /\ Offset(fs, 2) = 4
      /\ Offset(fs, 3) = 5
      /\ Offset(fs, 4) = 6
      /\ Offset(fs, 5) = 8
  <2>1. Offset(fs, 1) = 0
    BY <1>0 DEF OffsetsOf
  <2>2. Offset(fs, 2) = 4
    BY <1>0, <2>1 DEF OffsetsOf
  <2>3. Offset(fs, 3) = 5
    BY <1>0, <2>2 DEF OffsetsOf
  <2>4. Offset(fs, 4) = 6
    BY <1>0, <2>3 DEF OffsetsOf
  <2>5. Offset(fs, 5) = 8
    BY <1>0, <2>4 DEF OffsetsOf
  <2> QED
    BY <2>1, <2>2, <2>3, <2>4, <2>5
<1>2. Bits(fs) \div 8 = 1
  BY <1>0, <1>1 DEF OffsetsOf
<1>3. /\ data[1] \in Nat /\ data[1] < 16
      /\ data[2] \in Nat /\ data[2] < 2
      /\ data[3] \in Nat /\ data[3] < 2
      /\ data[4] \in Nat /\ data[4] < 4
  BY Powers2, SMT DEF Carried
<1>4. /\ SmallAt(fs, 1, 0, 0, 4)
      /\ SmallAt(fs, 2, 0, 4, 1)
      /\ SmallAt(fs, 3, 0, 5, 1)
      /\ SmallAt(fs, 4, 0, 6, 2)
  <2>1. SmallAt(fs, 1, 0, 0, 4)
    BY <1>1, IsSmall
  <2>2. SmallAt(fs, 2, 0, 4, 1)
    BY <1>1, IsSmall
  <2>3. SmallAt(fs, 3, 0, 5, 1)
    BY <1>1, IsSmall
  <2>4. SmallAt(fs, 4, 0, 6, 2)
    BY <1>1, IsSmall
  <2> QED
    BY <2>1, <2>2, <2>3, <2>4
<1>5. B[p + 1] = data[1] + data[2] * 16 + data[3] * 32 + data[4] * 64
  <2> DEFINE s == [i \in 1 .. Len(fs) |-> Part(fs, data, i, 0)]
  <2>1. B[p + 1 + 0] = Total(s)
    BY <1>2 DEF Carried
  <2>2. /\ s[1] = data[1]
        /\ s[2] = data[2] * 16
        /\ s[3] = data[3] * 32
        /\ s[4] = data[4] * 64
    BY <1>3, <1>4, SMT DEF SmallAt, WholeAt
  <2>3. s \in Seq(Int) /\ Len(s) = 4
    <3>1. \A i \in 1 .. 4 : s[i] \in Int
      BY <1>3, <2>2, SMT
    <3> QED
      BY <3>1
  <2> HIDE DEF s
  <2>4. Total(s) = s[1] + s[2] + s[3] + s[4]
    BY <2>3, TotalOfFew
  <2> QED
    BY <1>3, <2>1, <2>2, <2>4, SMT
<1>6. FieldAt(fs, B, p, 1) = data[1]
  <2>1. FieldAt(fs, B, p, 1) = (B[p + 1 + 0] \div 1) % 16
    BY <1>4, SMT DEF SmallAt
  <2>2. Packed4112(B[p + 1], data[1], data[2], data[3], data[4])
    BY <1>3, <1>5, SMT DEF Packed4112
  <2>3. (B[p + 1] \div 1) % 16 = data[1]
    BY <2>2, Packing
  <2> QED
    BY <2>1, <2>3, SMT
<1>7. FieldAt(fs, B, p, 2) = data[2]
  <2>1. FieldAt(fs, B, p, 2) = (B[p + 1 + 0] \div 16) % 2
    BY <1>4, SMT DEF SmallAt
  <2>2. Packed4112(B[p + 1], data[1], data[2], data[3], data[4])
    BY <1>3, <1>5, SMT DEF Packed4112
  <2>3. (B[p + 1] \div 16) % 2 = data[2]
    BY <2>2, Packing
  <2> QED
    BY <2>1, <2>3, SMT
<1>8. FieldAt(fs, B, p, 3) = data[3]
  <2>1. FieldAt(fs, B, p, 3) = (B[p + 1 + 0] \div 32) % 2
    BY <1>4, SMT DEF SmallAt
  <2>2. Packed4112(B[p + 1], data[1], data[2], data[3], data[4])
    BY <1>3, <1>5, SMT DEF Packed4112
  <2>3. (B[p + 1] \div 32) % 2 = data[3]
    BY <2>2, Packing
  <2> QED
    BY <2>1, <2>3, SMT
<1>9. FieldAt(fs, B, p, 4) = data[4]
  <2>1. FieldAt(fs, B, p, 4) = (B[p + 1 + 0] \div 64) % 4
    BY <1>4, SMT DEF SmallAt
  <2>2. Packed4112(B[p + 1], data[1], data[2], data[3], data[4])
    BY <1>3, <1>5, SMT DEF Packed4112
  <2>3. (B[p + 1] \div 64) % 4 = data[4]
    BY <2>2, Packing
  <2> QED
    BY <2>1, <2>3, SMT
<1> QED
  BY <1>6, <1>7, <1>8, <1>9 DEF ReadsBack

LEMMA DLChannelShape ==
  ASSUME NEW fs, Structure(fs), Len(fs) = 2,
         fs[1].bits = 8, fs[2].bits = 24,
         NEW data, NEW B, NEW p \in Nat, Carried(fs, data, B, p)
  PROVE  ReadsBack(fs, data, B, p)
<1>0. OffsetsOf(fs, 2)
  BY OffsetsOfFew
<1>1. /\ Offset(fs, 1) = 0
      /\ Offset(fs, 2) = 8
      /\ Offset(fs, 3) = 32
  <2>1. Offset(fs, 1) = 0
    BY <1>0 DEF OffsetsOf
  <2>2. Offset(fs, 2) = 8
    BY <1>0, <2>1 DEF OffsetsOf
  <2>3. Offset(fs, 3) = 32
    BY <1>0, <2>2 DEF OffsetsOf
  <2> QED
    BY <2>1, <2>2, <2>3
<1>2. Bits(fs) \div 8 = 4
  BY <1>0, <1>1 DEF OffsetsOf
<1>3. /\ data[1] \in Nat /\ data[1] < 256
      /\ data[2] \in Nat /\ data[2] < 16777216
  BY Powers2, SMT DEF Carried
<1>4. /\ WholeAt(fs, 1, 0, 8)
      /\ WholeAt(fs, 2, 1, 24)
  <2>1. WholeAt(fs, 1, 0, 8)
    BY <1>1, IsWhole
  <2>2. WholeAt(fs, 2, 1, 24)
    BY <1>1, IsWhole
  <2> QED
    BY <2>1, <2>2
<1>5. B[p + 1] = data[1] % 256
  <2> DEFINE s == [i \in 1 .. Len(fs) |-> Part(fs, data, i, 0)]
  <2>1. B[p + 1 + 0] = Total(s)
    BY <1>2 DEF Carried
  <2>2. /\ s[1] = data[1] % 256
        /\ s[2] = 0
    BY <1>3, <1>4, SMT DEF SmallAt, WholeAt
  <2>3. s \in Seq(Int) /\ Len(s) = 2
    <3>1. \A i \in 1 .. 2 : s[i] \in Int
      BY <1>3, <2>2, SMT
    <3> QED
      BY <3>1
  <2> HIDE DEF s
  <2>4. Total(s) = s[1] + s[2]
    BY <2>3, TotalOfFew
  <2> QED
    BY <1>3, <2>1, <2>2, <2>4, SMT
<1>6. B[p + 2] = data[2] % 256
  <2> DEFINE s == [i \in 1 .. Len(fs) |-> Part(fs, data, i, 1)]
  <2>1. B[p + 1 + 1] = Total(s)
    BY <1>2 DEF Carried
  <2>2. /\ s[1] = 0
        /\ s[2] = data[2] % 256
    BY <1>3, <1>4, SMT DEF SmallAt, WholeAt
  <2>3. s \in Seq(Int) /\ Len(s) = 2
    <3>1. \A i \in 1 .. 2 : s[i] \in Int
      BY <1>3, <2>2, SMT
    <3> QED
      BY <3>1
  <2> HIDE DEF s
  <2>4. Total(s) = s[1] + s[2]
    BY <2>3, TotalOfFew
  <2> QED
    BY <1>3, <2>1, <2>2, <2>4, SMT
<1>7. B[p + 3] = (data[2] \div 256) % 256
  <2> DEFINE s == [i \in 1 .. Len(fs) |-> Part(fs, data, i, 2)]
  <2>1. B[p + 1 + 2] = Total(s)
    BY <1>2 DEF Carried
  <2>2. /\ s[1] = 0
        /\ s[2] = (data[2] \div 256) % 256
    BY <1>3, <1>4, SMT DEF SmallAt, WholeAt
  <2>3. s \in Seq(Int) /\ Len(s) = 2
    <3>1. \A i \in 1 .. 2 : s[i] \in Int
      BY <1>3, <2>2, SMT
    <3> QED
      BY <3>1
  <2> HIDE DEF s
  <2>4. Total(s) = s[1] + s[2]
    BY <2>3, TotalOfFew
  <2> QED
    BY <1>3, <2>1, <2>2, <2>4, SMT
<1>8. B[p + 4] = (data[2] \div 65536) % 256
  <2> DEFINE s == [i \in 1 .. Len(fs) |-> Part(fs, data, i, 3)]
  <2>1. B[p + 1 + 3] = Total(s)
    BY <1>2 DEF Carried
  <2>2. /\ s[1] = 0
        /\ s[2] = (data[2] \div 65536) % 256
    BY <1>3, <1>4, SMT DEF SmallAt, WholeAt
  <2>3. s \in Seq(Int) /\ Len(s) = 2
    <3>1. \A i \in 1 .. 2 : s[i] \in Int
      BY <1>3, <2>2, SMT
    <3> QED
      BY <3>1
  <2> HIDE DEF s
  <2>4. Total(s) = s[1] + s[2]
    BY <2>3, TotalOfFew
  <2> QED
    BY <1>3, <2>1, <2>2, <2>4, SMT
<1>9. FieldAt(fs, B, p, 1) = data[1]
  <2> DEFINE s == [k \in 1 .. 1 |-> B[p + 1 + 0 + k - 1] * 256^(k - 1)]
  <2>1. FieldAt(fs, B, p, 1) = Total(s)
    BY <1>4, SMT DEF WholeAt
  <2>2. /\ s[1] = B[p + 1]
    BY <1>3, <1>5, Powers256, SMT
  <2>3. s \in Seq(Int) /\ Len(s) = 1
    <3>1. \A k \in 1 .. 1 : s[k] \in Int
      BY <1>3, <1>5, <2>2, SMT
    <3> QED
      BY <3>1
  <2> HIDE DEF s
  <2>4. Total(s) = B[p + 1]
    BY <2>2, <2>3, TotalOfFew, SMT
  <2>5. data[1] % 256 = data[1]
    BY <1>3, SMT
  <2> QED
    BY <1>5, <2>1, <2>4, <2>5, SMT
<1>10. FieldAt(fs, B, p, 2) = data[2]
  <2> DEFINE s == [k \in 1 .. 3 |-> B[p + 1 + 1 + k - 1] * 256^(k - 1)]
  <2>1. FieldAt(fs, B, p, 2) = Total(s)
    BY <1>4, SMT DEF WholeAt
  <2>2. /\ s[1] = B[p + 2]
        /\ s[2] = B[p + 3] * 256
        /\ s[3] = B[p + 4] * 65536
    BY <1>3, <1>6, <1>7, <1>8, Powers256, SMT
  <2>3. s \in Seq(Int) /\ Len(s) = 3
    <3>1. \A k \in 1 .. 3 : s[k] \in Int
      BY <1>3, <1>6, <1>7, <1>8, <2>2, SMT
    <3> QED
      BY <3>1
  <2> HIDE DEF s
  <2>4. Total(s) = B[p + 2] + B[p + 3] * 256 + B[p + 4] * 65536
    BY <2>2, <2>3, TotalOfFew, SMT
  <2>5. (data[2] % 256) + ((data[2] \div 256) % 256) * 256 + ((data[2] \div 65536) % 256) * 65536 = data[2]
    <3>1. ThreeBytes(data[2])
      BY <1>3, BytesOfWhole, SMT
    <3> QED
      BY <3>1, SMT DEF ThreeBytes
  <2> QED
    BY <1>6, <1>7, <1>8, <2>1, <2>4, <2>5, SMT
<1> QED
  BY <1>9, <1>10 DEF ReadsBack

LEMMA ForceRejoinShape ==
  ASSUME NEW fs, Structure(fs), Len(fs) = 6,
         fs[1].bits = 4, fs[2].bits = 3, fs[3].bits = 1, fs[4].bits = 3, fs[5].bits = 3, fs[6].bits = 2,
         NEW data, NEW B, NEW p \in Nat, Carried(fs, data, B, p)
  PROVE  ReadsBack(fs, data, B, p)
<1>0. OffsetsOf(fs, 6)
  BY OffsetsOfFew
<1>1. /\ Offset(fs, 1) = 0
      /\ Offset(fs, 2) = 4
      /\ Offset(fs, 3) = 7
      /\ Offset(fs, 4) = 8
      /\ Offset(fs, 5) = 11
      /\ Offset(fs, 6) = 14
      /\ Offset(fs, 7) = 16
  <2>1. Offset(fs, 1) = 0
    BY <1>0 DEF OffsetsOf
  <2>2. Offset(fs, 2) = 4
    BY <1>0, <2>1 DEF OffsetsOf
  <2>3. Offset(fs, 3) = 7
    BY <1>0, <2>2 DEF OffsetsOf
  <2>4. Offset(fs, 4) = 8
    BY <1>0, <2>3 DEF OffsetsOf
  <2>5. Offset(fs, 5) = 11
    BY <1>0, <2>4 DEF OffsetsOf
  <2>6. Offset(fs, 6) = 14
    BY <1>0, <2>5 DEF OffsetsOf
  <2>7. Offset(fs, 7) = 16
    BY <1>0, <2>6 DEF OffsetsOf
  <2> QED
    BY <2>1, <2>2, <2>3, <2>4, <2>5, <2>6, <2>7
<1>2. Bits(fs) \div 8 = 2
  BY <1>0, <1>1 DEF OffsetsOf
<1>3. /\ data[1] \in Nat /\ data[1] < 16
      /\ data[2] \in Nat /\ data[2] < 8
      /\ data[3] \in Nat /\ data[3] < 2
      /\ data[4] \in Nat /\ data[4] < 8
      /\ data[5] \in Nat /\ data[5] < 8
      /\ data[6] \in Nat /\ data[6] < 4
  BY Powers2, SMT DEF Carried
<1>4. /\ SmallAt(fs, 1, 0, 0, 4)
      /\ SmallAt(fs, 2, 0, 4, 3)
      /\ SmallAt(fs, 3, 0, 7, 1)
      /\ SmallAt(fs, 4, 1, 0, 3)
      /\ SmallAt(fs, 5, 1, 3, 3)
      /\ SmallAt(fs, 6, 1, 6, 2)
  <2>1. SmallAt(fs, 1, 0, 0, 4)
    BY <1>1, IsSmall
  <2>2. SmallAt(fs, 2, 0, 4, 3)
    BY <1>1, IsSmall
  <2>3. SmallAt(fs, 3, 0, 7, 1)
    BY <1>1, IsSmall
  <2>4. SmallAt(fs, 4, 1, 0, 3)
    BY <1>1, IsSmall
  <2>5. SmallAt(fs, 5, 1, 3, 3)
    BY <1>1, IsSmall
  <2>6. SmallAt(fs, 6, 1, 6, 2)
    BY <1>1, IsSmall
  <2> QED
    BY <2>1, <2>2, <2>3, <2>4, <2>5, <2>6
<1>5. B[p + 1] = data[1] + data[2] * 16 + data[3] * 128
  <2> DEFINE s == [i \in 1 .. Len(fs) |-> Part(fs, data, i, 0)]
  <2>1. B[p + 1 + 0] = Total(s)
    BY <1>2 DEF Carried
  <2>2. /\ s[1] = data[1]
        /\ s[2] = data[2] * 16
        /\ s[3] = data[3] * 128
        /\ s[4] = 0
        /\ s[5] = 0
        /\ s[6] = 0
    BY <1>3, <1>4, SMT DEF SmallAt, WholeAt
  <2>3. s \in Seq(Int) /\ Len(s) = 6
    <3>1. \A i \in 1 .. 6 : s[i] \in Int
      BY <1>3, <2>2, SMT
    <3> QED
      BY <3>1
  <2> HIDE DEF s
  <2>4. Total(s) = s[1] + s[2] + s[3] + s[4] + s[5] + s[6]
    BY <2>3, TotalOfFew
  <2> QED
    BY <1>3, <2>1, <2>2, <2>4, SMT
<1>6. B[p + 2] = data[4] + data[5] * 8 + data[6] * 64
  <2> DEFINE s == [i \in 1 .. Len(fs) |-> Part(fs, data, i, 1)]
  <2>1. B[p + 1 + 1] = Total(s)
    BY <1>2 DEF Carried
  <2>2. /\ s[1] = 0
        /\ s[2] = 0
        /\ s[3] = 0
        /\ s[4] = data[4]
        /\ s[5] = data[5] * 8
        /\ s[6] = data[6] * 64
    BY <1>3, <1>4, SMT DEF SmallAt, WholeAt
  <2>3. s \in Seq(Int) /\ Len(s) = 6
    <3>1. \A i \in 1 .. 6 : s[i] \in Int
      BY <1>3, <2>2, SMT
    <3> QED
      BY <3>1
  <2> HIDE DEF s
  <2>4. Total(s) = s[1] + s[2] + s[3] + s[4] + s[5] + s[6]
    BY <2>3, TotalOfFew
  <2> QED
    BY <1>3, <2>1, <2>2, <2>4, SMT
<1>7. FieldAt(fs, B, p, 1) = data[1]
  <2>1. FieldAt(fs, B, p, 1) = (B[p + 1 + 0] \div 1) % 16
    BY <1>4, SMT DEF SmallAt
  <2>2. Packed431(B[p + 1], data[1], data[2], data[3])
    BY <1>3, <1>5, SMT DEF Packed431
  <2>3. (B[p + 1] \div 1) % 16 = data[1]
    BY <2>2, Packing
  <2> QED
    BY <2>1, <2>3, SMT
<1>8. FieldAt(fs, B, p, 2) = data[2]
  <2>1. FieldAt(fs, B, p, 2) = (B[p + 1 + 0] \div 16) % 8
    BY <1>4, SMT DEF SmallAt
  <2>2. Packed431(B[p + 1], data[1], data[2], data[3])
    BY <1>3, <1>5, SMT DEF Packed431
  <2>3. (B[p + 1] \div 16) % 8 = data[2]
    BY <2>2, Packing
  <2> QED
    BY <2>1, <2>3, SMT
<1>9. FieldAt(fs, B, p, 3) = data[3]
  <2>1. FieldAt(fs, B, p, 3) = (B[p + 1 + 0] \div 128) % 2
    BY <1>4, SMT DEF SmallAt
  <2>2. Packed431(B[p + 1], data[1], data[2], data[3])
    BY <1>3, <1>5, SMT DEF Packed431
  <2>3. (B[p + 1] \div 128) % 2 = data[3]
    BY <2>2, Packing
  <2> QED
    BY <2>1, <2>3, SMT
<1>10. FieldAt(fs, B, p, 4) = data[4]
  <2>1. FieldAt(fs, B, p, 4) = (B[p + 1 + 1] \div 1) % 8
    BY <1>4, SMT DEF SmallAt
  <2>2. Packed332(B[p + 2], data[4], data[5], data[6])
    BY <1>3, <1>6, SMT DEF Packed332
  <2>3. (B[p + 2] \div 1) % 8 = data[4]
    BY <2>2, Packing
  <2> QED
    BY <2>1, <2>3, SMT
<1>11. FieldAt(fs, B, p, 5) = data[5]
  <2>1. FieldAt(fs, B, p, 5) = (B[p + 1 + 1] \div 8) % 8
    BY <1>4, SMT DEF SmallAt
  <2>2. Packed332(B[p + 2], data[4], data[5], data[6])
    BY <1>3, <1>6, SMT DEF Packed332
  <2>3. (B[p + 2] \div 8) % 8 = data[5]
    BY <2>2, Packing
  <2> QED
    BY <2>1, <2>3, SMT
<1>12. FieldAt(fs, B, p, 6) = data[6]
  <2>1. FieldAt(fs, B, p, 6) = (B[p + 1 + 1] \div 64) % 4
    BY <1>4, SMT DEF SmallAt
  <2>2. Packed332(B[p + 2], data[4], data[5], data[6])
    BY <1>3, <1>6, SMT DEF Packed332
  <2>3. (B[p + 2] \div 64) % 4 = data[6]
    BY <2>2, Packing
  <2> QED
    BY <2>1, <2>3, SMT
<1> QED
  BY <1>7, <1>8, <1>9, <1>10, <1>11, <1>12 DEF ReadsBack

LEMMA PingChannelShape ==
  ASSUME NEW fs, Structure(fs), Len(fs) = 3,
         fs[1].bits = 4, fs[2].bits = 4, fs[3].bits = 24,
         NEW data, NEW B, NEW p \in Nat, Carried(fs, data, B, p)
  PROVE  ReadsBack(fs, data, B, p)
<1>0. OffsetsOf(fs, 3)
  BY OffsetsOfFew
<1>1. /\ Offset(fs, 1) = 0
      /\ Offset(fs, 2) = 4
      /\ Offset(fs, 3) = 8
      /\ Offset(fs, 4) = 32
  <2>1. Offset(fs, 1) = 0
    BY <1>0 DEF OffsetsOf
  <2>2. Offset(fs, 2) = 4
    BY <1>0, <2>1 DEF OffsetsOf
  <2>3. Offset(fs, 3) = 8
    BY <1>0, <2>2 DEF OffsetsOf
  <2>4. Offset(fs, 4) = 32
    BY <1>0, <2>3 DEF OffsetsOf
  <2> QED
    BY <2>1, <2>2, <2>3, <2>4
<1>2. Bits(fs) \div 8 = 4
  BY <1>0, <1>1 DEF OffsetsOf
<1>3. /\ data[1] \in Nat /\ data[1] < 16
      /\ data[2] \in Nat /\ data[2] < 16
      /\ data[3] \in Nat /\ data[3] < 16777216
  BY Powers2, SMT DEF Carried
<1>4. /\ SmallAt(fs, 1, 0, 0, 4)
      /\ SmallAt(fs, 2, 0, 4, 4)
      /\ WholeAt(fs, 3, 1, 24)
  <2>1. SmallAt(fs, 1, 0, 0, 4)
    BY <1>1, IsSmall
  <2>2. SmallAt(fs, 2, 0, 4, 4)
    BY <1>1, IsSmall
  <2>3. WholeAt(fs, 3, 1, 24)
    BY <1>1, IsWhole
  <2> QED
    BY <2>1, <2>2, <2>3
<1>5. B[p + 1] = data[1] + data[2] * 16
  <2> DEFINE s == [i \in 1 .. Len(fs) |-> Part(fs, data, i, 0)]
  <2>1. B[p + 1 + 0] = Total(s)
    BY <1>2 DEF Carried
  <2>2. /\ s[1] = data[1]
        /\ s[2] = data[2] * 16
        /\ s[3] = 0
    BY <1>3, <1>4, SMT DEF SmallAt, WholeAt
  <2>3. s \in Seq(Int) /\ Len(s) = 3
    <3>1. \A i \in 1 .. 3 : s[i] \in Int
      BY <1>3, <2>2, SMT
    <3> QED
      BY <3>1
  <2> HIDE DEF s
  <2>4. Total(s) = s[1] + s[2] + s[3]
    BY <2>3, TotalOfFew
  <2> QED
    BY <1>3, <2>1, <2>2, <2>4, SMT
<1>6. B[p + 2] = data[3] % 256
  <2> DEFINE s == [i \in 1 .. Len(fs) |-> Part(fs, data, i, 1)]
  <2>1. B[p + 1 + 1] = Total(s)
    BY <1>2 DEF Carried
  <2>2. /\ s[1] = 0
        /\ s[2] = 0
        /\ s[3] = data[3] % 256
    BY <1>3, <1>4, SMT DEF SmallAt, WholeAt
  <2>3. s \in Seq(Int) /\ Len(s) = 3
    <3>1. \A i \in 1 .. 3 : s[i] \in Int
      BY <1>3, <2>2, SMT
    <3> QED
      BY <3>1
  <2> HIDE DEF s
  <2>4. Total(s) = s[1] + s[2] + s[3]
    BY <2>3, TotalOfFew
  <2> QED
    BY <1>3, <2>1, <2>2, <2>4, SMT
<1>7. B[p + 3] = (data[3] \div 256) % 256
  <2> DEFINE s == [i \in 1 .. Len(fs) |-> Part(fs, data, i, 2)]
  <2>1. B[p + 1 + 2] = Total(s)
    BY <1>2 DEF Carried
  <2>2. /\ s[1] = 0
        /\ s[2] = 0
        /\ s[3] = (data[3] \div 256) % 256
    BY <1>3, <1>4, SMT DEF SmallAt, WholeAt
  <2>3. s \in Seq(Int) /\ Len(s) = 3
    <3>1. \A i \in 1 .. 3 : s[i] \in Int
      BY <1>3, <2>2, SMT
    <3> QED
      BY <3>1
  <2> HIDE DEF s
  <2>4. Total(s) = s[1] + s[2] + s[3]
    BY <2>3, TotalOfFew
  <2> QED
    BY <1>3, <2>1, <2>2, <2>4, SMT
<1>8. B[p + 4] = (data[3] \div 65536) % 256
  <2> DEFINE s == [i \in 1 .. Len(fs) |-> Part(fs, data, i, 3)]
  <2>1. B[p + 1 + 3] = Total(s)
    BY <1>2 DEF Carried
  <2>2. /\ s[1] = 0
        /\ s[2] = 0
        /\ s[3] = (data[3] \div 65536) % 256
    BY <1>3, <1>4, SMT DEF SmallAt, WholeAt
  <2>3. s \in Seq(Int) /\ Len(s) = 3
    <3>1. \A i \in 1 .. 3 : s[i] \in Int
      BY <1>3, <2>2, SMT
    <3> QED
      BY <3>1
  <2> HIDE DEF s
  <2>4. Total(s) = s[1] + s[2] + s[3]
    BY <2>3, TotalOfFew
  <2> QED
    BY <1>3, <2>1, <2>2, <2>4, SMT
<1>9. FieldAt(fs, B, p, 1) = data[1]
  <2>1. FieldAt(fs, B, p, 1) = (B[p + 1 + 0] \div 1) % 16
    BY <1>4, SMT DEF SmallAt
  <2>2. Packed44(B[p + 1], data[1], data[2])
    BY <1>3, <1>5, SMT DEF Packed44
  <2>3. (B[p + 1] \div 1) % 16 = data[1]
    BY <2>2, Packing
  <2> QED
    BY <2>1, <2>3, SMT
<1>10. FieldAt(fs, B, p, 2) = data[2]
  <2>1. FieldAt(fs, B, p, 2) = (B[p + 1 + 0] \div 16) % 16
    BY <1>4, SMT DEF SmallAt
  <2>2. Packed44(B[p + 1], data[1], data[2])
    BY <1>3, <1>5, SMT DEF Packed44
  <2>3. (B[p + 1] \div 16) % 16 = data[2]
    BY <2>2, Packing
  <2> QED
    BY <2>1, <2>3, SMT
<1>11. FieldAt(fs, B, p, 3) = data[3]
  <2> DEFINE s == [k \in 1 .. 3 |-> B[p + 1 + 1 + k - 1] * 256^(k - 1)]
  <2>1. FieldAt(fs, B, p, 3) = Total(s)
    BY <1>4, SMT DEF WholeAt
  <2>2. /\ s[1] = B[p + 2]
        /\ s[2] = B[p + 3] * 256
        /\ s[3] = B[p + 4] * 65536
    BY <1>3, <1>6, <1>7, <1>8, Powers256, SMT
  <2>3. s \in Seq(Int) /\ Len(s) = 3
    <3>1. \A k \in 1 .. 3 : s[k] \in Int
      BY <1>3, <1>6, <1>7, <1>8, <2>2, SMT
    <3> QED
      BY <3>1
  <2> HIDE DEF s
  <2>4. Total(s) = B[p + 2] + B[p + 3] * 256 + B[p + 4] * 65536
    BY <2>2, <2>3, TotalOfFew, SMT
  <2>5. (data[3] % 256) + ((data[3] \div 256) % 256) * 256 + ((data[3] \div 65536) % 256) * 65536 = data[3]
    <3>1. ThreeBytes(data[3])
      BY <1>3, BytesOfWhole, SMT
    <3> QED
      BY <3>1, SMT DEF ThreeBytes
  <2> QED
    BY <1>6, <1>7, <1>8, <2>1, <2>4, <2>5, SMT
<1> QED
  BY <1>9, <1>10, <1>11 DEF ReadsBack

LEMMA BeaconFreqShape ==
  ASSUME NEW fs, Structure(fs), Len(fs) = 1,
         fs[1].bits = 24,
         NEW data, NEW B, NEW p \in Nat, Carried(fs, data, B, p)
  PROVE  ReadsBack(fs, data, B, p)
<1>0. OffsetsOf(fs, 1)
  BY OffsetsOfFew
<1>1. /\ Offset(fs, 1) = 0
      /\ Offset(fs, 2) = 24
  <2>1. Offset(fs, 1) = 0
    BY <1>0 DEF OffsetsOf
  <2>2. Offset(fs, 2) = 24
    BY <1>0, <2>1 DEF OffsetsOf
  <2> QED
    BY <2>1, <2>2
<1>2. Bits(fs) \div 8 = 3
  BY <1>0, <1>1 DEF OffsetsOf
<1>3. /\ data[1] \in Nat /\ data[1] < 16777216
  BY Powers2, SMT DEF Carried
<1>4. /\ WholeAt(fs, 1, 0, 24)
  <2>1. WholeAt(fs, 1, 0, 24)
    BY <1>1, IsWhole
  <2> QED
    BY <2>1
<1>5. B[p + 1] = data[1] % 256
  <2> DEFINE s == [i \in 1 .. Len(fs) |-> Part(fs, data, i, 0)]
  <2>1. B[p + 1 + 0] = Total(s)
    BY <1>2 DEF Carried
  <2>2. /\ s[1] = data[1] % 256
    BY <1>3, <1>4, SMT DEF SmallAt, WholeAt
  <2>3. s \in Seq(Int) /\ Len(s) = 1
    <3>1. \A i \in 1 .. 1 : s[i] \in Int
      BY <1>3, <2>2, SMT
    <3> QED
      BY <3>1
  <2> HIDE DEF s
  <2>4. Total(s) = s[1]
    BY <2>3, TotalOfFew
  <2> QED
    BY <1>3, <2>1, <2>2, <2>4, SMT
<1>6. B[p + 2] = (data[1] \div 256) % 256
  <2> DEFINE s == [i \in 1 .. Len(fs) |-> Part(fs, data, i, 1)]
  <2>1. B[p + 1 + 1] = Total(s)
    BY <1>2 DEF Carried
  <2>2. /\ s[1] = (data[1] \div 256) % 256
    BY <1>3, <1>4, SMT DEF SmallAt, WholeAt
  <2>3. s \in Seq(Int) /\ Len(s) = 1
    <3>1. \A i \in 1 .. 1 : s[i] \in Int
      BY <1>3, <2>2, SMT
    <3> QED
      BY <3>1
  <2> HIDE DEF s
  <2>4. Total(s) = s[1]
    BY <2>3, TotalOfFew
  <2> QED
    BY <1>3, <2>1, <2>2, <2>4, SMT
<1>7. B[p + 3] = (data[1] \div 65536) % 256
  <2> DEFINE s == [i \in 1 .. Len(fs) |-> Part(fs, data, i, 2)]
  <2>1. B[p + 1 + 2] = Total(s)
    BY <1>2 DEF Carried
  <2>2. /\ s[1] = (data[1] \div 65536) % 256
    BY <1>3, <1>4, SMT DEF SmallAt, WholeAt
  <2>3. s \in Seq(Int) /\ Len(s) = 1
    <3>1. \A i \in 1 .. 1 : s[i] \in Int
      BY <1>3, <2>2, SMT
    <3> QED
      BY <3>1
  <2> HIDE DEF s
  <2>4. Total(s) = s[1]
    BY <2>3, TotalOfFew
  <2> QED
    BY <1>3, <2>1, <2>2, <2>4, SMT
<1>8. FieldAt(fs, B, p, 1) = data[1]
  <2> DEFINE s == [k \in 1 .. 3 |-> B[p + 1 + 0 + k - 1] * 256^(k - 1)]
  <2>1. FieldAt(fs, B, p, 1) = Total(s)
    BY <1>4, SMT DEF WholeAt
  <2>2. /\ s[1] = B[p + 1]
        /\ s[2] = B[p + 2] * 256
        /\ s[3] = B[p + 3] * 65536
    BY <1>3, <1>5, <1>6, <1>7, Powers256, SMT
  <2>3. s \in Seq(Int) /\ Len(s) = 3
    <3>1. \A k \in 1 .. 3 : s[k] \in Int
      BY <1>3, <1>5, <1>6, <1>7, <2>2, SMT
    <3> QED
      BY <3>1
  <2> HIDE DEF s
  <2>4. Total(s) = B[p + 1] + B[p + 2] * 256 + B[p + 3] * 65536
    BY <2>2, <2>3, TotalOfFew, SMT
  <2>5. (data[1] % 256) + ((data[1] \div 256) % 256) * 256 + ((data[1] \div 65536) % 256) * 65536 = data[1]
    <3>1. ThreeBytes(data[1])
      BY <1>3, BytesOfWhole, SMT
    <3> QED
      BY <3>1, SMT DEF ThreeBytes
  <2> QED
    BY <1>5, <1>6, <1>7, <2>1, <2>4, <2>5, SMT
<1> QED
  BY <1>8 DEF ReadsBack

(***************************************************************************)
(* The commands of the command line.                                       *)
(***************************************************************************)
LineCids == {"LinkADR", "DutyCycle", "RXParamSetup", "DevStatus", "NewChannel", "RXTimingSetup",
             "TXParamSetup", "DLChannel", "Rekey", "ADRParamSetup", "ForceRejoin",
             "RejoinParamSetup", "PingSlotInfo", "PingSlotChannel", "BeaconFreq"}

\* The fields of c have the widths ws.
HasWidths(c, ws) ==
  /\ Len(FieldsOf(c, TRUE)) = Len(ws)
  /\ \A i \in 1 .. Len(ws) : FieldsOf(c, TRUE)[i].bits = ws[i]

LEMMA LineWidths ==
  /\ HasWidths("LinkADR", <<4, 4, 16, 4, 3, 1>>)
  /\ HasWidths("DutyCycle", <<4, 4>>)
  /\ HasWidths("RXParamSetup", <<4, 3, 1, 24>>)
  /\ HasWidths("DevStatus", <<>>)
  /\ HasWidths("NewChannel", <<8, 24, 4, 4>>)
  /\ HasWidths("RXTimingSetup", <<4, 4>>)
  /\ HasWidths("TXParamSetup", <<4, 1, 1, 2>>)
  /\ HasWidths("DLChannel", <<8, 24>>)
  /\ HasWidths("Rekey", <<4, 4>>)
  /\ HasWidths("ADRParamSetup", <<4, 4>>)
  /\ HasWidths("ForceRejoin", <<4, 3, 1, 3, 3, 2>>)
  /\ HasWidths("RejoinParamSetup", <<4, 4>>)
  /\ HasWidths("PingSlotInfo", <<>>)
  /\ HasWidths("PingSlotChannel", <<4, 4, 24>>)
  /\ HasWidths("BeaconFreq", <<24>>)
<1>1. HasWidths("LinkADR", <<4, 4, 16, 4, 3, 1>>)
  <2>1. ClientSide["LinkADR"] = "LINK_ADR_REQ"
    BY DEF ClientSide
  <2>2. Fields("LINK_ADR_REQ") = MacStructs1["LINK_ADR_REQ"]
    BY DEF Fields, MacStructs1
  <2>3. Len(MacStructs1["LINK_ADR_REQ"]) = 6 /\ MacStructs1["LINK_ADR_REQ"][1].bits = 4 /\ MacStructs1["LINK_ADR_REQ"][2].bits = 4 /\ MacStructs1["LINK_ADR_REQ"][3].bits = 16 /\ MacStructs1["LINK_ADR_REQ"][4].bits = 4 /\ MacStructs1["LINK_ADR_REQ"][5].bits = 3 /\ MacStructs1["LINK_ADR_REQ"][6].bits = 1
    BY DEF MacStructs1, F
  <2> QED
    BY <2>1, <2>2, <2>3 DEF HasWidths, FieldsOf
<1>2. HasWidths("DutyCycle", <<4, 4>>)
  <2>1. ClientSide["DutyCycle"] = "DUTY_CYCLE"
    BY DEF ClientSide
  <2>2. Fields("DUTY_CYCLE") = MacStructs1["DUTY_CYCLE"]
    BY DEF Fields, MacStructs1
  <2>3. Len(MacStructs1["DUTY_CYCLE"]) = 2 /\ MacStructs1["DUTY_CYCLE"][1].bits = 4 /\ MacStructs1["DUTY_CYCLE"][2].bits = 4
    BY DEF MacStructs1, F
  <2> QED
    BY <2>1, <2>2, <2>3 DEF HasWidths, FieldsOf
<1>3. HasWidths("RXParamSetup", <<4, 3, 1, 24>>)
  <2>1. ClientSide["RXParamSetup"] = "RXPARAM_REQ"
    BY DEF ClientSide
  <2>2. Fields("RXPARAM_REQ") = MacStructs1["RXPARAM_REQ"]
    BY DEF Fields, MacStructs1
  <2>3. Len(MacStructs1["RXPARAM_REQ"]) = 4 /\ MacStructs1["RXPARAM_REQ"][1].bits = 4 /\ MacStructs1["RXPARAM_REQ"][2].bits = 3 /\ MacStructs1["RXPARAM_REQ"][3].bits = 1 /\ MacStructs1["RXPARAM_REQ"][4].bits = 24
    BY DEF MacStructs1, F
  <2> QED
    BY <2>1, <2>2, <2>3 DEF HasWidths, FieldsOf
<1>4. HasWidths("DevStatus", <<>>)
  <2>1. ClientSide["DevStatus"] = "EMPTY"
    BY DEF ClientSide
  <2>2. Fields("EMPTY") = MacStructs1["EMPTY"]
    BY DEF Fields, MacStructs1
  <2>3. Len(MacStructs1["EMPTY"]) = 0
    BY DEF MacStructs1
  <2> QED
    BY <2>1, <2>2, <2>3 DEF HasWidths, FieldsOf
<1>5. HasWidths("NewChannel", <<8, 24, 4, 4>>)
  <2>1. ClientSide["NewChannel"] = "NEWCHANNEL_REQ"
    BY DEF ClientSide
  <2>2. Fields("NEWCHANNEL_REQ") = MacStructs1["NEWCHANNEL_REQ"]
    BY DEF Fields, MacStructs1
  <2>3. Len(MacStructs1["NEWCHANNEL_REQ"]) = 4 /\ MacStructs1["NEWCHANNEL_REQ"][1].bits = 8 /\ MacStructs1["NEWCHANNEL_REQ"][2].bits = 24 /\ MacStructs1["NEWCHANNEL_REQ"][3].bits = 4 /\ MacStructs1["NEWCHANNEL_REQ"][4].bits = 4
    BY DEF MacStructs1, F
  <2> QED
    BY <2>1, <2>2, <2>3 DEF HasWidths, FieldsOf
<1>6. HasWidths("RXTimingSetup", <<4, 4>>)
  <2>1. ClientSide["RXTimingSetup"] = "TIMINGSETUP"
    BY DEF ClientSide
  <2>2. Fields("TIMINGSETUP") = MacStructs1["TIMINGSETUP"]
    BY DEF Fields, MacStructs1
  <2>3. Len(MacStructs1["TIMINGSETUP"]) = 2 /\ MacStructs1["TIMINGSETUP"][1].bits = 4 /\ MacStructs1["TIMINGSETUP"][2].bits = 4
    BY DEF MacStructs1, F
  <2> QED
    BY <2>1, <2>2, <2>3 DEF HasWidths, FieldsOf
<1>7. HasWidths("TXParamSetup", <<4, 1, 1, 2>>)
  <2>1. ClientSide["TXParamSetup"] = "TXPARAMSETUP"
    BY DEF ClientSide
  <2>2. Fields("TXPARAMSETUP") = MacStructs1["TXPARAMSETUP"]
    BY DEF Fields, MacStructs1
  <2>3. Len(MacStructs1["TXPARAMSETUP"]) = 4 /\ MacStructs1["TXPARAMSETUP"][1].bits = 4 /\ MacStructs1["TXPARAMSETUP"][2].bits = 1 /\ MacStructs1["TXPARAMSETUP"][3].bits = 1 /\ MacStructs1["TXPARAMSETUP"][4].bits = 2
    BY DEF MacStructs1, F
  <2> QED
    BY <2>1, <2>2, <2>3 DEF HasWidths, FieldsOf
<1>8. HasWidths("DLChannel", <<8, 24>>)
  <2>1. ClientSide["DLChannel"] = "DLCHANNEL_REQ"
    BY DEF ClientSide
  <2>2. Fields("DLCHANNEL_REQ") = MacStructs1["DLCHANNEL_REQ"]
    BY DEF Fields, MacStructs1
  <2>3. Len(MacStructs1["DLCHANNEL_REQ"]) = 2 /\ MacStructs1["DLCHANNEL_REQ"][1].bits = 8 /\ MacStructs1["DLCHANNEL_REQ"][2].bits = 24
    BY DEF MacStructs1, F
  <2> QED
    BY <2>1, <2>2, <2>3 DEF HasWidths, FieldsOf
<1>9. HasWidths("Rekey", <<4, 4>>)
  <2>1. ClientSide["Rekey"] = "REKEY"
    BY DEF ClientSide
  <2>2. Fields("REKEY") = MacStructs2["REKEY"]
    BY DEF Fields, MacStructs1
  <2>3. Len(MacStructs2["REKEY"]) = 2 /\ MacStructs2["REKEY"][1].bits = 4 /\ MacStructs2["REKEY"][2].bits = 4
    BY DEF MacStructs2, F
  <2> QED
    BY <2>1, <2>2, <2>3 DEF HasWidths, FieldsOf
<1>10. HasWidths("ADRParamSetup", <<4, 4>>)
  <2>1. ClientSide["ADRParamSetup"] = "ADRPARAMSETUP"
    BY DEF ClientSide
  <2>2. Fields("ADRPARAMSETUP") = MacStructs2["ADRPARAMSETUP"]
    BY DEF Fields, MacStructs1
  <2>3. Len(MacStructs2["ADRPARAMSETUP"]) = 2 /\ MacStructs2["ADRPARAMSETUP"][1].bits = 4 /\ MacStructs2["ADRPARAMSETUP"][2].bits = 4
    BY DEF MacStructs2, F
  <2> QED
    BY <2>1, <2>2, <2>3 DEF HasWidths, FieldsOf
<1>11. HasWidths("ForceRejoin", <<4, 3, 1, 3, 3, 2>>)
  <2>1. ClientSide["ForceRejoin"] = "FORCEREJOIN"
    BY DEF ClientSide
  <2>2. Fields("FORCEREJOIN") = MacStructs2["FORCEREJOIN"]
    BY DEF Fields, MacStructs1
  <2>3. Len(MacStructs2["FORCEREJOIN"]) = 6 /\ MacStructs2["FORCEREJOIN"][1].bits = 4 /\ MacStructs2["FORCEREJOIN"][2].bits = 3 /\ MacStructs2["FORCEREJOIN"][3].bits = 1 /\ MacStructs2["FORCEREJOIN"][4].bits = 3 /\ MacStructs2["FORCEREJOIN"][5].bits = 3 /\ MacStructs2["FORCEREJOIN"][6].bits = 2
    BY DEF MacStructs2, F
  <2> QED
    BY <2>1, <2>2, <2>3 DEF HasWidths, FieldsOf
<1>12. HasWidths("RejoinParamSetup", <<4, 4>>)
  <2>1. ClientSide["RejoinParamSetup"] = "REJOINPARAM_REQ"
    BY DEF ClientSide
  <2>2. Fields("REJOINPARAM_REQ") = MacStructs2["REJOINPARAM_REQ"]
    BY DEF Fields, MacStructs1
  <2>3. Len(MacStructs2["REJOINPARAM_REQ"]) = 2 /\ MacStructs2["REJOINPARAM_REQ"][1].bits = 4 /\ MacStructs2["REJOINPARAM_REQ"][2].bits = 4
    BY DEF MacStructs2, F
  <2> QED
    BY <2>1, <2>2, <2>3 DEF HasWidths, FieldsOf
<1>13. HasWidths("PingSlotInfo", <<>>)
  <2>1. ClientSide["PingSlotInfo"] = "EMPTY"
    BY DEF ClientSide
  <2>2. Fields("EMPTY") = MacStructs1["EMPTY"]
    BY DEF Fields, MacStructs1
  <2>3. Len(MacStructs1["EMPTY"]) = 0
    BY DEF MacStructs1
  <2> QED
    BY <2>1, <2>2, <2>3 DEF HasWidths, FieldsOf
<1>14. HasWidths("PingSlotChannel", <<4, 4, 24>>)
  <2>1. ClientSide["PingSlotChannel"] = "PINGCHANNEL_REQ"
    BY DEF ClientSide
  <2>2. Fields("PINGCHANNEL_REQ") = MacStructs2["PINGCHANNEL_REQ"]
    BY DEF Fields, MacStructs1
  <2>3. Len(MacStructs2["PINGCHANNEL_REQ"]) = 3 /\ MacStructs2["PINGCHANNEL_REQ"][1].bits = 4 /\ MacStructs2["PINGCHANNEL_REQ"][2].bits = 4 /\ MacStructs2["PINGCHANNEL_REQ"][3].bits = 24
    BY DEF MacStructs2, F
  <2> QED
    BY <2>1, <2>2, <2>3 DEF HasWidths, FieldsOf
<1>15. HasWidths("BeaconFreq", <<24>>)
  <2>1. ClientSide["BeaconFreq"] = "BEACONFREQ_REQ"
    BY DEF ClientSide
  <2>2. Fields("BEACONFREQ_REQ") = MacStructs2["BEACONFREQ_REQ"]
    BY DEF Fields, MacStructs1
  <2>3. Len(MacStructs2["BEACONFREQ_REQ"]) = 1 /\ MacStructs2["BEACONFREQ_REQ"][1].bits = 24
    BY DEF MacStructs2, F
  <2> QED
    BY <2>1, <2>2, <2>3 DEF HasWidths, FieldsOf
<1> QED
  BY <1>1, <1>2, <1>3, <1>4, <1>5, <1>6, <1>7, <1>8, <1>9, <1>10, <1>11, <1>12, <1>13, <1>14, <1>15

\* Every command of the command line is read back from bytes that carry it.
LEMMA LineReadsBack ==
  ASSUME NEW c \in LineCids, NEW data, NEW B, NEW p \in Nat,
         Carried(FieldsOf(c, TRUE), data, B, p)
  PROVE  ReadsBack(FieldsOf(c, TRUE), data, B, p)
<1>1. c \in Cids
  BY DEF LineCids, Cids, Code
<1> DEFINE fs == FieldsOf(c, TRUE)
<1>2. Structure(fs) /\ Carried(fs, data, B, p)
  BY <1>1, FieldsOfType
<1> SUFFICES ReadsBack(fs, data, B, p)
  OBVIOUS
<1>3. CASE c = "LinkADR"
  <2> DEFINE w == <<4, 4, 16, 4, 3, 1>>
  <2>1. HasWidths(c, w)
    BY <1>3, LineWidths
  <2>2. Len(w) = 6 /\ w[1] = 4 /\ w[2] = 4 /\ w[3] = 16 /\ w[4] = 4 /\ w[5] = 3 /\ w[6] = 1
    OBVIOUS
  <2> HIDE DEF w
  <2>3. Len(fs) = 6 /\ \A i \in 1 .. 6 : fs[i].bits = w[i]
    BY <2>1, <2>2 DEF HasWidths
  <2> HIDE DEF fs
  <2>4. fs[1].bits = 4 /\ fs[2].bits = 4 /\ fs[3].bits = 16 /\ fs[4].bits = 4 /\ fs[5].bits = 3 /\ fs[6].bits = 1
    BY <2>2, <2>3
  <2> QED
    BY <1>2, <2>3, <2>4, LinkADRShape
<1>4. CASE c = "DutyCycle"
  <2> DEFINE w == <<4, 4>>
  <2>1. HasWidths(c, w)
    BY <1>4, LineWidths
  <2>2. Len(w) = 2 /\ w[1] = 4 /\ w[2] = 4
    OBVIOUS
  <2> HIDE DEF w
  <2>3. Len(fs) = 2 /\ \A i \in 1 .. 2 : fs[i].bits = w[i]
    BY <2>1, <2>2 DEF HasWidths
  <2> HIDE DEF fs
  <2>4. fs[1].bits = 4 /\ fs[2].bits = 4
    BY <2>2, <2>3
  <2> QED
    BY <1>2, <2>3, <2>4, TwoNibbles
<1>5. CASE c = "RXParamSetup"
  <2> DEFINE w == <<4, 3, 1, 24>>
  <2>1. HasWidths(c, w)
    BY <1>5, LineWidths
  <2>2. Len(w) = 4 /\ w[1] = 4 /\ w[2] = 3 /\ w[3] = 1 /\ w[4] = 24
    OBVIOUS
  <2> HIDE DEF w
  <2>3. Len(fs) = 4 /\ \A i \in 1 .. 4 : fs[i].bits = w[i]
    BY <2>1, <2>2 DEF HasWidths
  <2> HIDE DEF fs
  <2>4. fs[1].bits = 4 /\ fs[2].bits = 3 /\ fs[3].bits = 1 /\ fs[4].bits = 24
    BY <2>2, <2>3
  <2> QED
    BY <1>2, <2>3, <2>4, RXParamShape
<1>6. CASE c = "DevStatus"
  <2>1. Len(fs) = 0
    BY <1>6, LineWidths DEF HasWidths
  <2> HIDE DEF fs
  <2> QED
    BY <2>1 DEF ReadsBack
<1>7. CASE c = "NewChannel"
  <2> DEFINE w == <<8, 24, 4, 4>>
  <2>1. HasWidths(c, w)
    BY <1>7, LineWidths
  <2>2. Len(w) = 4 /\ w[1] = 8 /\ w[2] = 24 /\ w[3] = 4 /\ w[4] = 4
    OBVIOUS
  <2> HIDE DEF w
  <2>3. Len(fs) = 4 /\ \A i \in 1 .. 4 : fs[i].bits = w[i]
    BY <2>1, <2>2 DEF HasWidths
  <2> HIDE DEF fs
  <2>4. fs[1].bits = 8 /\ fs[2].bits = 24 /\ fs[3].bits = 4 /\ fs[4].bits = 4
    BY <2>2, <2>3
  <2> QED
    BY <1>2, <2>3, <2>4, NewChannelShape
<1>8. CASE c = "RXTimingSetup"
  <2> DEFINE w == <<4, 4>>
  <2>1. HasWidths(c, w)
    BY <1>8, LineWidths
  <2>2. Len(w) = 2 /\ w[1] = 4 /\ w[2] = 4
    OBVIOUS
  <2> HIDE DEF w
  <2>3. Len(fs) = 2 /\ \A i \in 1 .. 2 : fs[i].bits = w[i]
    BY <2>1, <2>2 DEF HasWidths
  <2> HIDE DEF fs
  <2>4. fs[1].bits = 4 /\ fs[2].bits = 4
    BY <2>2, <2>3
  <2> QED
    BY <1>2, <2>3, <2>4, TwoNibbles
<1>9. CASE c = "TXParamSetup"
  <2> DEFINE w == <<4, 1, 1, 2>>
  <2>1. HasWidths(c, w)
    BY <1>9, LineWidths
  <2>2. Len(w) = 4 /\ w[1] = 4 /\ w[2] = 1 /\ w[3] = 1 /\ w[4] = 2
    OBVIOUS
  <2> HIDE DEF w
  <2>3. Len(fs) = 4 /\ \A i \in 1 .. 4 : fs[i].bits = w[i]
    BY <2>1, <2>2 DEF HasWidths
  <2> HIDE DEF fs
  <2>4. fs[1].bits = 4 /\ fs[2].bits = 1 /\ fs[3].bits = 1 /\ fs[4].bits = 2
    BY <2>2, <2>3
  <2> QED
    BY <1>2, <2>3, <2>4, TXParamShape
<1>10. CASE c = "DLChannel"
  <2> DEFINE w == <<8, 24>>
  <2>1. HasWidths(c, w)
    BY <1>10, LineWidths
  <2>2. Len(w) = 2 /\ w[1] = 8 /\ w[2] = 24
    OBVIOUS
  <2> HIDE DEF w
  <2>3. Len(fs) = 2 /\ \A i \in 1 .. 2 : fs[i].bits = w[i]
    BY <2>1, <2>2 DEF HasWidths
  <2> HIDE DEF fs
  <2>4. fs[1].bits = 8 /\ fs[2].bits = 24
    BY <2>2, <2>3
  <2> QED
    BY <1>2, <2>3, <2>4, DLChannelShape
<1>11. CASE c = "Rekey"
  <2> DEFINE w == <<4, 4>>
  <2>1. HasWidths(c, w)
    BY <1>11, LineWidths
  <2>2. Len(w) = 2 /\ w[1] = 4 /\ w[2] = 4
    OBVIOUS
  <2> HIDE DEF w
  <2>3. Len(fs) = 2 /\ \A i \in 1 .. 2 : fs[i].bits = w[i]
    BY <2>1, <2>2 DEF HasWidths
  <2> HIDE DEF fs
  <2>4. fs[1].bits = 4 /\ fs[2].bits = 4
    BY <2>2, <2>3
  <2> QED
    BY <1>2, <2>3, <2>4, TwoNibbles
<1>12. CASE c = "ADRParamSetup"
  <2> DEFINE w == <<4, 4>>
  <2>1. HasWidths(c, w)
    BY <1>12, LineWidths
  <2>2. Len(w) = 2 /\ w[1] = 4 /\ w[2] = 4
    OBVIOUS
  <2> HIDE DEF w
  <2>3. Len(fs) = 2 /\ \A i \in 1 .. 2 : fs[i].bits = w[i]
    BY <2>1, <2>2 DEF HasWidths
  <2> HIDE DEF fs
  <2>4. fs[1].bits = 4 /\ fs[2].bits = 4
    BY <2>2, <2>3
  <2> QED
    BY <1>2, <2>3, <2>4, TwoNibbles
<1>13. CASE c = "ForceRejoin"
  <2> DEFINE w == <<4, 3, 1, 3, 3, 2>>
  <2>1. HasWidths(c, w)
    BY <1>13, LineWidths
  <2>2. Len(w) = 6 /\ w[1] = 4 /\ w[2] = 3 /\ w[3] = 1 /\ w[4] = 3 /\ w[5] = 3 /\ w[6] = 2
    OBVIOUS
  <2> HIDE DEF w
  <2>3. Len(fs) = 6 /\ \A i \in 1 .. 6 : fs[i].bits = w[i]
    BY <2>1, <2>2 DEF HasWidths
  <2> HIDE DEF fs
  <2>4. fs[1].bits = 4 /\ fs[2].bits = 3 /\ fs[3].bits = 1 /\ fs[4].bits = 3 /\ fs[5].bits = 3 /\ fs[6].bits = 2
    BY <2>2, <2>3
  <2> QED
    BY <1>2, <2>3, <2>4, ForceRejoinShape
<1>14. CASE c = "RejoinParamSetup"
  <2> DEFINE w == <<4, 4>>
  <2>1. HasWidths(c, w)
    BY <1>14, LineWidths
  <2>2. Len(w) = 2 /\ w[1] = 4 /\ w[2] = 4
    OBVIOUS
  <2> HIDE DEF w
  <2>3. Len(fs) = 2 /\ \A i \in 1 .. 2 : fs[i].bits = w[i]
    BY <2>1, <2>2 DEF HasWidths
  <2> HIDE DEF fs
  <2>4. fs[1].bits = 4 /\ fs[2].bits = 4
    BY <2>2, <2>3
  <2> QED
    BY <1>2, <2>3, <2>4, TwoNibbles
<1>15. CASE c = "PingSlotInfo"
  <2>1. Len(fs) = 0
    BY <1>15, LineWidths DEF HasWidths
  <2> HIDE DEF fs
  <2> QED
    BY <2>1 DEF ReadsBack
<1>16. CASE c = "PingSlotChannel"
  <2> DEFINE w == <<4, 4, 24>>
  <2>1. HasWidths(c, w)
    BY <1>16, LineWidths
  <2>2. Len(w) = 3 /\ w[1] = 4 /\ w[2] = 4 /\ w[3] = 24
    OBVIOUS
  <2> HIDE DEF w
  <2>3. Len(fs) = 3 /\ \A i \in 1 .. 3 : fs[i].bits = w[i]
    BY <2>1, <2>2 DEF HasWidths
  <2> HIDE DEF fs
  <2>4. fs[1].bits = 4 /\ fs[2].bits = 4 /\ fs[3].bits = 24
    BY <2>2, <2>3
  <2> QED
    BY <1>2, <2>3, <2>4, PingChannelShape
<1>17. CASE c = "BeaconFreq"
  <2> DEFINE w == <<24>>
  <2>1. HasWidths(c, w)
    BY <1>17, LineWidths
  <2>2. Len(w) = 1 /\ w[1] = 24
    OBVIOUS
  <2> HIDE DEF w
  <2>3. Len(fs) = 1 /\ \A i \in 1 .. 1 : fs[i].bits = w[i]
    BY <2>1, <2>2 DEF HasWidths
  <2> HIDE DEF fs
  <2>4. fs[1].bits = 24
    BY <2>2, <2>3
  <2> QED
    BY <1>2, <2>3, <2>4, BeaconFreqShape
<1> QED
  BY <1>3, <1>4, <1>5, <1>6, <1>7, <1>8, <1>9, <1>10, <1>11, <1>12, <1>13, <1>14, <1>15, <1>16, <1>17 DEF LineCids

\* Every parameter of c is one of its fields, and is printed.
ShownIn(c, ps, fs) ==
  \A k \in 1 .. Len(ps) : \E i \in 1 .. Len(fs) :
     fs[i].name = ps[k] /\ (c = "ForceRejoin" => ps[k] # "dr")

ParamsShown(c) == ShownIn(c, Params(c, TRUE), FieldsOf(c, TRUE))

LEMMA NotHidden ==
  \A c, n : (c = "ForceRejoin" => n # "dr") => <<c, n>> \notin ClientNotPrinted
BY DEF ClientNotPrinted

LEMMA LineParamsShown == \A c \in LineCids : ParamsShown(c)
<1>1. ParamsShown("LinkADR")
  <2> DEFINE ps == Params("LinkADR", TRUE)
             fs == FieldsOf("LinkADR", TRUE)
  <2>1. Len(ps) = 5 /\ ps[1] = "txpower" /\ ps[2] = "datarate" /\ ps[3] = "chmask" /\ ps[4] = "nbtans" /\ ps[5] = "chmaskcntl"
    BY SMT DEF Params, ClientParams
  <2>2. Len(fs) = 6 /\ fs[1].name = "txpower" /\ fs[2].name = "datarate" /\ fs[3].name = "chmask" /\ fs[4].name = "nbtans" /\ fs[5].name = "chmaskcntl"
    BY SMT DEF FieldsOf, ClientSide, Fields, MacStructs1, MacStructs2, F
  <2> SUFFICES ShownIn("LinkADR", ps, fs)
    BY DEF ParamsShown
  <2> HIDE DEF ps, fs
  <2> QED
    BY <2>1, <2>2 DEF ShownIn
<1>2. ParamsShown("DutyCycle")
  <2> DEFINE ps == Params("DutyCycle", TRUE)
             fs == FieldsOf("DutyCycle", TRUE)
  <2>1. Len(ps) = 1 /\ ps[1] = "maxdccycle"
    BY SMT DEF Params, ClientParams
  <2>2. Len(fs) = 2 /\ fs[1].name = "maxdccycle"
    BY SMT DEF FieldsOf, ClientSide, Fields, MacStructs1, MacStructs2, F
  <2> SUFFICES ShownIn("DutyCycle", ps, fs)
    BY DEF ParamsShown
  <2> HIDE DEF ps, fs
  <2> QED
    BY <2>1, <2>2 DEF ShownIn
<1>3. ParamsShown("RXParamSetup")
  <2> DEFINE ps == Params("RXParamSetup", TRUE)
             fs == FieldsOf("RXParamSetup", TRUE)
  <2>1. Len(ps) = 3 /\ ps[1] = "frequency" /\ ps[2] = "rx1droffset" /\ ps[3] = "rx2datatrate"
    BY SMT DEF Params, ClientParams
  <2>2. Len(fs) = 4 /\ fs[4].name = "frequency" /\ fs[2].name = "rx1droffset" /\ fs[1].name = "rx2datatrate"
    BY SMT DEF FieldsOf, ClientSide, Fields, MacStructs1, MacStructs2, F
  <2> SUFFICES ShownIn("RXParamSetup", ps, fs)
    BY DEF ParamsShown
  <2> HIDE DEF ps, fs
  <2> QED
    BY <2>1, <2>2 DEF ShownIn
<1>4. ParamsShown("DevStatus")
  <2> DEFINE ps == Params("DevStatus", TRUE)
             fs == FieldsOf("DevStatus", TRUE)
  <2>1. Len(ps) = 0
    BY SMT DEF Params, ClientParams
  <2>2. Len(fs) = 0
    BY SMT DEF FieldsOf, ClientSide, Fields, MacStructs1, MacStructs2, F
  <2> SUFFICES ShownIn("DevStatus", ps, fs)
    BY DEF ParamsShown
  <2> HIDE DEF ps, fs
  <2> QED
    BY <2>1, <2>2 DEF ShownIn
<1>5. ParamsShown("NewChannel")
  <2> DEFINE ps == Params("NewChannel", TRUE)
             fs == FieldsOf("NewChannel", TRUE)
  <2>1. Len(ps) = 4 /\ ps[1] = "chindex" /\ ps[2] = "frequency" /\ ps[3] = "mindr" /\ ps[4] = "maxdr"
    BY SMT DEF Params, ClientParams
  <2>2. Len(fs) = 4 /\ fs[1].name = "chindex" /\ fs[2].name = "frequency" /\ fs[3].name = "mindr" /\ fs[4].name = "maxdr"
    BY SMT DEF FieldsOf, ClientSide, Fields, MacStructs1, MacStructs2, F
  <2> SUFFICES ShownIn("NewChannel", ps, fs)
    BY DEF ParamsShown
  <2> HIDE DEF ps, fs
  <2> QED
    BY <2>1, <2>2 DEF ShownIn
<1>6. ParamsShown("RXTimingSetup")
  <2> DEFINE ps == Params("RXTimingSetup", TRUE)
             fs == FieldsOf("RXTimingSetup", TRUE)
  <2>1. Len(ps) = 1 /\ ps[1] = "delay"
    BY SMT DEF Params, ClientParams
  <2>2. Len(fs) = 2 /\ fs[1].name = "delay"
    BY SMT DEF FieldsOf, ClientSide, Fields, MacStructs1, MacStructs2, F
  <2> SUFFICES ShownIn("RXTimingSetup", ps, fs)
    BY DEF ParamsShown
  <2> HIDE DEF ps, fs
  <2> QED
    BY <2>1, <2>2 DEF ShownIn
<1>7. ParamsShown("TXParamSetup")
  <2> DEFINE ps == Params("TXParamSetup", TRUE)
             fs == FieldsOf("TXParamSetup", TRUE)
  <2>1. Len(ps) = 3 /\ ps[1] = "downlinkdwelltime" /\ ps[2] = "uplinkdwelltime" /\ ps[3] = "maxeirp"
    BY SMT DEF Params, ClientParams
  <2>2. Len(fs) = 4 /\ fs[3].name = "downlinkdwelltime" /\ fs[2].name = "uplinkdwelltime" /\ fs[1].name = "maxeirp"
    BY SMT DEF FieldsOf, ClientSide, Fields, MacStructs1, MacStructs2, F
  <2> SUFFICES ShownIn("TXParamSetup", ps, fs)
    BY DEF ParamsShown
  <2> HIDE DEF ps, fs
  <2> QED
    BY <2>1, <2>2 DEF ShownIn
<1>8. ParamsShown("DLChannel")
  <2> DEFINE ps == Params("DLChannel", TRUE)
             fs == FieldsOf("DLChannel", TRUE)
  <2>1. Len(ps) = 2 /\ ps[1] = "chindex" /\ ps[2] = "frequency"
    BY SMT DEF Params, ClientParams
  <2>2. Len(fs) = 2 /\ fs[1].name = "chindex" /\ fs[2].name = "frequency"
    BY SMT DEF FieldsOf, ClientSide, Fields, MacStructs1, MacStructs2, F
  <2> SUFFICES ShownIn("DLChannel", ps, fs)
    BY DEF ParamsShown
  <2> HIDE DEF ps, fs
  <2> QED
    BY <2>1, <2>2 DEF ShownIn
<1>9. ParamsShown("Rekey")
  <2> DEFINE ps == Params("Rekey", TRUE)
             fs == FieldsOf("Rekey", TRUE)
  <2>1. Len(ps) = 0
    BY SMT DEF Params, ClientParams
  <2>2. Len(fs) = 2
    BY SMT DEF FieldsOf, ClientSide, Fields, MacStructs1, MacStructs2, F
  <2> SUFFICES ShownIn("Rekey", ps, fs)
    BY DEF ParamsShown
  <2> HIDE DEF ps, fs
  <2> QED
    BY <2>1, <2>2 DEF ShownIn
<1>10. ParamsShown("ADRParamSetup")
  <2> DEFINE ps == Params("ADRParamSetup", TRUE)
             fs == FieldsOf("ADRParamSetup", TRUE)
  <2>1. Len(ps) = 2 /\ ps[1] = "limitexp" /\ ps[2] = "delayexp"
    BY SMT DEF Params, ClientParams
  <2>2. Len(fs) = 2 /\ fs[2].name = "limitexp" /\ fs[1].name = "delayexp"
    BY SMT DEF FieldsOf, ClientSide, Fields, MacStructs1, MacStructs2, F
  <2> SUFFICES ShownIn("ADRParamSetup", ps, fs)
    BY DEF ParamsShown
  <2> HIDE DEF ps, fs
  <2> QED
    BY <2>1, <2>2 DEF ShownIn
<1>11. ParamsShown("ForceRejoin")
  <2> DEFINE ps == Params("ForceRejoin", TRUE)
             fs == FieldsOf("ForceRejoin", TRUE)
  <2>1. Len(ps) = 3 /\ ps[1] = "period" /\ ps[2] = "maxretries" /\ ps[3] = "rejointype"
    BY SMT DEF Params, ClientParams
  <2>2. Len(fs) = 6 /\ fs[5].name = "period" /\ fs[4].name = "maxretries" /\ fs[2].name = "rejointype"
    BY SMT DEF FieldsOf, ClientSide, Fields, MacStructs1, MacStructs2, F
  <2> SUFFICES ShownIn("ForceRejoin", ps, fs)
    BY DEF ParamsShown
  <2> HIDE DEF ps, fs
  <2> QED
    BY <2>1, <2>2 DEF ShownIn
<1>12. ParamsShown("RejoinParamSetup")
  <2> DEFINE ps == Params("RejoinParamSetup", TRUE)
             fs == FieldsOf("RejoinParamSetup", TRUE)
  <2>1. Len(ps) = 2 /\ ps[1] = "maxtime" /\ ps[2] = "maxccount"
    BY SMT DEF Params, ClientParams
  <2>2. Len(fs) = 2 /\ fs[2].name = "maxtime" /\ fs[1].name = "maxccount"
    BY SMT DEF FieldsOf, ClientSide, Fields, MacStructs1, MacStructs2, F
  <2> SUFFICES ShownIn("RejoinParamSetup", ps, fs)
    BY DEF ParamsShown
  <2> HIDE DEF ps, fs
  <2> QED
    BY <2>1, <2>2 DEF ShownIn
<1>13. ParamsShown("PingSlotInfo")
  <2> DEFINE ps == Params("PingSlotInfo", TRUE)
             fs == FieldsOf("PingSlotInfo", TRUE)
  <2>1. Len(ps) = 0
    BY SMT DEF Params, ClientParams
  <2>2. Len(fs) = 0
    BY SMT DEF FieldsOf, ClientSide, Fields, MacStructs1, MacStructs2, F
  <2> SUFFICES ShownIn("PingSlotInfo", ps, fs)
    BY DEF ParamsShown
  <2> HIDE DEF ps, fs
  <2> QED
    BY <2>1, <2>2 DEF ShownIn
<1>14. ParamsShown("PingSlotChannel")
  <2> DEFINE ps == Params("PingSlotChannel", TRUE)
             fs == FieldsOf("PingSlotChannel", TRUE)
  <2>1. Len(ps) = 2 /\ ps[1] = "frequency" /\ ps[2] = "dr"
    BY SMT DEF Params, ClientParams
  <2>2. Len(fs) = 3 /\ fs[3].name = "frequency" /\ fs[1].name = "dr"
    BY SMT DEF FieldsOf, ClientSide, Fields, MacStructs1, MacStructs2, F
  <2> SUFFICES ShownIn("PingSlotChannel", ps, fs)
    BY DEF ParamsShown
  <2> HIDE DEF ps, fs
  <2> QED
    BY <2>1, <2>2 DEF ShownIn
<1>15. ParamsShown("BeaconFreq")
  <2> DEFINE ps == Params("BeaconFreq", TRUE)
             fs == FieldsOf("BeaconFreq", TRUE)
  <2>1. Len(ps) = 1 /\ ps[1] = "frequency"
    BY SMT DEF Params, ClientParams
  <2>2. Len(fs) = 1 /\ fs[1].name = "frequency"
    BY SMT DEF FieldsOf, ClientSide, Fields, MacStructs1, MacStructs2, F
  <2> SUFFICES ShownIn("BeaconFreq", ps, fs)
    BY DEF ParamsShown
  <2> HIDE DEF ps, fs
  <2> QED
    BY <2>1, <2>2 DEF ShownIn
<1> QED
  BY <1>1, <1>2, <1>3, <1>4, <1>5, <1>6, <1>7, <1>8, <1>9, <1>10, <1>11, <1>12, <1>13, <1>14, <1>15 DEF LineCids

(***************************************************************************)
(* MacData::set(), for a command of the command line: values that fit.     *)
(***************************************************************************)
Shapes == {<<>>, <<4, 4>>, <<24>>, <<8, 24>>, <<4, 4, 24>>, <<4, 3, 1, 24>>, <<8, 24, 4, 4>>,
           <<4, 1, 1, 2>>, <<4, 4, 16, 4, 3, 1>>, <<4, 3, 1, 3, 3, 2>>}

ShortWidths == {1, 2, 3, 4, 5, 6, 7, 8, 16, 24}

LEMMA ShapeWidths ==
  ASSUME NEW ws \in Shapes, NEW i \in 1 .. Len(ws)
  PROVE  ws[i] \in ShortWidths
<1>1. ws = <<>> => ws[i] \in ShortWidths
  OBVIOUS
<1>2. ws = <<4, 4>> => ws[i] \in ShortWidths
  BY DEF ShortWidths
<1>3. ws = <<24>> => ws[i] \in ShortWidths
  BY DEF ShortWidths
<1>4. ws = <<8, 24>> => ws[i] \in ShortWidths
  BY DEF ShortWidths
<1>5. ws = <<4, 4, 24>> => ws[i] \in ShortWidths
  BY DEF ShortWidths
<1>6. ws = <<4, 3, 1, 24>> => ws[i] \in ShortWidths
  BY DEF ShortWidths
<1>7. ws = <<8, 24, 4, 4>> => ws[i] \in ShortWidths
  BY DEF ShortWidths
<1>8. ws = <<4, 1, 1, 2>> => ws[i] \in ShortWidths
  BY DEF ShortWidths
<1>9. ws = <<4, 4, 16, 4, 3, 1>> => ws[i] \in ShortWidths
  BY DEF ShortWidths
<1>10. ws = <<4, 3, 1, 3, 3, 2>> => ws[i] \in ShortWidths
  BY DEF ShortWidths
<1> QED
  BY <1>1, <1>2, <1>3, <1>4, <1>5, <1>6, <1>7, <1>8, <1>9, <1>10 DEF Shapes

\* Values cut to a width fit into it.
LEMMA Cut ==
  ASSUME NEW w \in ShortWidths
  PROVE  /\ w \in Nat /\ w < 31 /\ 2^w \in Nat /\ 1 < 2^w
         /\ \A v \in Nat : v % 2^w \in Nat /\ v % 2^w < 2^w
<1>1. 2^w \in {2, 4, 8, 16, 32, 64, 128, 256, 65536, 16777216}
  BY Powers2, SMT DEF ShortWidths
<1>2. w \in Nat /\ w < 31
  BY SMT DEF ShortWidths
<1> DEFINE N == 2^w
<1>3. N \in {2, 4, 8, 16, 32, 64, 128, 256, 65536, 16777216}
  BY <1>1, SMT
<1> SUFFICES N \in Nat /\ 1 < N /\ \A v \in Nat : v % N \in Nat /\ v % N < N
  BY <1>2, <1>3, SMT
<1> HIDE DEF N
<1>4. 1 < N /\ N \in Nat
  BY <1>3, SMT
<1> QED
  BY <1>4, SMT

LEMMA ShortFields ==
  ASSUME NEW c \in LineCids, NEW i \in 1 .. Len(FieldsOf(c, TRUE))
  PROVE  FieldsOf(c, TRUE)[i].bits \in ShortWidths
<1>1. \E ws \in Shapes : HasWidths(c, ws)
  <2>1. \A d \in LineCids : \E ws \in Shapes : HasWidths(d, ws)
    BY LineWidths DEF LineCids, Shapes
  <2> QED
    BY <2>1
<1>2. PICK ws \in Shapes : HasWidths(c, ws)
  BY <1>1
<1>3. i \in 1 .. Len(ws) /\ FieldsOf(c, TRUE)[i].bits = ws[i]
  BY <1>2 DEF HasWidths
<1> QED
  BY <1>3, ShapeWidths

LEMMA ParamsAreSequences ==
  ASSUME NEW c \in LineCids
  PROVE  Len(Params(c, TRUE)) \in Nat /\ DOMAIN Params(c, TRUE) = 1 .. Len(Params(c, TRUE))
BY DEF Params, ClientParams, LineCids

\* A command as set() leaves it: values for all its fields, that fit.
Complete(m) ==
  /\ m.cid \in LineCids /\ m.client = TRUE
  /\ m = [cid |-> m.cid, client |-> TRUE, data |-> m.data]
  /\ m.data = [i \in 1 .. Len(FieldsOf(m.cid, TRUE)) |-> m.data[i]]
  /\ \A i \in 1 .. Len(FieldsOf(m.cid, TRUE)) :
        m.data[i] \in Nat /\ m.data[i] < 2^FieldsOf(m.cid, TRUE)[i].bits

LEMMA SetCompletes ==
  ASSUME NEW c \in LineCids, NEW vals \in Seq(Nat)
  PROVE  Complete(set(c, vals, TRUE)) /\ set(c, vals, TRUE).cid = c
<1> DEFINE fs == FieldsOf(c, TRUE)
           ps == Params(c, TRUE)
           Value(f) ==
             IF Preset(c, TRUE, f.name) THEN 1
             ELSE IF Len(vals) >= Len(ps) /\ f.name \in Range(ps)
                  THEN LET v == vals[CHOOSE i \in DOMAIN ps : ps[i] = f.name]
                       IN  IF f.bits >= 31 THEN v ELSE v % 2^f.bits
                  ELSE 0
           m == set(c, vals, TRUE)
<1>1. m = [cid |-> c, client |-> TRUE, data |-> [i \in DOMAIN fs |-> Value(fs[i])]]
  BY DEF set
<1>2. c \in Cids /\ Structure(fs)
  BY FieldsOfType DEF LineCids, Cids, Code
<1>3. DOMAIN fs = 1 .. Len(fs)
  <2>1. PICK Bs : fs \in Seq(Bs)
    BY <1>2 DEF Structure
  <2> HIDE DEF fs
  <2> QED
    BY <2>1, LenProperties
<1>4. Len(ps) \in Nat /\ DOMAIN ps = 1 .. Len(ps)
  BY ParamsAreSequences
<1>5. ASSUME NEW i \in 1 .. Len(fs) PROVE Value(fs[i]) \in Nat /\ Value(fs[i]) < 2^fs[i].bits
  <2>1. fs[i].bits \in ShortWidths
    BY ShortFields
  <2> DEFINE w == fs[i].bits
  <2>2. /\ w \in Nat /\ w < 31 /\ 2^w \in Nat /\ 1 < 2^w
        /\ \A v \in Nat : v % 2^w \in Nat /\ v % 2^w < 2^w
    BY <2>1, Cut
  <2>3. ASSUME Len(vals) >= Len(ps), fs[i].name \in Range(ps)
        PROVE  vals[CHOOSE k \in DOMAIN ps : ps[k] = fs[i].name] \in Nat
    <3> HIDE DEF fs, ps
    <3>1. \E k \in DOMAIN ps : ps[k] = fs[i].name
      BY <2>3 DEF Range
    <3>2. (CHOOSE k \in DOMAIN ps : ps[k] = fs[i].name) \in DOMAIN ps
      BY <3>1
    <3> QED
      BY <1>4, <2>3, <3>2
  <2>4. Value(fs[i]) = 1 \/ Value(fs[i]) = 0 \/ \E v \in Nat : Value(fs[i]) = v % 2^w
    <3> HIDE DEF fs, ps
    <3> DEFINE v == vals[CHOOSE k \in DOMAIN ps : ps[k] = fs[i].name]
    <3>1. Value(fs[i]) = IF Preset(c, TRUE, fs[i].name) THEN 1
                         ELSE IF Len(vals) >= Len(ps) /\ fs[i].name \in Range(ps)
                              THEN v % 2^w ELSE 0
      <4>1. (w >= 31) = FALSE
        <5> HIDE DEF w
        <5> QED
          BY <2>2
      <4>2. Value(fs[i]) = IF Preset(c, TRUE, fs[i].name) THEN 1
                           ELSE IF Len(vals) >= Len(ps) /\ fs[i].name \in Range(ps)
                                THEN IF w >= 31 THEN v ELSE v % 2^w ELSE 0
        BY Zenon
      <4> HIDE DEF Value, v, w
      <4> QED
        BY <4>1, <4>2
    <3> HIDE DEF Value, v, w
    <3> QED
      BY <2>3, <3>1 DEF v
  <2> DEFINE x == Value(fs[i])
             N == 2^w
  <2>5. N \in Nat /\ 1 < N /\ \A v \in Nat : v % N \in Nat /\ v % N < N
    BY <2>2
  <2>6. x = 1 \/ x = 0 \/ \E v \in Nat : x = v % N
    BY <2>4
  <2> SUFFICES x \in Nat /\ x < N
    OBVIOUS
  <2> HIDE DEF x, N
  <2> QED
    BY <2>5, <2>6
<1> HIDE DEF Value, fs, ps, m
<1>6. /\ m.cid = c /\ m.client = TRUE /\ m.data = [i \in 1 .. Len(fs) |-> Value(fs[i])]
      /\ m = [cid |-> m.cid, client |-> TRUE, data |-> m.data]
  BY <1>1, <1>3
<1>7. \A i \in 1 .. Len(fs) : m.data[i] = Value(fs[i])
  BY <1>6
<1>8. \A i \in 1 .. Len(fs) : m.data[i] \in Nat /\ m.data[i] < 2^fs[i].bits
  BY <1>5, <1>7
<1>9. m.data = [i \in 1 .. Len(fs) |-> m.data[i]]
  BY <1>6
<1> QED
  BY <1>6, <1>8, <1>9 DEF Complete, fs, m

(***************************************************************************)
(* Sequences one after the other.                                          *)
(***************************************************************************)
\* The length of the first k of them.
Upto(ss, k) == Total([i \in 1 .. k |-> Len(ss[i])])

LEMMA UptoStep ==
  ASSUME NEW Bs, NEW ss \in Seq(Seq(Bs))
  PROVE  /\ Upto(ss, 0) = 0
         /\ \A k \in 0 .. Len(ss) : Upto(ss, k) \in Nat
         /\ \A k \in 0 .. Len(ss) - 1 : Upto(ss, k + 1) = Upto(ss, k) + Len(ss[k + 1])
<1>1. \A i \in 1 .. Len(ss) : ss[i] \in Seq(Bs)
  OBVIOUS
<1>2. \A i \in 1 .. Len(ss) : Len(ss[i]) \in Nat
  BY <1>1
<1>3. ASSUME NEW k \in 0 .. Len(ss)
      PROVE  [i \in 1 .. k |-> Len(ss[i])] \in Seq(Nat)
  <2>1. \A i \in 1 .. k : Len(ss[i]) \in Nat
    BY <1>2
  <2> DEFINE n(i) == Len(ss[i])
  <2>2. k \in Nat /\ \A i \in 1 .. k : n(i) \in Nat
    BY <2>1
  <2> HIDE DEF n
  <2>3. [i \in 1 .. k |-> n(i)] \in Seq(Nat)
    BY <2>2
  <2> QED
    BY <2>3 DEF n
<1>4. \A k \in 0 .. Len(ss) : Upto(ss, k) \in Nat
  BY <1>3, TotalType DEF Upto
<1>5. Upto(ss, 0) = 0
  <2>1. [i \in 1 .. 0 |-> Len(ss[i])] = <<>>
    OBVIOUS
  <2> QED
    BY <2>1, TotalEmpty DEF Upto
<1>6. ASSUME NEW k \in 0 .. Len(ss) - 1
      PROVE  Upto(ss, k + 1) = Upto(ss, k) + Len(ss[k + 1])
  <2> DEFINE s == [i \in 1 .. k |-> Len(ss[i])]
             t == [i \in 1 .. k + 1 |-> Len(ss[i])]
             x == Len(ss[k + 1])
  <2>1. k \in 0 .. Len(ss) /\ k + 1 \in 0 .. Len(ss) /\ k + 1 \in 1 .. Len(ss) /\ k \in Nat
    OBVIOUS
  <2>2. s \in Seq(Nat) /\ t \in Seq(Nat) /\ x \in Nat
    BY <1>2, <1>3, <2>1
  <2>3. Len(s) = k /\ Len(t) = k + 1
    BY <2>1
  <2>4. \A i \in 1 .. k : t[i] = s[i]
    BY <2>1
  <2>5. t[k + 1] = x
    BY <2>1
  <2> HIDE DEF s, t, x
  <2>6. t = Append(s, x)
    BY <2>1, <2>2, <2>3, <2>4, <2>5
  <2>7. s \in Seq(Int) /\ x \in Int
    BY <2>2
  <2>8. Total(t) = Total(s) + x
    BY <2>6, <2>7, TotalAppend
  <2> QED
    BY <2>8 DEF s, t, x, Upto
<1> QED
  BY <1>4, <1>5, <1>6

LEMMA UptoGrows ==
  ASSUME NEW Bs, NEW ss \in Seq(Seq(Bs))
  PROVE  \A k \in 0 .. Len(ss) : \A j \in 0 .. k : Upto(ss, j) <= Upto(ss, k)
<1> DEFINE T == {k \in Nat : k <= Len(ss) => \A j \in 0 .. k : Upto(ss, j) <= Upto(ss, k)}
<1>1. 0 \in T
  BY UptoStep
<1>2. ASSUME NEW k \in Nat, k \in T PROVE k + 1 \in T
  <2> SUFFICES ASSUME k + 1 <= Len(ss), NEW j \in 0 .. k + 1
               PROVE  Upto(ss, j) <= Upto(ss, k + 1)
    OBVIOUS
  <2>1. /\ k \in 0 .. Len(ss) - 1 /\ k \in 0 .. Len(ss) /\ k + 1 \in 0 .. Len(ss)
        /\ j \in 0 .. Len(ss) /\ k + 1 \in 1 .. Len(ss)
    OBVIOUS
  <2>2. Upto(ss, k + 1) = Upto(ss, k) + Len(ss[k + 1])
    BY <2>1, UptoStep
  <2>3. Upto(ss, k) \in Nat /\ Upto(ss, k + 1) \in Nat /\ Upto(ss, j) \in Nat
    BY <2>1, UptoStep
  <2>4. ss[k + 1] \in Seq(Bs)
    BY <2>1
  <2>5. Len(ss[k + 1]) \in Nat
    BY <2>4
  <2>6. CASE j = k + 1
    BY <2>3, <2>6
  <2>7. CASE j \in 0 .. k
    <3>1. Upto(ss, j) <= Upto(ss, k)
      BY <1>2, <2>1, <2>7
    <3> QED
      BY <2>2, <2>3, <2>5, <3>1
  <2> QED
    BY <2>6, <2>7
<1>3. Nat \subseteq T
  <2> HIDE DEF T
  <2> QED
    BY <1>1, <1>2, EveryNat
<1>4. Len(ss) \in Nat
  OBVIOUS
<1> QED
  BY <1>3, <1>4

\* flat is the first k of ss, one after the other.
Joined(flat, ss, k) ==
  /\ Len(flat) = Upto(ss, k)
  /\ \A q \in 1 .. k : \A j \in 1 .. Len(ss[q]) : flat[Upto(ss, q - 1) + j] = ss[q][j]

LEMMA JoinMore ==
  ASSUME NEW Bs, NEW ss \in Seq(Seq(Bs)), NEW k \in 0 .. Len(ss) - 1,
         NEW flat \in Seq(Bs), Joined(flat, ss, k)
  PROVE  Joined(flat \o ss[k + 1], ss, k + 1)
<1> DEFINE s == ss[k + 1]
           both == flat \o s
<1>1. /\ k \in Nat /\ Len(ss) \in Nat /\ k + 1 \in 1 .. Len(ss)
      /\ k \in 0 .. Len(ss) /\ k + 1 \in 0 .. Len(ss)
  OBVIOUS
<1>2. s \in Seq(Bs)
  BY <1>1
<1> HIDE DEF s
<1>3. both \in Seq(Bs) /\ Len(both) = Len(flat) + Len(s)
  BY <1>2, ConcatProperties
<1>4. \A i \in 1 .. Len(flat) + Len(s) : both[i] = IF i <= Len(flat) THEN flat[i] ELSE s[i - Len(flat)]
  BY <1>2, ConcatProperties
<1> HIDE DEF both
<1>5. Len(flat) = Upto(ss, k) /\ Len(flat) \in Nat /\ Len(s) \in Nat
  BY <1>2 DEF Joined
<1>6. Upto(ss, k + 1) = Upto(ss, k) + Len(s)
  BY UptoStep DEF s
<1>7. Len(both) = Upto(ss, k + 1)
  BY <1>3, <1>5, <1>6
<1>8. ASSUME NEW q \in 1 .. k + 1, NEW j \in 1 .. Len(ss[q])
      PROVE  both[Upto(ss, q - 1) + j] = ss[q][j]
  <2>1. ss[q] \in Seq(Bs) /\ q \in 1 .. Len(ss)
    BY <1>1
  <2>2. Len(ss[q]) \in Nat /\ j \in Nat /\ j >= 1 /\ j <= Len(ss[q])
    BY <2>1
  <2>3. CASE q = k + 1
    <3>1. Upto(ss, q - 1) = Len(flat) /\ ss[q] = s
      BY <1>1, <1>5, <2>3 DEF s
    <3>2. Len(flat) + j \in 1 .. Len(flat) + Len(s) /\ ~(Len(flat) + j <= Len(flat))
      BY <1>5, <2>2, <3>1
    <3>3. Len(flat) + j - Len(flat) = j
      BY <1>5, <2>2
    <3>4. both[Len(flat) + j] = s[Len(flat) + j - Len(flat)]
      <4>1. ASSUME NEW i \in 1 .. Len(flat) + Len(s), ~(i <= Len(flat))
            PROVE  both[i] = s[i - Len(flat)]
        BY <1>4, <4>1
      <4> QED
        BY <3>2, <4>1
    <3>5. both[Len(flat) + j] = s[j]
      BY <3>3, <3>4, Zenon
    <3> QED
      BY <3>1, <3>5, Zenon
  <2>4. CASE q \in 1 .. k
    <3>1. q - 1 \in 0 .. Len(ss) - 1 /\ q \in 0 .. k /\ q - 1 + 1 = q /\ q - 1 \in 0 .. Len(ss)
      BY <1>1, <2>4
    <3>2. Upto(ss, q) = Upto(ss, q - 1) + Len(ss[q]) /\ Upto(ss, q - 1) \in Nat
      BY <3>1, UptoStep
    <3>3. Upto(ss, q) <= Upto(ss, k)
      BY <1>1, <3>1, UptoGrows
    <3>4. Upto(ss, q - 1) + j \in 1 .. Len(flat)
      BY <1>5, <2>2, <3>2, <3>3, SMTT(30)
    <3>5. Upto(ss, q - 1) + j \in 1 .. Len(flat) + Len(s) /\ Upto(ss, q - 1) + j <= Len(flat)
      BY <1>5, <3>4
    <3>6. both[Upto(ss, q - 1) + j] = flat[Upto(ss, q - 1) + j]
      BY <1>4, <3>5
    <3> QED
      BY <2>4, <3>6 DEF Joined
  <2> QED
    BY <1>1, <2>3, <2>4
<1> SUFFICES Joined(both, ss, k + 1)
  BY DEF both, s
<1> QED
  BY <1>7, <1>8 DEF Joined

LEMMA FlattenJoins ==
  ASSUME NEW Bs, NEW ss \in Seq(Seq(Bs))
  PROVE  FlattenSeq(ss) \in Seq(Bs) /\ Joined(FlattenSeq(ss), ss, Len(ss))
<1> DEFINE L == Len(ss)
           J(x, y) == x \o y
<1>1. L \in Nat /\ \A i \in 1 .. L : ss[i] \in Seq(Bs)
  OBVIOUS
<1>2. PICK r : FlattenRun(r, ss, Bs)
  BY FlattenSteps
<1>3. /\ r \in [0 .. L -> Seq(Bs)] /\ r[0] = <<>> /\ FlattenSeq(ss) = r[L]
      /\ \A i \in 1 .. L : r[i] = J(r[i - 1], ss[i])
  BY <1>2 DEF FlattenRun
<1> DEFINE T == {k \in Nat : k <= L => Joined(r[k], ss, k)}
<1>4. 0 \in T
  <2>1. Upto(ss, 0) = 0
    BY UptoStep
  <2>2. Len(<<>>) = 0 /\ 1 .. 0 = {}
    OBVIOUS
  <2>3. Joined(<<>>, ss, 0)
    BY <2>1, <2>2 DEF Joined
  <2> QED
    BY <1>3, <2>3
<1> HIDE DEF J
<1>5. ASSUME NEW k \in Nat, k \in T PROVE k + 1 \in T
  <2> SUFFICES ASSUME k + 1 <= L PROVE Joined(r[k + 1], ss, k + 1)
    OBVIOUS
  <2>1. /\ k + 1 \in 1 .. L /\ k \in 0 .. L - 1 /\ k \in 0 .. L /\ k + 1 - 1 = k /\ k <= L
    BY <1>1
  <2>2. Joined(r[k], ss, k) /\ r[k] \in Seq(Bs)
    BY <1>3, <1>5, <2>1
  <2>3. r[k + 1] = J(r[k], ss[k + 1])
    BY <1>3, <2>1
  <2>4. Joined(J(r[k], ss[k + 1]), ss, k + 1)
    BY <2>1, <2>2, JoinMore DEF J
  <2> QED
    BY <2>3, <2>4, Zenon
<1>6. L \in T
  <2> HIDE DEF T
  <2>1. Nat \subseteq T
    BY <1>4, <1>5, EveryNat
  <2> QED
    BY <1>1, <2>1
<1> QED
  BY <1>1, <1>3, <1>6

(***************************************************************************)
(* The inductive invariant.                                                *)
(***************************************************************************)
\* Commands as the command line makes them.
LineCommands == UNION {{set(c, vals, TRUE) : vals \in Seq(Nat)} : c \in LineCids}

\* The words of a command line that has made these commands, and their bytes.
WordsOf(list) == Total([i \in 1 .. Len(list) |-> 1 + Len(Params(list[i].cid, TRUE))])

BytesOf(list) == FlattenSeq([i \in DOMAIN list |-> toString(list[i])])

\* What MacPtr holds, the bytes that it counts for it, and those of the answer.
Entries == [cid : Cids, at : Nat]

CountOf(list) == Total([i \in 1 .. Len(list) |-> commandSize(list[i].cid, FALSE)])

AnswerOf(list) == Total([i \in 1 .. Len(list) |-> AnswerSize(list[i].cid)])

\* The command line: the command that waits for parameters has some left, and
\* every word is accounted for as long as there is no error.
LineInv ==
  /\ gwCmd \in 0 .. Len(gatewayCommands)
  /\ gwVals \in Seq(Nat)
  /\ gwCmd = 0 => gwVals = <<>>
  /\ gwCmd # 0 => Len(gwVals) < Len(gatewayCommands[gwCmd].params)
  /\ gwList \in Seq(LineCommands)
  /\ gwErr = 0 => gwCount = (IF gwCmd = 0 THEN 0 ELSE 1 + Len(gwVals)) + WordsOf(gwList)

ReadStages == {"ptr", "respond", "end"}

\* The commands that main() has made anew are those of the line.
FormInv ==
  /\ macStage \in {"line", "made", "formed"} \cup ReadStages
  /\ macStage \in {"made", "formed"} => gwCount > 0
  /\ macStage # "line" /\ gwCount > 0 => gwErr = 0 /\ gwVals = <<>>
  /\ macStage \in {"formed"} \cup ReadStages /\ gwCount > 0 => gwMd = gwList

\* MacPtr: the bytes of what it holds and those left make up the payload; the
\* first of its commands is the one at the front.
CountInv ==
  /\ ptrPos \in Nat /\ ptrLeft \in Nat /\ ptrList \in Seq(Entries)
  /\ macStage \notin ReadStages => ptrPos = 1 /\ ptrList = <<>> /\ ptrErr = 0
  /\ macStage \in ReadStages =>
       /\ Len(macBytes) \in Nat /\ ptrLeft + CountOf(ptrList) = Len(macBytes)
       /\ ptrList = <<>> => ptrPos = 1
       /\ ptrList # <<>> => ptrList[1] = [cid |-> CidOf(macBytes[1]), at |-> 1]
       /\ macStage = "ptr" => ptrErr = 0
       /\ macStage # "ptr" => (ptrErr = 0 <=> ptrLeft = 0)

\* A link check at the front of what an end-device sent is answered.
AnswerInv ==
  /\ AnswerOf(ptrList) \in Nat
  /\ ptrList # <<>> /\ ptrList[1].cid = "LinkCheck" =>
       AnswerOf(ptrList) >= commandSize("LinkCheck", TRUE)
  /\ macStage \in ReadStages /\ gwCount = 0 => Len(macBytes) >= 1
  /\ macStage \in {"respond", "end"} /\ gwCount = 0 /\ ptrList = <<>> =>
       macBytes[1] # Code["LinkCheck"]
  /\ macStage = "end" => gwCount = 0 /\ macAnswer = AnswerOf(ptrList)

MacInv == LineInv /\ FormInv /\ CountInv /\ AnswerInv

(***************************************************************************)
(* A list of commands and its bytes.                                       *)
(***************************************************************************)
\* The sum of a quantity over a list grows by that of a command appended.
Weigh(list, g) == Total([i \in 1 .. Len(list) |-> g[list[i]]])

LEMMA WeighAppend ==
  ASSUME NEW S, NEW g \in [S -> Int], NEW list \in Seq(S), NEW e \in S
  PROVE  Weigh(Append(list, e), g) = Weigh(list, g) + g[e]
<1> DEFINE a == [i \in 1 .. Len(list) |-> g[list[i]]]
           more == Append(list, e)
           b == [i \in 1 .. Len(more) |-> g[more[i]]]
<1>1. Len(list) \in Nat /\ \A i \in 1 .. Len(list) : list[i] \in S
  OBVIOUS
<1>2. more \in Seq(S) /\ Len(more) = Len(list) + 1 /\ more[Len(list) + 1] = e
  OBVIOUS
<1>3. \A i \in 1 .. Len(list) : more[i] = list[i]
  OBVIOUS
<1> HIDE DEF more
<1>4. a \in Seq(Int) /\ Len(a) = Len(list) /\ \A i \in 1 .. Len(list) : a[i] = g[list[i]]
  BY <1>1
<1>5. /\ b \in Seq(Int) /\ Len(b) = Len(list) + 1
      /\ \A i \in 1 .. Len(list) : b[i] = g[list[i]]
      /\ b[Len(list) + 1] = g[e]
  BY <1>1, <1>2, <1>3
<1> HIDE DEF a, b
<1>6. g[e] \in Int
  OBVIOUS
<1>7. b = Append(a, g[e])
  BY <1>1, <1>4, <1>5, <1>6
<1>8. Total(b) = Total(a) + g[e]
  BY <1>4, <1>6, <1>7, TotalAppend
<1> QED
  BY <1>8 DEF Weigh, a, b, more

\* What the bytes of a command are.
LEMMA StringIsSeq ==
  ASSUME NEW m, m.cid \in Cids
  PROVE  toString(m) \in Seq({toString(m)[j] : j \in Nat})
<1> DEFINE size == commandSize(m.cid, m.client)
           Bs == {toString(m)[j] : j \in Nat}
           fs == FieldsOf(m.cid, m.client)
           byte(k) == Total([i \in 1 .. Len(fs) |-> Part(fs, m.data, i, k - 1)])
           rest == [k \in 1 .. size - 1 |-> byte(k)]
           E == {byte(k) : k \in 1 .. size - 1} \cup {Code[m.cid]}
           s == toString(m)
<1>1. size \in Nat /\ size >= 1
  BY SizeType
<1>2. s = <<Code[m.cid]>> \o rest
  BY DEF toString
<1> HIDE DEF size, byte, s
<1>3. rest \in Seq(E) /\ <<Code[m.cid]>> \in Seq(E)
  BY <1>1
<1> HIDE DEF rest, E
<1>4. s \in Seq(E)
  BY <1>2, <1>3, ConcatProperties
<1>5. s \in Seq({s[j] : j \in Nat})
  <2>1. Len(s) \in Nat /\ s \in [1 .. Len(s) -> E]
    BY <1>4, LenProperties
  <2>2. s = [j \in 1 .. Len(s) |-> s[j]]
    BY <2>1
  <2> DEFINE L == Len(s)
             G == {s[j] : j \in Nat}
  <2>3. [j \in 1 .. L |-> s[j]] \in Seq(G)
    <3>1. L \in Nat /\ \A j \in 1 .. L : s[j] \in G
      BY <2>1
    <3> HIDE DEF L, G
    <3> QED
      BY <3>1
  <2> HIDE DEF G
  <2> QED
    BY <2>2, <2>3 DEF G
<1> QED
  BY <1>5 DEF s

LEMMA LineComplete == \A m \in LineCommands : Complete(m) /\ m.cid \in Cids
<1>1. ASSUME NEW m \in LineCommands PROVE Complete(m)
  <2>1. PICK c \in LineCids, vals \in Seq(Nat) : m = set(c, vals, TRUE)
    BY Zenon DEF LineCommands
  <2> QED
    BY <2>1, SetCompletes
<1> QED
  BY <1>1 DEF Complete, LineCids, Cids, Code

\* The strings of a list of commands.
StringsOf(list) == [i \in DOMAIN list |-> toString(list[i])]

LEMMA StringsType ==
  ASSUME NEW list \in Seq(LineCommands)
  PROVE  /\ \E Bs : StringsOf(list) \in Seq(Seq(Bs))
         /\ Len(StringsOf(list)) = Len(list)
         /\ \A i \in 1 .. Len(list) : StringsOf(list)[i] = toString(list[i])
<1> DEFINE G(m) == {toString(m)[j] : j \in Nat}
           Bs == UNION {G(list[i]) : i \in 1 .. Len(list)}
           L == Len(list)
           st(i) == toString(list[i])
<1>1. L \in Nat /\ DOMAIN list = 1 .. L /\ \A i \in 1 .. L : list[i] \in LineCommands
  BY LenProperties
<1>2. ASSUME NEW i \in 1 .. L PROVE st(i) \in Seq(Bs)
  <2>1. list[i].cid \in Cids
    BY <1>1, LineComplete
  <2> DEFINE g == G(list[i])
             s == st(i)
  <2>2. s \in Seq(g)
    BY <2>1, StringIsSeq
  <2>3. g \subseteq Bs
    BY Zenon
  <2> HIDE DEF g, Bs, s
  <2>4. Len(s) \in Nat /\ s \in [1 .. Len(s) -> g]
    BY <2>2, LenProperties
  <2>5. s \in [1 .. Len(s) -> Bs]
    BY <2>3, <2>4
  <2>6. s \in Seq(Bs)
    BY <2>4, <2>5
  <2> QED
    BY <2>6 DEF s
<1>3. StringsOf(list) = [i \in 1 .. L |-> st(i)]
  BY <1>1, Zenon DEF StringsOf
<1> HIDE DEF L, Bs, st, G
<1>4. [i \in 1 .. L |-> st(i)] \in Seq(Seq(Bs))
  BY <1>1, <1>2
<1>5. Len([i \in 1 .. L |-> st(i)]) = L /\ \A i \in 1 .. L : [j \in 1 .. L |-> st(j)][i] = st(i)
  BY <1>1
<1> QED
  BY <1>3, <1>4, <1>5 DEF L, st

\* A command of the line comes back out of its own bytes.
LEMMA MadeAnew ==
  ASSUME NEW m \in LineCommands
  PROVE  MacData(toString(m), TRUE) = m
<1> DEFINE B == toString(m)
           size == commandSize(m.cid, TRUE)
           fs == FieldsOf(m.cid, TRUE)
<1>1. Complete(m) /\ m.cid \in Cids
  BY LineComplete
<1>2. m.cid \in LineCids /\ m.client = TRUE
  BY <1>1 DEF Complete
<1>3. size \in Nat /\ size >= 1
  BY <1>1, SizeType
<1>4. /\ Len(B) = size /\ B[1] = Code[m.cid]
      /\ \A k \in 1 .. size - 1 :
            B[k + 1] = Total([i \in 1 .. Len(fs) |-> Part(fs, m.data, i, k - 1)])
  BY <1>1, <1>2, SizeOfString
<1> HIDE DEF size, B, fs
<1>5. Carried(fs, m.data, B, 1)
  <2>1. \A i \in 1 .. Len(fs) : m.data[i] \in Nat /\ m.data[i] < 2^fs[i].bits
    BY <1>1 DEF Complete, fs
  <2>2. size = 1 + Bits(fs) \div 8
    BY DEF size, fs, commandSize
  <2>3. Bits(fs) \in Nat
    BY <1>1, FieldsOfType, BitsType DEF fs
  <2>4. ASSUME NEW k \in 0 .. Bits(fs) \div 8 - 1
        PROVE  B[1 + 1 + k] = Total([i \in 1 .. Len(fs) |-> Part(fs, m.data, i, k)])
    <3>1. k + 1 \in 1 .. size - 1 /\ k + 1 + 1 = 1 + 1 + k /\ k + 1 - 1 = k
      BY <2>2, <2>3
    <3>2. B[k + 1 + 1] = Total([i \in 1 .. Len(fs) |-> Part(fs, m.data, i, k + 1 - 1)])
      BY <1>4, <3>1
    <3> QED
      BY <3>1, <3>2
  <2> QED
    BY <2>1, <2>4 DEF Carried
<1>6. ReadsBack(fs, m.data, B, 1)
  BY <1>2, <1>5, LineReadsBack DEF fs
<1>7. CidOf(B[1]) = m.cid
  BY <1>1, <1>4, CidOfCode
<1>8. MacDataAt(B, 1, TRUE) = m
  <2>1. MacDataAt(B, 1, TRUE) =
          [cid |-> m.cid, client |-> TRUE, data |-> [i \in DOMAIN fs |-> FieldAt(fs, B, 1, i)]]
    BY <1>7, Zenon DEF MacDataAt, fs
  <2>2. DOMAIN fs = 1 .. Len(fs)
    <3>1. PICK E : fs \in Seq(E)
      BY <1>1, FieldsOfType DEF Structure, fs
    <3> QED
      BY <3>1, LenProperties
  <2>3. [i \in DOMAIN fs |-> FieldAt(fs, B, 1, i)] = [i \in 1 .. Len(fs) |-> m.data[i]]
    BY <1>6, <2>2 DEF ReadsBack
  <2>4. m.data = [i \in 1 .. Len(fs) |-> m.data[i]] /\ m = [cid |-> m.cid, client |-> TRUE, data |-> m.data]
    BY <1>1 DEF Complete, fs
  <2> QED
    BY <2>1, <2>3, <2>4, Zenon
<1>9. parseSide(B[1], Len(B), TRUE) = size
  <2>1. ~(\A c \in Cids : Code[c] # B[1])
    BY <1>1, <1>4
  <2>2. ~(Len(B) < 1) /\ ~(Len(B) < size)
    BY <1>3, <1>4
  <2> QED
    BY <1>7, <2>1, <2>2, Zenon DEF parseSide, size, commandSize
<1>10. ~(size < 0)
  BY <1>3
<1>11. MacData(B, TRUE) = m
  BY <1>8, <1>9, <1>10, Zenon DEF MacData
<1> QED
  BY <1>11 DEF B

(***************************************************************************)
(* The table of the commands.                                              *)
(***************************************************************************)
\* An entry of the table, and the values of its parameters.
LineEntry(d) ==
  /\ d.cid \in LineCids /\ Len(d.params) \in Nat
  /\ Len(Params(d.cid, TRUE)) = Len(d.params)
  /\ (d.params = <<>>) <=> (Len(d.params) = 0)
  /\ \A k \in 1 .. Len(d.params) : d.params[k] \in DOMAIN ParamChoices

LEMMA TableEntries ==
  /\ Len(gatewayCommands) = 15
  /\ \A i \in 1 .. 15 : LineEntry(gatewayCommands[i])
<1>1. Len(gatewayCommands) = 15
  BY SMT DEF gatewayCommands
<1>2. LineEntry(gatewayCommands[1])
  <2> DEFINE d == gatewayCommands[1]
  <2>1. d.params = <<"TXPOWER", "DATARATE", "CHMASK", "NBTRANS", "CHMASKCTL">>
    BY SMT DEF gatewayCommands, D
  <2>0. d.cid = "LinkADR"
    BY SMT DEF gatewayCommands, D
  <2>2. Len(Params("LinkADR", TRUE)) = 5 /\ "LinkADR" \in LineCids
    BY SMT DEF Params, ClientParams, LineCids
  <2>3. \A k \in 1 .. 5 : <<"TXPOWER", "DATARATE", "CHMASK", "NBTRANS", "CHMASKCTL">>[k] \in DOMAIN ParamChoices
    BY SMT DEF ParamChoices
  <2>4. Len(<<"TXPOWER", "DATARATE", "CHMASK", "NBTRANS", "CHMASKCTL">>) = 5
    BY SMT
  <2> SUFFICES LineEntry(d)
    OBVIOUS
  <2> HIDE DEF d
  <2>5. Len(d.params) = 5 /\ Len(d.params) \in Nat
    BY <2>1, <2>4
  <2>6. d.params # <<>>
    BY <2>5
  <2>7. \A k \in 1 .. Len(d.params) : d.params[k] \in DOMAIN ParamChoices
    BY <2>1, <2>3, <2>5
  <2>9. (d.params = <<>>) <=> (Len(d.params) = 0)
    BY <2>5, <2>6
  <2>8. d.cid \in LineCids /\ Len(Params(d.cid, TRUE)) = 5
    BY <2>0, <2>2
  <2> QED
    BY <2>5, <2>7, <2>8, <2>9, Zenon DEF LineEntry
<1>3. LineEntry(gatewayCommands[2])
  <2> DEFINE d == gatewayCommands[2]
  <2>1. d.params = <<"DUTY_CYCLE_LIMIT">>
    BY SMT DEF gatewayCommands, D
  <2>0. d.cid = "DutyCycle"
    BY SMT DEF gatewayCommands, D
  <2>2. Len(Params("DutyCycle", TRUE)) = 1 /\ "DutyCycle" \in LineCids
    BY SMT DEF Params, ClientParams, LineCids
  <2>3. \A k \in 1 .. 1 : <<"DUTY_CYCLE_LIMIT">>[k] \in DOMAIN ParamChoices
    BY SMT DEF ParamChoices
  <2>4. Len(<<"DUTY_CYCLE_LIMIT">>) = 1
    BY SMT
  <2> SUFFICES LineEntry(d)
    OBVIOUS
  <2> HIDE DEF d
  <2>5. Len(d.params) = 1 /\ Len(d.params) \in Nat
    BY <2>1, <2>4
  <2>6. d.params # <<>>
    BY <2>5
  <2>7. \A k \in 1 .. Len(d.params) : d.params[k] \in DOMAIN ParamChoices
    BY <2>1, <2>3, <2>5
  <2>9. (d.params = <<>>) <=> (Len(d.params) = 0)
    BY <2>5, <2>6
  <2>8. d.cid \in LineCids /\ Len(Params(d.cid, TRUE)) = 1
    BY <2>0, <2>2
  <2> QED
    BY <2>5, <2>7, <2>8, <2>9, Zenon DEF LineEntry
<1>4. LineEntry(gatewayCommands[3])
  <2> DEFINE d == gatewayCommands[3]
  <2>1. d.params = <<"FREQUENCY", "RX1_DR_OFFSET", "DATARATE">>
    BY SMT DEF gatewayCommands, D
  <2>0. d.cid = "RXParamSetup"
    BY SMT DEF gatewayCommands, D
  <2>2. Len(Params("RXParamSetup", TRUE)) = 3 /\ "RXParamSetup" \in LineCids
    BY SMT DEF Params, ClientParams, LineCids
  <2>3. \A k \in 1 .. 3 : <<"FREQUENCY", "RX1_DR_OFFSET", "DATARATE">>[k] \in DOMAIN ParamChoices
    BY SMT DEF ParamChoices
  <2>4. Len(<<"FREQUENCY", "RX1_DR_OFFSET", "DATARATE">>) = 3
    BY SMT
  <2> SUFFICES LineEntry(d)
    OBVIOUS
  <2> HIDE DEF d
  <2>5. Len(d.params) = 3 /\ Len(d.params) \in Nat
    BY <2>1, <2>4
  <2>6. d.params # <<>>
    BY <2>5
  <2>7. \A k \in 1 .. Len(d.params) : d.params[k] \in DOMAIN ParamChoices
    BY <2>1, <2>3, <2>5
  <2>9. (d.params = <<>>) <=> (Len(d.params) = 0)
    BY <2>5, <2>6
  <2>8. d.cid \in LineCids /\ Len(Params(d.cid, TRUE)) = 3
    BY <2>0, <2>2
  <2> QED
    BY <2>5, <2>7, <2>8, <2>9, Zenon DEF LineEntry
<1>5. LineEntry(gatewayCommands[4])
  <2> DEFINE d == gatewayCommands[4]
  <2>1. d.params = <<>>
    BY SMT DEF gatewayCommands, D
  <2>0. d.cid = "DevStatus"
    BY SMT DEF gatewayCommands, D
  <2>2. Len(Params("DevStatus", TRUE)) = 0 /\ "DevStatus" \in LineCids
    BY SMT DEF Params, ClientParams, LineCids
  <2>3. \A k \in 1 .. 0 : <<>>[k] \in DOMAIN ParamChoices
    BY SMT DEF ParamChoices
  <2>4. Len(<<>>) = 0
    BY SMT
  <2> SUFFICES LineEntry(d)
    OBVIOUS
  <2> HIDE DEF d
  <2>5. Len(d.params) = 0 /\ Len(d.params) \in Nat
    BY <2>1, <2>4
  <2>6. d.params = <<>>
    BY <2>1
  <2>7. \A k \in 1 .. Len(d.params) : d.params[k] \in DOMAIN ParamChoices
    BY <2>1, <2>3, <2>5
  <2>9. (d.params = <<>>) <=> (Len(d.params) = 0)
    BY <2>5, <2>6
  <2>8. d.cid \in LineCids /\ Len(Params(d.cid, TRUE)) = 0
    BY <2>0, <2>2
  <2> QED
    BY <2>5, <2>7, <2>8, <2>9, Zenon DEF LineEntry
<1>6. LineEntry(gatewayCommands[5])
  <2> DEFINE d == gatewayCommands[5]
  <2>1. d.params = <<"CHANNEL_INDEX", "FREQUENCY", "MIN_DR", "MAX_DR">>
    BY SMT DEF gatewayCommands, D
  <2>0. d.cid = "NewChannel"
    BY SMT DEF gatewayCommands, D
  <2>2. Len(Params("NewChannel", TRUE)) = 4 /\ "NewChannel" \in LineCids
    BY SMT DEF Params, ClientParams, LineCids
  <2>3. \A k \in 1 .. 4 : <<"CHANNEL_INDEX", "FREQUENCY", "MIN_DR", "MAX_DR">>[k] \in DOMAIN ParamChoices
    BY SMT DEF ParamChoices
  <2>4. Len(<<"CHANNEL_INDEX", "FREQUENCY", "MIN_DR", "MAX_DR">>) = 4
    BY SMT
  <2> SUFFICES LineEntry(d)
    OBVIOUS
  <2> HIDE DEF d
  <2>5. Len(d.params) = 4 /\ Len(d.params) \in Nat
    BY <2>1, <2>4
  <2>6. d.params # <<>>
    BY <2>5
  <2>7. \A k \in 1 .. Len(d.params) : d.params[k] \in DOMAIN ParamChoices
    BY <2>1, <2>3, <2>5
  <2>9. (d.params = <<>>) <=> (Len(d.params) = 0)
    BY <2>5, <2>6
  <2>8. d.cid \in LineCids /\ Len(Params(d.cid, TRUE)) = 4
    BY <2>0, <2>2
  <2> QED
    BY <2>5, <2>7, <2>8, <2>9, Zenon DEF LineEntry
<1>7. LineEntry(gatewayCommands[6])
  <2> DEFINE d == gatewayCommands[6]
  <2>1. d.params = <<"RXTIMING">>
    BY SMT DEF gatewayCommands, D
  <2>0. d.cid = "RXTimingSetup"
    BY SMT DEF gatewayCommands, D
  <2>2. Len(Params("RXTimingSetup", TRUE)) = 1 /\ "RXTimingSetup" \in LineCids
    BY SMT DEF Params, ClientParams, LineCids
  <2>3. \A k \in 1 .. 1 : <<"RXTIMING">>[k] \in DOMAIN ParamChoices
    BY SMT DEF ParamChoices
  <2>4. Len(<<"RXTIMING">>) = 1
    BY SMT
  <2> SUFFICES LineEntry(d)
    OBVIOUS
  <2> HIDE DEF d
  <2>5. Len(d.params) = 1 /\ Len(d.params) \in Nat
    BY <2>1, <2>4
  <2>6. d.params # <<>>
    BY <2>5
  <2>7. \A k \in 1 .. Len(d.params) : d.params[k] \in DOMAIN ParamChoices
    BY <2>1, <2>3, <2>5
  <2>9. (d.params = <<>>) <=> (Len(d.params) = 0)
    BY <2>5, <2>6
  <2>8. d.cid \in LineCids /\ Len(Params(d.cid, TRUE)) = 1
    BY <2>0, <2>2
  <2> QED
    BY <2>5, <2>7, <2>8, <2>9, Zenon DEF LineEntry
<1>8. LineEntry(gatewayCommands[7])
  <2> DEFINE d == gatewayCommands[7]
  <2>1. d.params = <<"DWELLTIME", "DWELLTIME", "MAXEIRP">>
    BY SMT DEF gatewayCommands, D
  <2>0. d.cid = "TXParamSetup"
    BY SMT DEF gatewayCommands, D
  <2>2. Len(Params("TXParamSetup", TRUE)) = 3 /\ "TXParamSetup" \in LineCids
    BY SMT DEF Params, ClientParams, LineCids
  <2>3. \A k \in 1 .. 3 : <<"DWELLTIME", "DWELLTIME", "MAXEIRP">>[k] \in DOMAIN ParamChoices
    BY SMT DEF ParamChoices
  <2>4. Len(<<"DWELLTIME", "DWELLTIME", "MAXEIRP">>) = 3
    BY SMT
  <2> SUFFICES LineEntry(d)
    OBVIOUS
  <2> HIDE DEF d
  <2>5. Len(d.params) = 3 /\ Len(d.params) \in Nat
    BY <2>1, <2>4
  <2>6. d.params # <<>>
    BY <2>5
  <2>7. \A k \in 1 .. Len(d.params) : d.params[k] \in DOMAIN ParamChoices
    BY <2>1, <2>3, <2>5
  <2>9. (d.params = <<>>) <=> (Len(d.params) = 0)
    BY <2>5, <2>6
  <2>8. d.cid \in LineCids /\ Len(Params(d.cid, TRUE)) = 3
    BY <2>0, <2>2
  <2> QED
    BY <2>5, <2>7, <2>8, <2>9, Zenon DEF LineEntry
<1>9. LineEntry(gatewayCommands[8])
  <2> DEFINE d == gatewayCommands[8]
  <2>1. d.params = <<"CHANNEL_INDEX", "FREQUENCY">>
    BY SMT DEF gatewayCommands, D
  <2>0. d.cid = "DLChannel"
    BY SMT DEF gatewayCommands, D
  <2>2. Len(Params("DLChannel", TRUE)) = 2 /\ "DLChannel" \in LineCids
    BY SMT DEF Params, ClientParams, LineCids
  <2>3. \A k \in 1 .. 2 : <<"CHANNEL_INDEX", "FREQUENCY">>[k] \in DOMAIN ParamChoices
    BY SMT DEF ParamChoices
  <2>4. Len(<<"CHANNEL_INDEX", "FREQUENCY">>) = 2
    BY SMT
  <2> SUFFICES LineEntry(d)
    OBVIOUS
  <2> HIDE DEF d
  <2>5. Len(d.params) = 2 /\ Len(d.params) \in Nat
    BY <2>1, <2>4
  <2>6. d.params # <<>>
    BY <2>5
  <2>7. \A k \in 1 .. Len(d.params) : d.params[k] \in DOMAIN ParamChoices
    BY <2>1, <2>3, <2>5
  <2>9. (d.params = <<>>) <=> (Len(d.params) = 0)
    BY <2>5, <2>6
  <2>8. d.cid \in LineCids /\ Len(Params(d.cid, TRUE)) = 2
    BY <2>0, <2>2
  <2> QED
    BY <2>5, <2>7, <2>8, <2>9, Zenon DEF LineEntry
<1>10. LineEntry(gatewayCommands[9])
  <2> DEFINE d == gatewayCommands[9]
  <2>1. d.params = <<>>
    BY SMT DEF gatewayCommands, D
  <2>0. d.cid = "Rekey"
    BY SMT DEF gatewayCommands, D
  <2>2. Len(Params("Rekey", TRUE)) = 0 /\ "Rekey" \in LineCids
    BY SMT DEF Params, ClientParams, LineCids
  <2>3. \A k \in 1 .. 0 : <<>>[k] \in DOMAIN ParamChoices
    BY SMT DEF ParamChoices
  <2>4. Len(<<>>) = 0
    BY SMT
  <2> SUFFICES LineEntry(d)
    OBVIOUS
  <2> HIDE DEF d
  <2>5. Len(d.params) = 0 /\ Len(d.params) \in Nat
    BY <2>1, <2>4
  <2>6. d.params = <<>>
    BY <2>1
  <2>7. \A k \in 1 .. Len(d.params) : d.params[k] \in DOMAIN ParamChoices
    BY <2>1, <2>3, <2>5
  <2>9. (d.params = <<>>) <=> (Len(d.params) = 0)
    BY <2>5, <2>6
  <2>8. d.cid \in LineCids /\ Len(Params(d.cid, TRUE)) = 0
    BY <2>0, <2>2
  <2> QED
    BY <2>5, <2>7, <2>8, <2>9, Zenon DEF LineEntry
<1>11. LineEntry(gatewayCommands[10])
  <2> DEFINE d == gatewayCommands[10]
  <2>1. d.params = <<"LIMIT_EXP", "DELAY_EXP">>
    BY SMT DEF gatewayCommands, D
  <2>0. d.cid = "ADRParamSetup"
    BY SMT DEF gatewayCommands, D
  <2>2. Len(Params("ADRParamSetup", TRUE)) = 2 /\ "ADRParamSetup" \in LineCids
    BY SMT DEF Params, ClientParams, LineCids
  <2>3. \A k \in 1 .. 2 : <<"LIMIT_EXP", "DELAY_EXP">>[k] \in DOMAIN ParamChoices
    BY SMT DEF ParamChoices
  <2>4. Len(<<"LIMIT_EXP", "DELAY_EXP">>) = 2
    BY SMT
  <2> SUFFICES LineEntry(d)
    OBVIOUS
  <2> HIDE DEF d
  <2>5. Len(d.params) = 2 /\ Len(d.params) \in Nat
    BY <2>1, <2>4
  <2>6. d.params # <<>>
    BY <2>5
  <2>7. \A k \in 1 .. Len(d.params) : d.params[k] \in DOMAIN ParamChoices
    BY <2>1, <2>3, <2>5
  <2>9. (d.params = <<>>) <=> (Len(d.params) = 0)
    BY <2>5, <2>6
  <2>8. d.cid \in LineCids /\ Len(Params(d.cid, TRUE)) = 2
    BY <2>0, <2>2
  <2> QED
    BY <2>5, <2>7, <2>8, <2>9, Zenon DEF LineEntry
<1>12. LineEntry(gatewayCommands[11])
  <2> DEFINE d == gatewayCommands[11]
  <2>1. d.params = <<"REJOIN_PERIOD", "REJOIN_RETRIES", "REJOIN_TYPE">>
    BY SMT DEF gatewayCommands, D
  <2>0. d.cid = "ForceRejoin"
    BY SMT DEF gatewayCommands, D
  <2>2. Len(Params("ForceRejoin", TRUE)) = 3 /\ "ForceRejoin" \in LineCids
    BY SMT DEF Params, ClientParams, LineCids
  <2>3. \A k \in 1 .. 3 : <<"REJOIN_PERIOD", "REJOIN_RETRIES", "REJOIN_TYPE">>[k] \in DOMAIN ParamChoices
    BY SMT DEF ParamChoices
  <2>4. Len(<<"REJOIN_PERIOD", "REJOIN_RETRIES", "REJOIN_TYPE">>) = 3
    BY SMT
  <2> SUFFICES LineEntry(d)
    OBVIOUS
  <2> HIDE DEF d
  <2>5. Len(d.params) = 3 /\ Len(d.params) \in Nat
    BY <2>1, <2>4
  <2>6. d.params # <<>>
    BY <2>5
  <2>7. \A k \in 1 .. Len(d.params) : d.params[k] \in DOMAIN ParamChoices
    BY <2>1, <2>3, <2>5
  <2>9. (d.params = <<>>) <=> (Len(d.params) = 0)
    BY <2>5, <2>6
  <2>8. d.cid \in LineCids /\ Len(Params(d.cid, TRUE)) = 3
    BY <2>0, <2>2
  <2> QED
    BY <2>5, <2>7, <2>8, <2>9, Zenon DEF LineEntry
<1>13. LineEntry(gatewayCommands[12])
  <2> DEFINE d == gatewayCommands[12]
  <2>1. d.params = <<"MAXTIME", "MAXCOUNT">>
    BY SMT DEF gatewayCommands, D
  <2>0. d.cid = "RejoinParamSetup"
    BY SMT DEF gatewayCommands, D
  <2>2. Len(Params("RejoinParamSetup", TRUE)) = 2 /\ "RejoinParamSetup" \in LineCids
    BY SMT DEF Params, ClientParams, LineCids
  <2>3. \A k \in 1 .. 2 : <<"MAXTIME", "MAXCOUNT">>[k] \in DOMAIN ParamChoices
    BY SMT DEF ParamChoices
  <2>4. Len(<<"MAXTIME", "MAXCOUNT">>) = 2
    BY SMT
  <2> SUFFICES LineEntry(d)
    OBVIOUS
  <2> HIDE DEF d
  <2>5. Len(d.params) = 2 /\ Len(d.params) \in Nat
    BY <2>1, <2>4
  <2>6. d.params # <<>>
    BY <2>5
  <2>7. \A k \in 1 .. Len(d.params) : d.params[k] \in DOMAIN ParamChoices
    BY <2>1, <2>3, <2>5
  <2>9. (d.params = <<>>) <=> (Len(d.params) = 0)
    BY <2>5, <2>6
  <2>8. d.cid \in LineCids /\ Len(Params(d.cid, TRUE)) = 2
    BY <2>0, <2>2
  <2> QED
    BY <2>5, <2>7, <2>8, <2>9, Zenon DEF LineEntry
<1>14. LineEntry(gatewayCommands[13])
  <2> DEFINE d == gatewayCommands[13]
  <2>1. d.params = <<>>
    BY SMT DEF gatewayCommands, D
  <2>0. d.cid = "PingSlotInfo"
    BY SMT DEF gatewayCommands, D
  <2>2. Len(Params("PingSlotInfo", TRUE)) = 0 /\ "PingSlotInfo" \in LineCids
    BY SMT DEF Params, ClientParams, LineCids
  <2>3. \A k \in 1 .. 0 : <<>>[k] \in DOMAIN ParamChoices
    BY SMT DEF ParamChoices
  <2>4. Len(<<>>) = 0
    BY SMT
  <2> SUFFICES LineEntry(d)
    OBVIOUS
  <2> HIDE DEF d
  <2>5. Len(d.params) = 0 /\ Len(d.params) \in Nat
    BY <2>1, <2>4
  <2>6. d.params = <<>>
    BY <2>1
  <2>7. \A k \in 1 .. Len(d.params) : d.params[k] \in DOMAIN ParamChoices
    BY <2>1, <2>3, <2>5
  <2>9. (d.params = <<>>) <=> (Len(d.params) = 0)
    BY <2>5, <2>6
  <2>8. d.cid \in LineCids /\ Len(Params(d.cid, TRUE)) = 0
    BY <2>0, <2>2
  <2> QED
    BY <2>5, <2>7, <2>8, <2>9, Zenon DEF LineEntry
<1>15. LineEntry(gatewayCommands[14])
  <2> DEFINE d == gatewayCommands[14]
  <2>1. d.params = <<"FREQUENCY", "DATARATE">>
    BY SMT DEF gatewayCommands, D
  <2>0. d.cid = "PingSlotChannel"
    BY SMT DEF gatewayCommands, D
  <2>2. Len(Params("PingSlotChannel", TRUE)) = 2 /\ "PingSlotChannel" \in LineCids
    BY SMT DEF Params, ClientParams, LineCids
  <2>3. \A k \in 1 .. 2 : <<"FREQUENCY", "DATARATE">>[k] \in DOMAIN ParamChoices
    BY SMT DEF ParamChoices
  <2>4. Len(<<"FREQUENCY", "DATARATE">>) = 2
    BY SMT
  <2> SUFFICES LineEntry(d)
    OBVIOUS
  <2> HIDE DEF d
  <2>5. Len(d.params) = 2 /\ Len(d.params) \in Nat
    BY <2>1, <2>4
  <2>6. d.params # <<>>
    BY <2>5
  <2>7. \A k \in 1 .. Len(d.params) : d.params[k] \in DOMAIN ParamChoices
    BY <2>1, <2>3, <2>5
  <2>9. (d.params = <<>>) <=> (Len(d.params) = 0)
    BY <2>5, <2>6
  <2>8. d.cid \in LineCids /\ Len(Params(d.cid, TRUE)) = 2
    BY <2>0, <2>2
  <2> QED
    BY <2>5, <2>7, <2>8, <2>9, Zenon DEF LineEntry
<1>16. LineEntry(gatewayCommands[15])
  <2> DEFINE d == gatewayCommands[15]
  <2>1. d.params = <<"FREQUENCY">>
    BY SMT DEF gatewayCommands, D
  <2>0. d.cid = "BeaconFreq"
    BY SMT DEF gatewayCommands, D
  <2>2. Len(Params("BeaconFreq", TRUE)) = 1 /\ "BeaconFreq" \in LineCids
    BY SMT DEF Params, ClientParams, LineCids
  <2>3. \A k \in 1 .. 1 : <<"FREQUENCY">>[k] \in DOMAIN ParamChoices
    BY SMT DEF ParamChoices
  <2>4. Len(<<"FREQUENCY">>) = 1
    BY SMT
  <2> SUFFICES LineEntry(d)
    OBVIOUS
  <2> HIDE DEF d
  <2>5. Len(d.params) = 1 /\ Len(d.params) \in Nat
    BY <2>1, <2>4
  <2>6. d.params # <<>>
    BY <2>5
  <2>7. \A k \in 1 .. Len(d.params) : d.params[k] \in DOMAIN ParamChoices
    BY <2>1, <2>3, <2>5
  <2>9. (d.params = <<>>) <=> (Len(d.params) = 0)
    BY <2>5, <2>6
  <2>8. d.cid \in LineCids /\ Len(Params(d.cid, TRUE)) = 1
    BY <2>0, <2>2
  <2> QED
    BY <2>5, <2>7, <2>8, <2>9, Zenon DEF LineEntry
<1> DEFINE Q(i) == LineEntry(gatewayCommands[i])
<1>17. Q(1) /\ Q(2) /\ Q(3) /\ Q(4) /\ Q(5) /\ Q(6) /\ Q(7) /\ Q(8) /\ Q(9) /\ Q(10) /\ Q(11) /\ Q(12) /\ Q(13) /\ Q(14) /\ Q(15)
  BY <1>2, <1>3, <1>4, <1>5, <1>6, <1>7, <1>8, <1>9, <1>10, <1>11, <1>12, <1>13, <1>14, <1>15, <1>16
<1> HIDE DEF Q
<1>18. \A i \in 1 .. 15 : Q(i)
  BY <1>17
<1> QED
  BY <1>1, <1>18 DEF Q

\* The values of the aliases are numbers.
NumberChoices(s) == \A k \in DOMAIN s : s[k].min \in Int

LEMMA ChoiceValues == \A p \in DOMAIN ParamChoices : NumberChoices(ParamChoices[p])
<1>1. NumberChoices(ParamChoices["TXPOWER"])
  <2> DEFINE a == C(0, 7, Unnamed)
             b == C(15, 15, "asis")
  <2>1. ParamChoices["TXPOWER"] = <<a, b>>
    BY SMT DEF ParamChoices, DataRate, Exponent
  <2>2. a.min \in Int /\ b.min \in Int
    BY SMT DEF C
  <2> HIDE DEF a, b
  <2> QED
    BY <2>1, <2>2 DEF NumberChoices
<1>2. NumberChoices(ParamChoices["DATARATE"])
  <2> DEFINE a == C(0, 7, Unnamed)
             b == C(15, 15, "asis")
  <2>1. ParamChoices["DATARATE"] = <<a, b>>
    BY SMT DEF ParamChoices, DataRate, Exponent
  <2>2. a.min \in Int /\ b.min \in Int
    BY SMT DEF C
  <2> HIDE DEF a, b
  <2> QED
    BY <2>1, <2>2 DEF NumberChoices
<1>3. NumberChoices(ParamChoices["CHMASK"])
  <2> DEFINE a == C(1, 255, Unnamed)
  <2>1. ParamChoices["CHMASK"] = <<a>>
    BY SMT DEF ParamChoices, DataRate, Exponent
  <2>2. a.min \in Int
    BY SMT DEF C
  <2> HIDE DEF a
  <2> QED
    BY <2>1, <2>2 DEF NumberChoices
<1>4. NumberChoices(ParamChoices["NBTRANS"])
  <2> DEFINE a == C(1, 15, Unnamed)
  <2>1. ParamChoices["NBTRANS"] = <<a>>
    BY SMT DEF ParamChoices, DataRate, Exponent
  <2>2. a.min \in Int
    BY SMT DEF C
  <2> HIDE DEF a
  <2> QED
    BY <2>1, <2>2 DEF NumberChoices
<1>5. NumberChoices(ParamChoices["CHMASKCTL"])
  <2> DEFINE a == C(0, 7, Unnamed)
  <2>1. ParamChoices["CHMASKCTL"] = <<a>>
    BY SMT DEF ParamChoices, DataRate, Exponent
  <2>2. a.min \in Int
    BY SMT DEF C
  <2> HIDE DEF a
  <2> QED
    BY <2>1, <2>2 DEF NumberChoices
<1>6. NumberChoices(ParamChoices["DUTY_CYCLE_LIMIT"])
  <2> DEFINE a == C(0, 15, Unnamed)
  <2>1. ParamChoices["DUTY_CYCLE_LIMIT"] = <<a>>
    BY SMT DEF ParamChoices, DataRate, Exponent
  <2>2. a.min \in Int
    BY SMT DEF C
  <2> HIDE DEF a
  <2> QED
    BY <2>1, <2>2 DEF NumberChoices
<1>7. NumberChoices(ParamChoices["FREQUENCY"])
  <2> DEFINE a == C(0, 9999999, HundredHz)
  <2>1. ParamChoices["FREQUENCY"] = <<a>>
    BY SMT DEF ParamChoices, DataRate, Exponent
  <2>2. a.min \in Int
    BY SMT DEF C
  <2> HIDE DEF a
  <2> QED
    BY <2>1, <2>2 DEF NumberChoices
<1>8. NumberChoices(ParamChoices["RX1_DR_OFFSET"])
  <2> DEFINE a == C(0, 7, "s")
  <2>1. ParamChoices["RX1_DR_OFFSET"] = <<a>>
    BY SMT DEF ParamChoices, DataRate, Exponent
  <2>2. a.min \in Int
    BY SMT DEF C
  <2> HIDE DEF a
  <2> QED
    BY <2>1, <2>2 DEF NumberChoices
<1>9. NumberChoices(ParamChoices["CHANNEL_INDEX"])
  <2> DEFINE a == C(0, 15, Unnamed)
  <2>1. ParamChoices["CHANNEL_INDEX"] = <<a>>
    BY SMT DEF ParamChoices, DataRate, Exponent
  <2>2. a.min \in Int
    BY SMT DEF C
  <2> HIDE DEF a
  <2> QED
    BY <2>1, <2>2 DEF NumberChoices
<1>10. NumberChoices(ParamChoices["MIN_DR"])
  <2> DEFINE a == C(0, 7, Unnamed)
  <2>1. ParamChoices["MIN_DR"] = <<a>>
    BY SMT DEF ParamChoices, DataRate, Exponent
  <2>2. a.min \in Int
    BY SMT DEF C
  <2> HIDE DEF a
  <2> QED
    BY <2>1, <2>2 DEF NumberChoices
<1>11. NumberChoices(ParamChoices["MAX_DR"])
  <2> DEFINE a == C(0, 7, Unnamed)
  <2>1. ParamChoices["MAX_DR"] = <<a>>
    BY SMT DEF ParamChoices, DataRate, Exponent
  <2>2. a.min \in Int
    BY SMT DEF C
  <2> HIDE DEF a
  <2> QED
    BY <2>1, <2>2 DEF NumberChoices
<1>12. NumberChoices(ParamChoices["RXTIMING"])
  <2> DEFINE a == C(0, 15, PlusSecond)
  <2>1. ParamChoices["RXTIMING"] = <<a>>
    BY SMT DEF ParamChoices, DataRate, Exponent
  <2>2. a.min \in Int
    BY SMT DEF C
  <2> HIDE DEF a
  <2> QED
    BY <2>1, <2>2 DEF NumberChoices
<1>13. NumberChoices(ParamChoices["DWELLTIME"])
  <2> DEFINE a == C(0, 0, "no-limit")
             b == C(1, 1, "400")
  <2>1. ParamChoices["DWELLTIME"] = <<a, b>>
    BY SMT DEF ParamChoices, DataRate, Exponent
  <2>2. a.min \in Int /\ b.min \in Int
    BY SMT DEF C
  <2> HIDE DEF a, b
  <2> QED
    BY <2>1, <2>2 DEF NumberChoices
<1>14. NumberChoices(ParamChoices["MAXEIRP"])
  <2> DEFINE a == C(0, 15, Unnamed)
  <2>1. ParamChoices["MAXEIRP"] = <<a>>
    BY SMT DEF ParamChoices, DataRate, Exponent
  <2>2. a.min \in Int
    BY SMT DEF C
  <2> HIDE DEF a
  <2> QED
    BY <2>1, <2>2 DEF NumberChoices
<1>15. NumberChoices(ParamChoices["LIMIT_EXP"])
  <2> DEFINE a == C(0, 15, Unnamed)
  <2>1. ParamChoices["LIMIT_EXP"] = <<a>>
    BY SMT DEF ParamChoices, DataRate, Exponent
  <2>2. a.min \in Int
    BY SMT DEF C
  <2> HIDE DEF a
  <2> QED
    BY <2>1, <2>2 DEF NumberChoices
<1>16. NumberChoices(ParamChoices["DELAY_EXP"])
  <2> DEFINE a == C(0, 15, Unnamed)
  <2>1. ParamChoices["DELAY_EXP"] = <<a>>
    BY SMT DEF ParamChoices, DataRate, Exponent
  <2>2. a.min \in Int
    BY SMT DEF C
  <2> HIDE DEF a
  <2> QED
    BY <2>1, <2>2 DEF NumberChoices
<1>17. NumberChoices(ParamChoices["REJOIN_PERIOD"])
  <2> DEFINE a == C(0, 7, Unnamed)
  <2>1. ParamChoices["REJOIN_PERIOD"] = <<a>>
    BY SMT DEF ParamChoices, DataRate, Exponent
  <2>2. a.min \in Int
    BY SMT DEF C
  <2> HIDE DEF a
  <2> QED
    BY <2>1, <2>2 DEF NumberChoices
<1>18. NumberChoices(ParamChoices["REJOIN_RETRIES"])
  <2> DEFINE a == C(0, 7, Unnamed)
  <2>1. ParamChoices["REJOIN_RETRIES"] = <<a>>
    BY SMT DEF ParamChoices, DataRate, Exponent
  <2>2. a.min \in Int
    BY SMT DEF C
  <2> HIDE DEF a
  <2> QED
    BY <2>1, <2>2 DEF NumberChoices
<1>19. NumberChoices(ParamChoices["REJOIN_TYPE"])
  <2> DEFINE a == C(0, 0, "0")
             b == C(2, 2, "2")
  <2>1. ParamChoices["REJOIN_TYPE"] = <<a, b>>
    BY SMT DEF ParamChoices, DataRate, Exponent
  <2>2. a.min \in Int /\ b.min \in Int
    BY SMT DEF C
  <2> HIDE DEF a, b
  <2> QED
    BY <2>1, <2>2 DEF NumberChoices
<1>20. NumberChoices(ParamChoices["MAXTIME"])
  <2> DEFINE a == C(0, 15, Unnamed)
  <2>1. ParamChoices["MAXTIME"] = <<a>>
    BY SMT DEF ParamChoices, DataRate, Exponent
  <2>2. a.min \in Int
    BY SMT DEF C
  <2> HIDE DEF a
  <2> QED
    BY <2>1, <2>2 DEF NumberChoices
<1>21. NumberChoices(ParamChoices["MAXCOUNT"])
  <2> DEFINE a == C(0, 15, Unnamed)
  <2>1. ParamChoices["MAXCOUNT"] = <<a>>
    BY SMT DEF ParamChoices, DataRate, Exponent
  <2>2. a.min \in Int
    BY SMT DEF C
  <2> HIDE DEF a
  <2> QED
    BY <2>1, <2>2 DEF NumberChoices
<1> DEFINE Q(p) == NumberChoices(ParamChoices[p])
<1>22. DOMAIN ParamChoices = {"TXPOWER", "DATARATE", "CHMASK", "NBTRANS", "CHMASKCTL", "DUTY_CYCLE_LIMIT", "FREQUENCY", "RX1_DR_OFFSET", "CHANNEL_INDEX", "MIN_DR", "MAX_DR", "RXTIMING", "DWELLTIME", "MAXEIRP", "LIMIT_EXP", "DELAY_EXP", "REJOIN_PERIOD", "REJOIN_RETRIES", "REJOIN_TYPE", "MAXTIME", "MAXCOUNT"}
  BY DEF ParamChoices
<1>23. Q("TXPOWER") /\ Q("DATARATE") /\ Q("CHMASK") /\ Q("NBTRANS") /\ Q("CHMASKCTL") /\ Q("DUTY_CYCLE_LIMIT") /\ Q("FREQUENCY") /\ Q("RX1_DR_OFFSET") /\ Q("CHANNEL_INDEX") /\ Q("MIN_DR") /\ Q("MAX_DR") /\ Q("RXTIMING") /\ Q("DWELLTIME") /\ Q("MAXEIRP") /\ Q("LIMIT_EXP") /\ Q("DELAY_EXP") /\ Q("REJOIN_PERIOD") /\ Q("REJOIN_RETRIES") /\ Q("REJOIN_TYPE") /\ Q("MAXTIME") /\ Q("MAXCOUNT")
  BY <1>1, <1>2, <1>3, <1>4, <1>5, <1>6, <1>7, <1>8, <1>9, <1>10, <1>11, <1>12, <1>13, <1>14, <1>15, <1>16, <1>17, <1>18, <1>19, <1>20, <1>21
<1> HIDE DEF Q
<1>24. \A p \in DOMAIN ParamChoices : Q(p)
  BY <1>22, <1>23
<1> QED
  BY <1>24 DEF Q

LEMMA CommandIndexType ==
  ASSUME NEW w
  PROVE  commandIndex(w) \in 0 .. Len(gatewayCommands)
<1> DEFINE hits == {i \in DOMAIN gatewayCommands :
                      w \in {gatewayCommands[i].short, gatewayCommands[i].full}}
           first == CHOOSE i \in hits : \A k \in hits : i <= k
<1>1. commandIndex(w) = IF hits = {} THEN 0 ELSE first
  BY Zenon DEF commandIndex
<1>2. Len(gatewayCommands) = 15 /\ DOMAIN gatewayCommands = 1 .. 15
  <2>1. DOMAIN gatewayCommands = 1 .. Len(gatewayCommands)
    BY SMT DEF gatewayCommands
  <2> QED
    BY <2>1, TableEntries
<1>3. hits \subseteq Nat /\ hits \subseteq 1 .. 15
  BY <1>2
<1> HIDE DEF hits
<1>4. CASE hits # {}
  <2>1. \E i \in hits : \A k \in hits : i <= k
    BY <1>3, <1>4, LeastNat
  <2>2. first \in hits
    BY <2>1
  <2> HIDE DEF first
  <2> QED
    BY <1>1, <1>2, <1>3, <1>4, <2>2
<1> QED
  BY <1>1, <1>2, <1>4

LEMMA ParamValueType ==
  ASSUME NEW t \in Tokens, NEW p \in DOMAIN ParamChoices
  PROVE  paramValue(t, ParamChoices[p]) \in Int
<1> DEFINE choices == ParamChoices[p]
           hits == {c \in DOMAIN choices : choices[c].name = t.word}
           one == CHOOSE c \in hits : TRUE
<1>1. NumberChoices(choices)
  BY ChoiceValues
<1> HIDE DEF choices
<1>2. t.num \in Int
  <2>1. CASE t \in [word : Words, num : {0}]
    BY <2>1
  <2>2. CASE t \in [word : {Unnamed}, num : Numbers]
    <3>1. t.num \in Numbers
      BY <2>2
    <3> QED
      BY <3>1, MacAssumption
  <2> QED
    BY <2>1, <2>2 DEF Tokens
<1>3. paramValNum(t.num, choices) \in Int
  BY <1>2 DEF paramValNum
<1>4. paramValAlias(t.word, choices) \in Int
  <2>1. paramValAlias(t.word, choices) = IF hits = {} THEN 0 ELSE choices[one].min
    BY Zenon DEF paramValAlias
  <2>2. CASE hits # {}
    <3>1. one \in hits
      BY <2>2
    <3>2. one \in DOMAIN choices
      BY <3>1
    <3> HIDE DEF one, hits
    <3> QED
      BY <1>1, <2>1, <2>2, <3>2 DEF NumberChoices
  <2> HIDE DEF hits, one
  <2> QED
    BY <2>1, <2>2
<1> QED
  BY <1>3, <1>4 DEF paramValue, choices

\* What MacPtr counts of a list that grows by a command.
LEMMA CountAppend ==
  ASSUME NEW list \in Seq(Entries), NEW e \in Entries
  PROVE  /\ CountOf(list) \in Nat
         /\ CountOf(Append(list, e)) = CountOf(list) + commandSize(e.cid, FALSE)
<1> DEFINE S == Entries
           W(m) == commandSize(m.cid, FALSE)
           g == [m \in S |-> W(m)]
<1>1. ASSUME NEW m \in S PROVE W(m) \in Nat
  BY SizeType DEF Entries
<1> HIDE DEF S, W
<1>2. g \in [S -> Nat] /\ g \in [S -> Int] /\ \A m \in S : g[m] = W(m)
  BY <1>1
<1> HIDE DEF g
<1>3. ASSUME NEW l \in Seq(S) PROVE CountOf(l) = Weigh(l, g) /\ CountOf(l) \in Nat
  <2>1. \A i \in 1 .. Len(l) : l[i] \in S
    OBVIOUS
  <2>2. \A i \in 1 .. Len(l) : W(l[i]) = g[l[i]] /\ g[l[i]] \in Nat
    BY <1>2, <2>1
  <2> DEFINE a == [i \in 1 .. Len(l) |-> W(l[i])]
             b == [i \in 1 .. Len(l) |-> g[l[i]]]
  <2>3. a = b
    BY <2>2
  <2>4. b \in Seq(Nat)
    BY <2>2
  <2> HIDE DEF a, b
  <2>5. Total(a) = Total(b) /\ Total(a) \in Nat
    BY <2>3, <2>4, TotalType
  <2> QED
    BY <2>5 DEF a, b, CountOf, Weigh, W
<1>4. Append(list, e) \in Seq(S) /\ list \in Seq(S) /\ e \in S
  BY AppendProperties DEF S
<1>5. Weigh(Append(list, e), g) = Weigh(list, g) + g[e]
  BY <1>2, <1>4, WeighAppend
<1>6. CountOf(Append(list, e)) = CountOf(list) + W(e)
  BY <1>2, <1>3, <1>4, <1>5
<1> QED
  BY <1>3, <1>4, <1>6 DEF W

\* What is answered to it.
LEMMA AnswerAppend ==
  ASSUME NEW list \in Seq(Entries), NEW e \in Entries
  PROVE  /\ AnswerOf(list) \in Nat /\ AnswerSize(e.cid) \in Nat
         /\ AnswerOf(Append(list, e)) = AnswerOf(list) + AnswerSize(e.cid)
<1> DEFINE S == Entries
           W(m) == AnswerSize(m.cid)
           g == [m \in S |-> W(m)]
<1>0. commandSize("LinkCheck", TRUE) \in Nat
  BY SizeType DEF Cids, Code
<1>1. ASSUME NEW m \in S PROVE W(m) \in Nat
  BY <1>0 DEF AnswerSize
<1> HIDE DEF S, W
<1>2. g \in [S -> Nat] /\ g \in [S -> Int] /\ \A m \in S : g[m] = W(m)
  BY <1>1
<1> HIDE DEF g
<1>3. ASSUME NEW l \in Seq(S) PROVE AnswerOf(l) = Weigh(l, g) /\ AnswerOf(l) \in Nat
  <2>1. \A i \in 1 .. Len(l) : l[i] \in S
    OBVIOUS
  <2>2. \A i \in 1 .. Len(l) : W(l[i]) = g[l[i]] /\ g[l[i]] \in Nat
    BY <1>2, <2>1
  <2> DEFINE a == [i \in 1 .. Len(l) |-> W(l[i])]
             b == [i \in 1 .. Len(l) |-> g[l[i]]]
  <2>3. a = b
    BY <2>2
  <2>4. b \in Seq(Nat)
    BY <2>2
  <2> HIDE DEF a, b
  <2>5. Total(a) = Total(b) /\ Total(a) \in Nat
    BY <2>3, <2>4, TotalType
  <2> QED
    BY <2>5 DEF a, b, AnswerOf, Weigh, W
<1>4. Append(list, e) \in Seq(S) /\ list \in Seq(S) /\ e \in S
  BY AppendProperties DEF S
<1>5. Weigh(Append(list, e), g) = Weigh(list, g) + g[e]
  BY <1>2, <1>4, WeighAppend
<1>6. AnswerOf(Append(list, e)) = AnswerOf(list) + W(e)
  BY <1>2, <1>3, <1>4, <1>5
<1> QED
  BY <1>1, <1>3, <1>4, <1>6 DEF W

LEMMA WordsAppend ==
  ASSUME NEW list \in Seq(LineCommands), NEW e \in LineCommands
  PROVE  /\ WordsOf(list) \in Nat
         /\ WordsOf(Append(list, e)) = WordsOf(list) + 1 + Len(Params(e.cid, TRUE))
<1> DEFINE S == LineCommands
           N(m) == Len(Params(m.cid, TRUE))
           W(m) == 1 + N(m)
           g == [m \in S |-> W(m)]
<1>1. ASSUME NEW m \in S PROVE W(m) \in Nat /\ N(m) \in Nat
  <2>1. m.cid \in LineCids
    BY LineComplete DEF Complete
  <2>2. N(m) \in Nat
    BY <2>1, ParamsAreSequences
  <2> HIDE DEF N
  <2> QED
    BY <2>2
<1> HIDE DEF S, W, N
<1>2. g \in [S -> Nat] /\ g \in [S -> Int] /\ \A m \in S : g[m] = W(m)
  BY <1>1
<1> HIDE DEF g
<1>3. ASSUME NEW l \in Seq(S) PROVE WordsOf(l) = Weigh(l, g) /\ WordsOf(l) \in Nat
  <2>1. \A i \in 1 .. Len(l) : l[i] \in S
    OBVIOUS
  <2>2. \A i \in 1 .. Len(l) : W(l[i]) = g[l[i]] /\ g[l[i]] \in Nat
    BY <1>2, <2>1
  <2> DEFINE a == [i \in 1 .. Len(l) |-> W(l[i])]
             b == [i \in 1 .. Len(l) |-> g[l[i]]]
  <2>3. a = b
    BY <2>2
  <2>4. b \in Seq(Nat)
    BY <2>2
  <2> HIDE DEF a, b
  <2>5. Total(a) = Total(b) /\ Total(a) \in Nat
    BY <2>3, <2>4, TotalType
  <2> QED
    BY <2>5 DEF a, b, WordsOf, Weigh, W, N
<1>4. Append(list, e) \in Seq(S) /\ list \in Seq(S) /\ e \in S
  BY AppendProperties DEF S
<1>5. Weigh(Append(list, e), g) = Weigh(list, g) + g[e]
  BY <1>2, <1>4, WeighAppend
<1>6. WordsOf(Append(list, e)) = WordsOf(list) + W(e)
  BY <1>2, <1>3, <1>4, <1>5
<1>7. WordsOf(list) \in Nat /\ N(e) \in Nat /\ W(e) = 1 + N(e)
  BY <1>1, <1>3, <1>4 DEF W
<1>8. WordsOf(Append(list, e)) = WordsOf(list) + 1 + N(e)
  BY <1>6, <1>7
<1> QED
  BY <1>7, <1>8 DEF N

LEMMA LineCommandMade ==
  ASSUME NEW c \in LineCids, NEW vals \in Seq(Nat)
  PROVE  set(c, vals, TRUE) \in LineCommands
<1> DEFINE G(d) == {set(d, v, TRUE) : v \in Seq(Nat)}
<1>1. set(c, vals, TRUE) \in G(c)
  BY Zenon
<1>2. G(c) \in {G(d) : d \in LineCids}
  BY Zenon
<1> QED
  BY <1>1, <1>2, Zenon DEF LineCommands

LEMMA WordsType ==
  ASSUME NEW list \in Seq(LineCommands)
  PROVE  WordsOf(list) \in Nat
<1>1. "DevStatus" \in LineCids /\ <<>> \in Seq(Nat)
  BY DEF LineCids
<1>2. set("DevStatus", <<>>, TRUE) \in LineCommands
  BY <1>1, LineCommandMade, Zenon
<1> QED
  BY <1>2, WordsAppend

LEMMA BytesLength ==
  ASSUME NEW list \in Seq(LineCommands)
  PROVE  Len(BytesOf(list)) = Upto(StringsOf(list), Len(list)) /\ Len(BytesOf(list)) \in Nat
<1> DEFINE ss == StringsOf(list)
<1>1. PICK Bs : ss \in Seq(Seq(Bs))
  BY StringsType
<1>2. Len(ss) = Len(list) /\ BytesOf(list) = FlattenSeq(ss)
  BY StringsType DEF BytesOf, StringsOf
<1> HIDE DEF ss
<1>3. FlattenSeq(ss) \in Seq(Bs) /\ Len(FlattenSeq(ss)) = Upto(ss, Len(ss))
  BY <1>1, FlattenJoins DEF Joined
<1> QED
  BY <1>2, <1>3 DEF ss

(***************************************************************************)
(* The invariant holds at the start, and every step keeps it.              *)
(***************************************************************************)
LEMMA NothingCounted ==
  WordsOf(<<>>) = 0 /\ CountOf(<<>>) = 0 /\ AnswerOf(<<>>) = 0
<1>1. /\ [i \in 1 .. Len(<<>>) |-> 1 + Len(Params(<<>>[i].cid, TRUE))] = <<>>
      /\ [i \in 1 .. Len(<<>>) |-> commandSize(<<>>[i].cid, FALSE)] = <<>>
      /\ [i \in 1 .. Len(<<>>) |-> AnswerSize(<<>>[i].cid)] = <<>>
  OBVIOUS
<1> QED
  BY <1>1, TotalEmpty DEF WordsOf, CountOf, AnswerOf

LEMMA MacInvInit == MacInit => MacInv
<1> SUFFICES ASSUME MacInit PROVE MacInv
  OBVIOUS
<1>1. /\ macStage = "line" /\ gwCount = 0 /\ gwCmd = 0 /\ gwVals = <<>>
      /\ gwList = <<>> /\ gwErr = 0 /\ ptrPos = 1 /\ ptrLeft = 0 /\ ptrList = <<>> /\ ptrErr = 0
  BY DEF MacInit
<1>3. LineInv
  <2>1. 0 \in 0 .. Len(gatewayCommands)
    BY TableEntries
  <2>2. <<>> \in Seq(Nat) /\ <<>> \in Seq(LineCommands)
    OBVIOUS
  <2>3. gwErr = 0 => gwCount = (IF gwCmd = 0 THEN 0 ELSE 1 + Len(gwVals)) + WordsOf(gwList)
    BY <1>1, NothingCounted
  <2> QED
    BY <1>1, <2>1, <2>2, <2>3, Zenon DEF LineInv
<1>4. FormInv
  BY <1>1 DEF FormInv, ReadStages
<1>5. CountInv
  BY <1>1 DEF CountInv, ReadStages
<1>6. AnswerInv
  BY <1>1, NothingCounted DEF AnswerInv, ReadStages
<1> QED
  BY <1>3, <1>4, <1>5, <1>6 DEF MacInv

\* A command word.
LEMMA CommandWordKeeps ==
  ASSUME LineInv, NEW t \in Tokens, CommandWord(t), gwErr = 0, gwCount' = gwCount + 1
  PROVE  LineInv'
<1> DEFINE i == commandIndex(t.word)
           d == gatewayCommands[i]
<1>1. gwCmd = 0 /\ gwVals = <<>> /\ gwList \in Seq(LineCommands)
  BY DEF CommandWord, LineInv
<1>2. gwCount = WordsOf(gwList) /\ WordsOf(gwList) \in Nat
  <2>1. gwCount = (IF gwCmd = 0 THEN 0 ELSE 1 + Len(gwVals)) + WordsOf(gwList)
    BY DEF LineInv
  <2>2. WordsOf(gwList) \in Nat
    BY <1>1, WordsType
  <2> QED
    BY <1>1, <2>1, <2>2
<1>3. i \in 0 .. 15 /\ Len(gatewayCommands) = 15
  BY CommandIndexType, TableEntries
<1> HIDE DEF i
<1>4. CASE i = 0
  <2>1. gwErr' = -543 /\ gwCmd' = gwCmd /\ gwVals' = gwVals /\ gwList' = gwList
    BY <1>4 DEF CommandWord, Invalid, i
  <2> QED
    BY <2>1, <1>1, <1>3 DEF LineInv
<1>5. CASE i # 0
  <2>1. LineEntry(d)
    BY <1>3, <1>5, TableEntries
  <2>2. d.cid \in LineCids /\ Len(d.params) \in Nat
    BY <2>1 DEF LineEntry
  <2>3. Len(Params(d.cid, TRUE)) = Len(d.params) /\ (d.params = <<>> <=> Len(d.params) = 0)
    BY <2>1 DEF LineEntry
  <2>4. /\ gwVals' = <<>> /\ gwErr' = gwErr
        /\ d.params = <<>> => gwList' = Append(gwList, set(d.cid, <<>>, TRUE)) /\ gwCmd' = gwCmd
        /\ d.params # <<>> => gwCmd' = i /\ gwList' = gwList
    BY <1>5, Zenon DEF CommandWord, i
  <2> HIDE DEF d
  <2>5. CASE d.params = <<>>
    <3> DEFINE e == set(d.cid, <<>>, TRUE)
    <3>0. <<>> \in Seq(Nat)
      OBVIOUS
    <3>1. e \in LineCommands
      BY <2>2, <3>0, LineCommandMade, Zenon
    <3>2. e.cid = d.cid
      BY <2>2, <3>0, SetCompletes, Zenon
    <3>3. gwList' = Append(gwList, e) /\ gwCmd' = 0
      BY <1>1, <2>4, <2>5
    <3> HIDE DEF e
    <3>4. gwList' \in Seq(LineCommands)
      BY <1>1, <3>1, <3>3, AppendProperties
    <3>5. WordsOf(gwList') = WordsOf(gwList) + 1 + Len(Params(e.cid, TRUE))
      BY <1>1, <3>1, <3>3, WordsAppend
    <3>6. Len(Params(e.cid, TRUE)) = 0
      BY <2>3, <2>5, <3>2
    <3>7. WordsOf(gwList') = WordsOf(gwList) + 1
      <4> DEFINE n == Len(Params(e.cid, TRUE))
      <4>1. WordsOf(gwList') = WordsOf(gwList) + 1 + n /\ n = 0
        BY <3>5, <3>6
      <4> HIDE DEF n
      <4> QED
        BY <1>2, <4>1
    <3>8. gwCount' = WordsOf(gwList') /\ WordsOf(gwList') \in Nat
      BY <1>2, <3>7
    <3>9. gwCount' = (IF gwCmd' = 0 THEN 0 ELSE 1 + Len(gwVals')) + WordsOf(gwList')
      BY <3>3, <3>8
    <3> QED
      BY <1>3, <2>4, <3>3, <3>4, <3>9 DEF LineInv
  <2>6. CASE d.params # <<>>
    <3>1. gwCmd' = i /\ gwList' = gwList /\ gwVals' = <<>>
      BY <2>4, <2>6
    <3>2. Len(gwVals') < Len(gatewayCommands[gwCmd'].params)
      BY <2>2, <2>3, <2>6, <3>1 DEF d
    <3>3. gwCount' = (IF gwCmd' = 0 THEN 0 ELSE 1 + Len(gwVals')) + WordsOf(gwList')
      BY <1>2, <1>5, <3>1
    <3> QED
      BY <1>1, <1>3, <1>5, <2>4, <3>1, <3>2, <3>3 DEF LineInv
  <2> QED
    BY <2>5, <2>6
<1> QED
  BY <1>4, <1>5

\* A parameter.
LEMMA ParameterWordKeeps ==
  ASSUME LineInv, NEW t \in Tokens, ParameterWord(t), gwErr = 0, gwCount' = gwCount + 1
  PROVE  LineInv'
<1> DEFINE c == gatewayCommands[gwCmd]
           v == paramValue(t, ParamChoices[c.params[Len(gwVals) + 1]])
           vals == Append(gwVals, v)
<1>1. /\ gwCmd # 0 /\ gwCmd \in 1 .. 15 /\ Len(gatewayCommands) = 15
      /\ gwVals \in Seq(Nat) /\ gwList \in Seq(LineCommands) /\ Len(gwVals) < Len(c.params)
  BY TableEntries DEF ParameterWord, LineInv
<1>2. gwCount = 1 + Len(gwVals) + WordsOf(gwList) /\ WordsOf(gwList) \in Nat /\ Len(gwVals) \in Nat
  <2>1. gwCount = (IF gwCmd = 0 THEN 0 ELSE 1 + Len(gwVals)) + WordsOf(gwList)
    BY DEF LineInv
  <2>2. WordsOf(gwList) \in Nat
    BY <1>1, WordsType
  <2> QED
    BY <1>1, <2>1, <2>2
<1>3. LineEntry(c)
  BY <1>1, TableEntries
<1>4. c.cid \in LineCids /\ Len(c.params) \in Nat /\ Len(Params(c.cid, TRUE)) = Len(c.params)
  BY <1>3 DEF LineEntry
<1>5. v \in Int
  <2>1. Len(gwVals) + 1 \in 1 .. Len(c.params)
    BY <1>1, <1>2, <1>4
  <2>2. c.params[Len(gwVals) + 1] \in DOMAIN ParamChoices
    BY <1>3, <2>1 DEF LineEntry
  <2> QED
    BY <2>2, ParamValueType
<1>6. /\ v < 0 => gwErr' = -545 /\ gwCmd' = gwCmd /\ gwVals' = gwVals /\ gwList' = gwList
      /\ ~(v < 0) => gwErr' = gwErr
      /\ ~(v < 0) /\ Len(vals) >= Len(c.params) =>
           gwList' = Append(gwList, set(c.cid, vals, TRUE)) /\ gwCmd' = 0 /\ gwVals' = <<>>
      /\ ~(v < 0) /\ ~(Len(vals) >= Len(c.params)) =>
           gwVals' = vals /\ gwCmd' = gwCmd /\ gwList' = gwList
  BY Zenon DEF ParameterWord
<1> HIDE DEF v
<1>7. CASE v < 0
  <2>1. gwErr' = -545 /\ gwCmd' = gwCmd /\ gwVals' = gwVals /\ gwList' = gwList
    BY <1>6, <1>7
  <2> QED
    BY <2>1 DEF LineInv
<1>8. CASE ~(v < 0)
  <2>1. v \in Nat
    BY <1>5, <1>8
  <2>2. vals \in Seq(Nat) /\ Len(vals) = Len(gwVals) + 1
    BY <1>1, <2>1, AppendProperties
  <2> HIDE DEF vals
  <2>3. CASE Len(vals) >= Len(c.params)
    <3> DEFINE e == set(c.cid, vals, TRUE)
    <3>1. e \in LineCommands
      BY <1>4, <2>2, LineCommandMade
    <3>2. e.cid = c.cid
      BY <1>4, <2>2, SetCompletes
    <3>3. gwList' = Append(gwList, e) /\ gwCmd' = 0 /\ gwVals' = <<>> /\ gwErr' = 0
      BY <1>6, <1>8, <2>3
    <3> HIDE DEF e
    <3>4. gwList' \in Seq(LineCommands)
      BY <1>1, <3>1, <3>3, AppendProperties
    <3>5. WordsOf(gwList') = WordsOf(gwList) + 1 + Len(Params(e.cid, TRUE))
      BY <1>1, <3>1, <3>3, WordsAppend
    <3>6. Len(Params(e.cid, TRUE)) = Len(c.params) /\ Len(c.params) = Len(gwVals) + 1
      <4>1. Len(c.params) = Len(gwVals) + 1
        <5> HIDE DEF c
        <5> QED
          BY <1>1, <1>2, <1>4, <2>2, <2>3
      <4> QED
        BY <1>4, <3>2, <4>1
    <3>7. WordsOf(gwList') = WordsOf(gwList) + 1 + (Len(gwVals) + 1)
      BY <3>5, <3>6
    <3>8. gwCount' = WordsOf(gwList') /\ WordsOf(gwList') \in Nat
      BY <1>2, <3>7
    <3>9. gwCount' = (IF gwCmd' = 0 THEN 0 ELSE 1 + Len(gwVals')) + WordsOf(gwList')
      BY <3>3, <3>8
    <3>10. 0 \in 0 .. Len(gatewayCommands) /\ <<>> \in Seq(Nat)
      BY <1>1
    <3> QED
      BY <3>3, <3>4, <3>9, <3>10, Zenon DEF LineInv
  <2>4. CASE ~(Len(vals) >= Len(c.params))
    <3>1. gwVals' = vals /\ gwCmd' = gwCmd /\ gwList' = gwList /\ gwErr' = gwErr
      BY <1>6, <1>8, <2>4
    <3>2. Len(vals) < Len(c.params)
      <4> HIDE DEF c
      <4> QED
        BY <1>2, <1>4, <2>2, <2>4
    <3>3. gwCount' = 1 + Len(gwVals') + WordsOf(gwList')
      BY <1>2, <2>2, <3>1
    <3>4. gwCount' = (IF gwCmd' = 0 THEN 0 ELSE 1 + Len(gwVals')) + WordsOf(gwList')
      BY <1>1, <3>1, <3>3, Zenon
    <3>5. gwCmd \in 0 .. Len(gatewayCommands)
      BY <1>1
    <3> QED
      BY <1>1, <2>2, <3>1, <3>2, <3>4, <3>5, Zenon DEF LineInv
  <2> QED
    BY <2>3, <2>4
<1> QED
  BY <1>7, <1>8

\* The parser: a command that is known and complete, or an error.
ParsedAs(r, b, sz, client) ==
  \/ /\ r = commandSize(CidOf(b), client) /\ r \in Nat /\ r <= sz
     /\ CidOf(b) \in Cids /\ Code[CidOf(b)] = b
  \/ /\ r < 0
     /\ \/ sz < 1
        \/ \A c \in Cids : Code[c] # b
        \/ CidOf(b) \in Cids /\ sz < commandSize(CidOf(b), client)

LEMMA Parsed ==
  ASSUME NEW b, NEW sz \in Int, NEW client
  PROVE  ParsedAs(parseSide(b, sz, client), b, sz, client)
<1> DEFINE r == parseSide(b, sz, client)
           size == commandSize(CidOf(b), client)
           known == \E c \in Cids : Code[c] = b
<1>1. ASSUME known PROVE CidOf(b) \in Cids /\ Code[CidOf(b)] = b /\ size \in Nat
  <2>1. PICK c \in Cids : Code[c] = b
    BY <1>1
  <2>2. CidOf(b) = c
    BY <2>1, CidOfCode
  <2> QED
    BY <2>1, <2>2, SizeType
<1>2. /\ sz < 1 => r = -542
      /\ ~(sz < 1) /\ ~known => r = -543
      /\ ~(sz < 1) /\ known /\ sz < size => r = -542
      /\ ~(sz < 1) /\ known /\ ~(sz < size) => r = size
  BY DEF parseSide, TooShort, Invalid
<1> SUFFICES ParsedAs(r, b, sz, client)
  OBVIOUS
<1> HIDE DEF r
<1>3. CASE sz < 1
  BY <1>2, <1>3 DEF ParsedAs
<1>4. CASE ~(sz < 1) /\ ~known
  BY <1>2, <1>4 DEF ParsedAs
<1>5. CASE ~(sz < 1) /\ known
  <2>1. CidOf(b) \in Cids /\ Code[CidOf(b)] = b /\ size \in Nat
    BY <1>1, <1>5
  <2>2. CASE sz < size
    <3>1. r < 0
      BY <1>2, <1>5, <2>2
    <3> QED
      BY <2>1, <2>2, <3>1 DEF ParsedAs
  <2>3. CASE ~(sz < size)
    <3>1. r = size /\ size <= sz
      <4>1. r = size
        BY <1>2, <1>5, <2>3
      <4> HIDE DEF size
      <4> QED
        BY <2>1, <2>3, <4>1
    <3> QED
      BY <2>1, <3>1 DEF ParsedAs
  <2> QED
    BY <2>2, <2>3
<1> QED
  BY <1>3, <1>4, <1>5

\* As long as MacPtr has nothing to walk, nothing changes for it.
LEMMA BeforePtr ==
  ASSUME CountInv, AnswerInv, FormInv', macStage \notin ReadStages, macStage' \notin ReadStages,
         UNCHANGED <<ptrPos, ptrLeft, ptrList, ptrErr>>
  PROVE  CountInv' /\ AnswerInv'
<1>1. CountInv'
  BY DEF CountInv
<1>2. macStage' \notin {"respond", "end"} /\ macStage' # "end"
  BY DEF ReadStages
<1>3. AnswerOf(ptrList') \in Nat /\ ptrList' = <<>>
  BY NothingCounted DEF CountInv
<1>4. AnswerInv'
  BY <1>2, <1>3 DEF AnswerInv
<1> QED
  BY <1>1, <1>4

LEMMA ReadWordKeeps ==
  ASSUME MacInv, NEW t \in Tokens, ReadWord(t)
  PROVE  MacInv'
<1>1. /\ macStage = "line" /\ gwErr = 0 /\ gwCount' = gwCount + 1
      /\ CommandWord(t) \/ ParameterWord(t)
      /\ macStage' = macStage /\ UNCHANGED <<ptrPos, ptrLeft, ptrList, ptrErr>>
  BY DEF ReadWord, ptrVars
<1>2. LineInv'
  BY <1>1, CommandWordKeeps, ParameterWordKeeps DEF MacInv
<1>3. FormInv'
  BY <1>1 DEF FormInv, ReadStages
<1>4. CountInv' /\ AnswerInv'
  BY <1>1, <1>3, BeforePtr DEF MacInv, ReadStages
<1> QED
  BY <1>2, <1>3, <1>4 DEF MacInv

LEMMA LineEndKeeps ==
  ASSUME MacInv, LineEnd
  PROVE  MacInv'
<1>1. /\ macStage = "line" /\ gwErr = 0 /\ gwCount > 0
      /\ UNCHANGED <<gwCount, gwCmd, gwVals, gwList>>
      /\ UNCHANGED <<ptrPos, ptrLeft, ptrList, ptrErr>>
  BY DEF LineEnd, ptrVars
<1>2. \/ gwErr' = -546 /\ macStage' = macStage
      \/ gwVals = <<>> /\ macStage' = "made" /\ gwErr' = gwErr
  BY DEF LineEnd
<1>3. LineInv'
  BY <1>1, <1>2 DEF MacInv, LineInv
<1>4. FormInv'
  BY <1>1, <1>2 DEF FormInv, ReadStages
<1>5. macStage' \notin ReadStages /\ macStage \notin ReadStages
  BY <1>1, <1>2 DEF ReadStages
<1>6. CountInv' /\ AnswerInv'
  BY <1>1, <1>4, <1>5, BeforePtr DEF MacInv
<1> QED
  BY <1>3, <1>4, <1>6 DEF MacInv

LEMMA FormMacsKeeps ==
  ASSUME MacInv, FormMacs
  PROVE  MacInv'
<1>1. /\ macStage = "made" /\ macStage' = "formed"
      /\ gwMd' = [i \in DOMAIN gwList |-> MacData(toString(gwList[i]), TRUE)]
      /\ UNCHANGED <<gwCount, gwCmd, gwVals, gwList, gwErr>>
      /\ UNCHANGED <<ptrPos, ptrLeft, ptrList, ptrErr>>
  BY DEF FormMacs, gwVars, ptrVars
<1>2. LineInv'
  BY <1>1 DEF MacInv, LineInv
<1>3. gwMd' = gwList
  <2>1. gwList \in Seq(LineCommands)
    BY DEF MacInv, LineInv
  <2>2. \A i \in DOMAIN gwList : gwList[i] \in LineCommands
    BY <2>1
  <2>3. \A i \in DOMAIN gwList : MacData(toString(gwList[i]), TRUE) = gwList[i]
    BY <2>2, MadeAnew
  <2>4. gwMd' = [i \in DOMAIN gwList |-> gwList[i]]
    BY <1>1, <2>3, Zenon
  <2>5. gwList = [i \in DOMAIN gwList |-> gwList[i]]
    BY <2>1
  <2> QED
    BY <2>4, <2>5, Zenon
<1>4. FormInv'
  BY <1>1, <1>3 DEF MacInv, FormInv, ReadStages
<1>5. macStage' \notin ReadStages /\ macStage \notin ReadStages
  BY <1>1 DEF ReadStages
<1>6. CountInv' /\ AnswerInv'
  BY <1>1, <1>4, <1>5, BeforePtr DEF MacInv
<1> QED
  BY <1>2, <1>4, <1>6 DEF MacInv

\* A payload for MacPtr.
LEMMA HoldsKeeps ==
  ASSUME MacInv, NEW bytes, Holds(bytes), Len(bytes) \in Nat, macStage \notin ReadStages,
         gwCount = 0 => Len(bytes) >= 1, UNCHANGED <<gwCount, gwCmd, gwVals, gwList, gwErr>>,
         gwCount > 0 => macStage = "formed", UNCHANGED gwMd
  PROVE  MacInv'
<1>1. /\ macBytes' = bytes /\ ptrLeft' = Len(bytes) /\ macStage' = "ptr"
      /\ UNCHANGED <<ptrPos, ptrList, ptrErr>>
  BY DEF Holds
<1>2. ptrPos = 1 /\ ptrList = <<>> /\ ptrErr = 0
  BY DEF MacInv, CountInv
<1>3. LineInv'
  BY DEF MacInv, LineInv
<1>4. FormInv'
  BY <1>1 DEF MacInv, FormInv, ReadStages
<1>5. CountInv'
  <2>1. ptrLeft' + CountOf(ptrList') = Len(macBytes')
    BY <1>1, <1>2, NothingCounted
  <2>2. ptrPos' = 1 /\ ptrList' = <<>> /\ ptrErr' = 0
    BY <1>1, <1>2
  <2> QED
    BY <1>1, <2>1, <2>2 DEF CountInv, ReadStages
<1>6. AnswerInv'
  BY <1>1, <1>2, NothingCounted DEF AnswerInv
<1> QED
  BY <1>3, <1>4, <1>5, <1>6 DEF MacInv

LEMMA PackMacsKeeps ==
  ASSUME MacInv, PackMacs
  PROVE  MacInv'
<1>1. /\ macStage = "formed" /\ Holds(BytesOf(gwMd))
      /\ UNCHANGED <<gwCount, gwCmd, gwVals, gwList, gwErr>> /\ UNCHANGED gwMd
  BY DEF PackMacs, gwVars, BytesOf
<1>2. gwCount > 0 /\ gwMd = gwList /\ gwList \in Seq(LineCommands)
  BY <1>1 DEF MacInv, FormInv, LineInv
<1>3. Len(BytesOf(gwMd)) \in Nat
  BY <1>2, BytesLength
<1>4. macStage \notin ReadStages /\ (gwCount = 0 => Len(BytesOf(gwMd)) >= 1)
  BY <1>1, <1>2 DEF ReadStages
<1> QED
  BY <1>1, <1>3, <1>4, HoldsKeeps

LEMMA UplinkKeeps ==
  ASSUME MacInv, NEW n \in 1 .. MaxUplink, NEW bytes \in [1 .. n -> UplinkBytes], Uplink(bytes)
  PROVE  MacInv'
<1>1. /\ macStage = "line" /\ gwCount = 0 /\ Holds(bytes)
      /\ UNCHANGED <<gwCount, gwCmd, gwVals, gwList, gwErr>> /\ UNCHANGED gwMd
  BY DEF Uplink, gwVars
<1>2. Len(bytes) = n /\ n \in Nat /\ n >= 1
  <2>1. n \in Nat /\ n >= 1
    BY MacAssumption
  <2>2. bytes \in Seq(UplinkBytes)
    BY <2>1
  <2> QED
    BY <2>1, <2>2
<1>3. macStage \notin ReadStages /\ Len(bytes) >= 1 /\ Len(bytes) \in Nat /\ ~(gwCount > 0)
  BY <1>1, <1>2 DEF ReadStages
<1> QED
  BY <1>1, <1>3, HoldsKeeps

\* MacPtr takes a command, or gives up.
LEMMA PtrStepKeeps ==
  ASSUME MacInv, NEW b \in PtrReads, PtrStep(b)
  PROVE  MacInv'
<1> DEFINE r == parseSide(b, ptrLeft, FALSE)
           cid == CidOf(b)
           e == [cid |-> cid, at |-> ptrPos]
<1>1. /\ macStage = "ptr" /\ ptrLeft > 0
      /\ UNCHANGED <<gwCount, gwCmd, gwVals, gwList, gwErr>> /\ UNCHANGED <<gwMd, macBytes>>
  BY DEF PtrStep, gwVars
<1>2. /\ r < 0 => /\ ptrErr' = r /\ macStage' = "respond"
                  /\ UNCHANGED <<ptrPos, ptrLeft, ptrList>>
      /\ ~(r < 0) => /\ ptrLeft' = ptrLeft - r /\ ptrPos' = ptrPos + (ptrLeft - r)
                     /\ ptrList' = Append(ptrList, e) /\ ptrErr' = ptrErr /\ macStage' = macStage
  BY DEF PtrStep
<1>3. LineInv'
  BY <1>1 DEF MacInv, LineInv
<1>4. macStage' \in {"ptr", "respond"}
  BY <1>1, <1>2
<1>5. FormInv'
  BY <1>1, <1>4 DEF MacInv, FormInv, ReadStages
<1>6. /\ ptrPos \in Nat /\ ptrLeft \in Nat /\ ptrList \in Seq(Entries) /\ Len(macBytes) \in Nat
      /\ ptrLeft + CountOf(ptrList) = Len(macBytes) /\ ptrErr = 0
      /\ ptrList = <<>> => ptrPos = 1
      /\ ptrList # <<>> => ptrList[1] = [cid |-> CidOf(macBytes[1]), at |-> 1]
  BY <1>1 DEF MacInv, CountInv, ReadStages
<1>7. /\ AnswerOf(ptrList) \in Nat
      /\ ptrList # <<>> /\ ptrList[1].cid = "LinkCheck" =>
           AnswerOf(ptrList) >= commandSize("LinkCheck", TRUE)
      /\ gwCount = 0 => Len(macBytes) >= 1
  BY <1>1 DEF MacInv, AnswerInv, ReadStages
<1>8. ParsedAs(r, b, ptrLeft, FALSE)
  <2>1. ptrLeft \in Int
    BY <1>6
  <2> QED
    BY <2>1, Parsed
<1>9. ptrList = <<>> => b = macBytes[1] /\ ptrPos = 1 /\ ptrLeft = Len(macBytes)
  <2> SUFFICES ASSUME ptrList = <<>> PROVE b = macBytes[1] /\ ptrPos = 1 /\ ptrLeft = Len(macBytes)
    OBVIOUS
  <2>1. ptrPos = 1 /\ ptrLeft = Len(macBytes) /\ 1 <= Len(macBytes)
    BY <1>1, <1>6, NothingCounted
  <2>2. PtrReads = {ByteAt(ptrPos)} /\ ByteAt(1) = macBytes[1]
    BY <1>6, <2>1 DEF PtrReads, ByteAt
  <2> QED
    BY <2>1, <2>2
<1> HIDE DEF r
<1>10. CASE r < 0
  <2>1. ptrErr' = r /\ macStage' = "respond" /\ UNCHANGED <<ptrPos, ptrLeft, ptrList>>
    BY <1>2, <1>10
  <2>2. r # 0
    BY <1>10
  <2>3. CountInv'
    <3>1. ptrErr' # 0 /\ ptrLeft' # 0
      BY <1>1, <1>6, <2>1, <2>2
    <3> QED
      BY <1>1, <1>6, <2>1, <3>1 DEF CountInv, ReadStages
  <2>4. ASSUME ptrList = <<>> PROVE macBytes[1] # Code["LinkCheck"]
    <3> SUFFICES ASSUME macBytes[1] = Code["LinkCheck"] PROVE FALSE
      OBVIOUS
    <3>1. b = Code["LinkCheck"] /\ "LinkCheck" \in Cids
      BY <1>9, <2>4 DEF Cids, Code
    <3>2. cid = "LinkCheck"
      BY <3>1, CidOfCode
    <3>3. commandSize("LinkCheck", FALSE) = 1
      <4>1. FieldsOf("LinkCheck", FALSE) = <<>>
        BY DEF FieldsOf, ServerSide, Fields, MacStructs1
      <4>2. [i \in 1 .. Len(<<>>) |-> <<>>[i].bits] = <<>>
        OBVIOUS
      <4>3. Bits(<<>>) = 0
        BY <4>2, TotalEmpty DEF Bits
      <4>4. commandSize("LinkCheck", FALSE) = 1 + 0 \div 8
        BY <4>1, <4>3, Zenon DEF commandSize
      <4>5. 1 + 0 \div 8 = 1
        OBVIOUS
      <4> QED
        BY <4>4, <4>5, Zenon
    <3>4. ~(ptrLeft < 1)
      BY <1>1, <1>6
    <3>5. ~(\A c \in Cids : Code[c] # b)
      BY <3>1
    <3>6. \/ r \in Nat
          \/ ptrLeft < 1
          \/ \A c \in Cids : Code[c] # b
          \/ ptrLeft < commandSize(cid, FALSE)
      BY <1>8 DEF ParsedAs
    <3>7. r \in Nat
      BY <3>2, <3>3, <3>4, <3>5, <3>6
    <3> QED
      BY <1>10, <3>7
  <2>5. AnswerInv'
    BY <1>1, <1>7, <2>1, <2>4 DEF AnswerInv, ReadStages
  <2> QED
    BY <1>3, <1>5, <2>3, <2>5 DEF MacInv
<1>11. CASE ~(r < 0)
  <2>1. /\ r = commandSize(cid, FALSE) /\ r \in Nat /\ r <= ptrLeft /\ cid \in Cids
    BY <1>8, <1>11 DEF ParsedAs
  <2>2. /\ ptrLeft' = ptrLeft - r /\ ptrPos' = ptrPos + (ptrLeft - r) /\ ptrErr' = 0
        /\ ptrList' = Append(ptrList, e) /\ macStage' = "ptr"
    BY <1>1, <1>2, <1>6, <1>11
  <2>3. e \in Entries /\ e.cid = cid
    BY <1>6, <2>1 DEF Entries
  <2>4. ptrLeft' \in Nat /\ ptrPos' \in Nat
    <3>1. ptrLeft \in Nat /\ ptrPos \in Nat /\ r \in Nat /\ r <= ptrLeft
      BY <1>6, <2>1
    <3>2. ptrLeft' = ptrLeft - r /\ ptrPos' = ptrPos + (ptrLeft - r)
      BY <2>2
    <3> QED
      BY <3>1, <3>2
  <2>5. ptrList' \in Seq(Entries) /\ ptrList' # <<>>
    BY <1>6, <2>2, <2>3, AppendProperties
  <2>6. ptrLeft' + CountOf(ptrList') = Len(macBytes')
    <3>1. CountOf(ptrList) \in Nat /\ CountOf(ptrList') = CountOf(ptrList) + r
      BY <1>6, <2>1, <2>2, <2>3, CountAppend
    <3>2. ptrLeft \in Nat /\ r \in Nat /\ ptrLeft + CountOf(ptrList) = Len(macBytes)
      BY <1>6, <2>1
    <3>3. ptrLeft' = ptrLeft - r /\ macBytes' = macBytes
      BY <1>1, <2>2
    <3> QED
      BY <3>1, <3>2, <3>3
  <2>7. ptrList'[1] = [cid |-> CidOf(macBytes[1]), at |-> 1]
    <3>1. CASE ptrList = <<>>
      <4>1. e = [cid |-> CidOf(macBytes[1]), at |-> 1]
        BY <1>9, <3>1
      <4>2. ptrList' = Append(<<>>, e)
        BY <2>2, <3>1
      <4> HIDE DEF e
      <4> QED
        BY <4>1, <4>2
    <3>2. CASE ptrList # <<>>
      <4>1. 1 \in 1 .. Len(ptrList)
        BY <1>6, <3>2
      <4> HIDE DEF e
      <4>2. ptrList'[1] = ptrList[1]
        BY <1>6, <2>2, <2>3, <4>1, AppendProperties
      <4> QED
        BY <1>6, <3>2, <4>2
    <3> QED
      BY <3>1, <3>2
  <2>8. CountInv'
    BY <1>1, <1>6, <2>2, <2>4, <2>5, <2>6, <2>7 DEF CountInv, ReadStages
  <2>9. /\ AnswerSize(cid) \in Nat /\ AnswerOf(ptrList') = AnswerOf(ptrList) + AnswerSize(cid)
    BY <1>6, <2>2, <2>3, AnswerAppend
  <2>10. AnswerOf(ptrList') \in Nat
    BY <1>7, <2>9
  <2>11. ASSUME ptrList'[1].cid = "LinkCheck"
         PROVE  AnswerOf(ptrList') >= commandSize("LinkCheck", TRUE)
    <3> DEFINE size == commandSize("LinkCheck", TRUE)
               answer == AnswerSize(cid)
    <3>0. size \in Nat
      BY SizeType DEF Cids, Code
    <3>1. CASE ptrList = <<>>
      <4>1. cid = "LinkCheck"
        BY <1>9, <2>7, <2>11, <3>1
      <4>2. answer = size
        BY <4>1 DEF AnswerSize, mkResponseMAC
      <4>3. AnswerOf(ptrList) \in Nat /\ answer \in Nat
        BY <1>7, <2>9
      <4>4. AnswerOf(ptrList') = AnswerOf(ptrList) + answer
        BY <2>9
      <4> HIDE DEF size, answer
      <4>5. AnswerOf(ptrList') >= size
        BY <3>0, <4>2, <4>3, <4>4
      <4> QED
        BY <4>5 DEF size
    <3>2. CASE ptrList # <<>>
      <4>1. ptrList[1].cid = "LinkCheck"
        BY <1>6, <2>7, <2>11, <3>2
      <4>2. AnswerOf(ptrList) >= size
        BY <1>7, <3>2, <4>1
      <4>3. AnswerOf(ptrList) \in Nat /\ answer \in Nat
        BY <1>7, <2>9
      <4>4. AnswerOf(ptrList') = AnswerOf(ptrList) + answer
        BY <2>9
      <4> HIDE DEF size, answer
      <4>5. AnswerOf(ptrList') >= size
        BY <3>0, <4>2, <4>3, <4>4
      <4> QED
        BY <4>5 DEF size
    <3> QED
      BY <3>1, <3>2
  <2>12. AnswerInv'
    BY <1>1, <1>7, <2>2, <2>10, <2>11 DEF AnswerInv
  <2> QED
    BY <1>3, <1>5, <2>8, <2>12 DEF MacInv
<1> QED
  BY <1>10, <1>11

LEMMA PtrEndKeeps ==
  ASSUME MacInv, PtrEnd
  PROVE  MacInv'
<1>1. /\ macStage = "ptr" /\ ptrLeft = 0 /\ ptrErr' = 0 /\ macStage' = "respond"
      /\ UNCHANGED <<gwCount, gwCmd, gwVals, gwList, gwErr>> /\ UNCHANGED <<gwMd, macBytes>>
      /\ UNCHANGED <<ptrPos, ptrLeft, ptrList>>
  BY DEF PtrEnd, gwVars
<1>2. LineInv'
  BY <1>1 DEF MacInv, LineInv
<1>3. FormInv'
  BY <1>1 DEF MacInv, FormInv, ReadStages
<1>4. CountInv'
  BY <1>1 DEF MacInv, CountInv, ReadStages
<1>5. ptrList = <<>> => Len(macBytes) = 0
  BY <1>1, NothingCounted DEF MacInv, CountInv, ReadStages
<1>6. gwCount = 0 => Len(macBytes) >= 1
  BY <1>1 DEF MacInv, AnswerInv, ReadStages
<1>7. ~(gwCount = 0 /\ ptrList = <<>>)
  BY <1>5, <1>6
<1>8. AnswerInv'
  BY <1>1, <1>7 DEF MacInv, AnswerInv, ReadStages
<1> QED
  BY <1>2, <1>3, <1>4, <1>8 DEF MacInv

LEMMA RespondKeeps ==
  ASSUME MacInv, Respond
  PROVE  MacInv'
<1>1. /\ macStage = "respond" /\ gwCount = 0 /\ macAnswer' = AnswerOf(ptrList) /\ macStage' = "end"
      /\ UNCHANGED <<gwCount, gwCmd, gwVals, gwList, gwErr>> /\ UNCHANGED <<gwMd, macBytes>>
      /\ UNCHANGED <<ptrPos, ptrLeft, ptrList, ptrErr>>
  BY DEF Respond, gwVars, ptrVars, AnswerOf
<1>2. LineInv'
  BY <1>1 DEF MacInv, LineInv
<1>3. FormInv'
  BY <1>1 DEF MacInv, FormInv, ReadStages
<1>4. CountInv'
  BY <1>1 DEF MacInv, CountInv, ReadStages
<1>5. AnswerInv'
  BY <1>1 DEF MacInv, AnswerInv, ReadStages
<1> QED
  BY <1>2, <1>3, <1>4, <1>5 DEF MacInv

LEMMA MacInvStep == MacInv /\ [MacNext]_macVars => MacInv'
<1> SUFFICES ASSUME MacInv, [MacNext]_macVars PROVE MacInv'
  OBVIOUS
<1>1. CASE \E t \in Tokens : ReadWord(t)
  BY <1>1, ReadWordKeeps
<1>2. CASE LineEnd
  BY <1>2, LineEndKeeps
<1>3. CASE FormMacs
  BY <1>3, FormMacsKeeps
<1>4. CASE PackMacs
  BY <1>4, PackMacsKeeps
<1>5. CASE \E n \in 1 .. MaxUplink : \E bytes \in [1 .. n -> UplinkBytes] : Uplink(bytes)
  BY <1>5, UplinkKeeps
<1>6. CASE \E b \in PtrReads : PtrStep(b)
  BY <1>6, PtrStepKeeps
<1>7. CASE PtrEnd
  BY <1>7, PtrEndKeeps
<1>8. CASE Respond
  BY <1>8, RespondKeeps
<1>9. CASE UNCHANGED macVars
  <2>1. /\ UNCHANGED <<gwCount, gwCmd, gwVals, gwList, gwErr>>
        /\ UNCHANGED <<macStage, gwMd, macBytes, macAnswer>>
        /\ UNCHANGED <<ptrPos, ptrLeft, ptrList, ptrErr>>
    BY <1>9 DEF macVars, gwVars, ptrVars
  <2>2. LineInv'
    BY <2>1 DEF MacInv, LineInv
  <2>3. FormInv'
    BY <2>1 DEF MacInv, FormInv
  <2>4. CountInv'
    BY <2>1 DEF MacInv, CountInv
  <2>5. AnswerInv'
    BY <2>1 DEF MacInv, AnswerInv
  <2> QED
    BY <2>2, <2>3, <2>4, <2>5 DEF MacInv
<1> QED
  BY <1>1, <1>2, <1>3, <1>4, <1>5, <1>6, <1>7, <1>8, <1>9 DEF MacNext

LEMMA MacInvParses == MacInv => CommandsParseBack
<1> SUFFICES ASSUME MacInv, macStage # "line", gwCount > 0 PROVE CommandsParseBack
  BY DEF CommandsParseBack
<1>1. macStage # "made" => gwMd = gwList
  BY DEF MacInv, FormInv
<1>2. gwCount = (IF gwCmd = 0 THEN 0 ELSE 1) + WordsOf(gwList)
  <2>1. gwErr = 0 /\ gwVals = <<>>
    BY DEF MacInv, FormInv
  <2>2. gwCount = (IF gwCmd = 0 THEN 0 ELSE 1 + Len(gwVals)) + WordsOf(gwList)
    BY <2>1 DEF MacInv, LineInv
  <2>3. 1 + Len(gwVals) = 1
    BY <2>1
  <2> QED
    BY <2>2, <2>3, Zenon
<1>3. ASSUME macStage # "made", NEW i \in 1 .. Len(gwMd),
             NEW k \in 1 .. Len(Params(gwMd[i].cid, TRUE))
      PROVE  Params(gwMd[i].cid, TRUE)[k] \in Printed(gwMd[i])
  <2> DEFINE m == gwMd[i]
             fs == FieldsOf(m.cid, TRUE)
             p == Params(m.cid, TRUE)[k]
  <2>1. m \in LineCommands
    BY <1>1, <1>3 DEF MacInv, LineInv
  <2>2. Complete(m) /\ m.cid \in Cids
    BY <2>1, LineComplete
  <2>3. m.cid \in LineCids /\ m.client = TRUE
    BY <2>2 DEF Complete
  <2>4. PICK n \in 1 .. Len(fs) : fs[n].name = p /\ <<m.cid, fs[n].name>> \notin ClientNotPrinted
    <3>1. ParamsShown(m.cid)
      BY <2>3, LineParamsShown
    <3>2. \E n \in 1 .. Len(fs) : fs[n].name = p /\ (m.cid = "ForceRejoin" => p # "dr")
      BY <1>3, <3>1, Zenon DEF ParamsShown, ShownIn
    <3> QED
      BY <3>2, NotHidden, Zenon
  <2>5. DOMAIN fs = 1 .. Len(fs)
    <3>1. PICK E : fs \in Seq(E)
      BY <2>2, FieldsOfType DEF Structure
    <3> HIDE DEF fs
    <3> QED
      BY <3>1, LenProperties
  <2>6. Printed(m) = {fs[j].name : j \in {q \in DOMAIN fs : <<m.cid, fs[q].name>> \notin ClientNotPrinted}}
    BY <2>3, Zenon DEF Printed
  <2> HIDE DEF fs
  <2>7. p \in Printed(m)
    BY <2>4, <2>5, <2>6
  <2> QED
    BY <2>7
<1> QED
  BY <1>1, <1>2, <1>3, Zenon DEF CommandsParseBack, WordsOf

LEMMA MacInvCounts == MacInv => PtrCountsPayload
<1> SUFFICES ASSUME MacInv, macStage \in ReadStages
             PROVE  /\ ptrLeft >= 0
                    /\ ptrLeft + CountOf(ptrList) = Len(macBytes)
                    /\ macStage # "ptr" => (ptrErr = 0 <=> ptrLeft = 0)
                    /\ ptrList # <<>> => ptrList[1] = [cid |-> CidOf(macBytes[1]), at |-> 1]
                    /\ macStage = "end" /\ macBytes[1] = Code["LinkCheck"] =>
                         macAnswer >= commandSize("LinkCheck", TRUE)
  BY Zenon DEF PtrCountsPayload, ReadStages, CountOf
<1>1. /\ ptrLeft \in Nat /\ ptrLeft + CountOf(ptrList) = Len(macBytes)
      /\ macStage # "ptr" => (ptrErr = 0 <=> ptrLeft = 0)
      /\ ptrList # <<>> => ptrList[1] = [cid |-> CidOf(macBytes[1]), at |-> 1]
  BY DEF MacInv, CountInv
<1>2. ASSUME macStage = "end", macBytes[1] = Code["LinkCheck"]
      PROVE  macAnswer >= commandSize("LinkCheck", TRUE)
  <2>1. ptrList # <<>>
    BY <1>2 DEF MacInv, AnswerInv
  <2>2. CidOf(macBytes[1]) = "LinkCheck"
    BY <1>2, CidOfCode DEF Cids, Code
  <2>3. ptrList[1].cid = "LinkCheck"
    BY <1>1, <2>1, <2>2
  <2> QED
    BY <1>2, <2>1, <2>3 DEF MacInv, AnswerInv
<1>3. ptrLeft >= 0
  BY <1>1
<1> QED
  BY <1>1, <1>2, <1>3, Zenon

\* The commands of every command line, of any length and with any numbers,
\* come back out of their bytes (MacGwConfig::parse(), MacData::toString(),
\* MacData::MacData(value, sentByGateway), mac-gw.cpp:301), their parameters
\* are all shown, and every word is accounted for.
THEOREM LineParsesBack == MacSpec => []CommandsParseBack
<1>1. MacInit => MacInv
  BY MacInvInit
<1>2. MacInv /\ [MacNext]_macVars => MacInv'
  BY MacInvStep
<1>3. MacInv => CommandsParseBack
  BY MacInvParses
<1> QED
  BY <1>1, <1>2, <1>3, PTL DEF MacSpec

\* Whatever the MAC commands of a packet are, and whatever lies where the
\* pointer of MacPtr goes, its count of bytes stays exact, and a link check at
\* the front is answered (lorawan-mac.cpp:1827-1850).
THEOREM PayloadCounted == MacSpec => []PtrCountsPayload
<1>1. MacInit => MacInv
  BY MacInvInit
<1>2. MacInv /\ [MacNext]_macVars => MacInv'
  BY MacInvStep
<1>3. MacInv => PtrCountsPayload
  BY MacInvCounts
<1> QED
  BY <1>1, <1>2, <1>3, PTL DEF MacSpec
=============================================================================
