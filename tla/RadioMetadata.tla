---------------------------- MODULE RadioMetadata ---------------------------
(***************************************************************************)
(* rfmMetaData: what a gateway tells about a reception (rxpk), how the     *)
(* server keeps it, and the txpk of a reply it makes of it.  A JSON object *)
(* is a record of typed values, a text is what its reader makes of it; the *)
(* signal to noise ratio is in tenths of dB, frequencies are in Hz.        *)
(***************************************************************************)
EXTENDS Integers, Sequences

CONSTANTS
  MdGateways,   \* gateways that hear a frame
  MdMaxHeard,   \* bound: gateways that report one frame
  MdFreqs,      \* frequencies of receptions, Hz
  MdSnrs,       \* signal to noise ratios, tenths of dB
  MdTmsts,      \* values of a gateway's counter of microseconds
  TmstMod,      \* modulus of that counter (2^32)
  Second        \* a second of that counter (1000000)

ASSUME MdAssumption ==
  /\ 0 \notin MdGateways /\ MdMaxHeard \in Nat
  /\ MdFreqs \subseteq Nat /\ MdSnrs \subseteq Int
  /\ TmstMod \in Nat /\ MdTmsts \subseteq 0 .. TmstMod - 1
  /\ Second \in 1 .. TmstMod - 1

VARIABLES
  mdStage,      \* "start", "air", "rx", "kept", "tx" or "end"
  mdFrame,      \* how the frame is modulated
  mdHeard,      \* the receptions, in the order of their reports, and their forms
  mdJson,       \* the JSON object on its way
  mdMeta,       \* SemtechUDPPacket::metadata of the queued packet
  mdTo,         \* the gateway the reply is sent to, 0 if none
  mdRead        \* rfmMetaData of the reader of the reply

mdVars == <<mdStage, mdFrame, mdHeard, mdJson, mdMeta, mdTo, mdRead>>

\* A JSON value.
J(type, v) == [type |-> type, v |-> v]
Missing == J("missing", 0)

\* The indexes of BANDWIDTH and the numbers that datr() writes for them.
datrBandwidth ==
  [k7 |-> 7, k10 |-> 10, k15 |-> 15, k20 |-> 20, k31 |-> 31, k41 |-> 41,
   k62 |-> 62, k125 |-> 125, k250 |-> 250, k500 |-> 500]

datr(m) == [sf |-> m.sf, bw |-> datrBandwidth[m.bw]]

\* The switch of setDatr().
setDatrBandwidth(n) ==
  CASE n = 7 -> "k7" [] n = 10 -> "k10" [] n = 15 -> "k15" [] n = 20 -> "k20"
    [] n = 31 -> "k31" [] n = 41 -> "k41" [] n = 62 -> "k62" [] n = 125 -> "k125"
    [] n = 250 -> "k250" [] n = 500 -> "k500" [] OTHER -> "k250"

\* codr(): the length of the text and its third character.
codr ==
  [r45 |-> <<3, "5">>, r46 |-> <<3, "3">>, r47 |-> <<3, "7">>, r48 |-> <<3, "2">>,
   li45 |-> <<5, "5">>, li46 |-> <<5, "6">>, li48 |-> <<5, "8">>]

\* setCodr(): "1/2", the text of 4/8, is read as 4/6.
setCodr(text) ==
  CASE text = <<3, "5">> -> "r45" [] text = <<3, "2">> -> "r46"
    [] text = <<3, "7">> -> "r47" [] text = <<3, "1">> -> "r48"
    [] text = <<5, "5">> -> "li45" [] text = <<5, "6">> -> "li46"
    [] text = <<5, "8">> -> "li48" [] OTHER -> "r46"

\* Digits of a number below 10^6.
Digits(n) == CHOOSE d \in 1 .. 6 : n < 10^d /\ (d = 1 \/ n >= 10^(d - 1))

\* frequency(): MHz, a dot, and the rest without its leading zeros, as a
\* reader of the text understands it.
frequency(freq) ==
  LET rest == freq % 1000000
  IN  (freq - rest) + rest * 10^(6 - Digits(rest))

\* A float is written without a fraction when it has none.
lsnrText(snr) == IF snr % 10 = 0 THEN J("int", snr \div 10) ELSE J("double", snr)

\* rfmMetaData(): the values that a JSON object without them leaves.  The
\* constructor does not set tmst: it is what the memory held.
rfmMetaData(memory) ==
  [gatewayId |-> 0, tmst |-> memory, freq |-> 868900000, chan |-> 0, rfch |-> 0, stat |-> 0,
   modu |-> "LORA", sf |-> 7, bw |-> "k250", cr |-> "r46", rssi |-> -35, lsnr |-> 51]

Read(json, type, default) == IF json.type = type THEN json.v ELSE default

\* parseRX(): the fraction of the frequency is cut off before it becomes Hz.
\* A data rate that is a number, as for FSK, is not read.
parseRX(j, memory) ==
  LET new == rfmMetaData(memory)
      d   == Read(j.datr, "string", [sf |-> 7, bw |-> 250])
  IN  [gatewayId |-> new.gatewayId, tmst |-> Read(j.tmst, "int", new.tmst),
       freq |-> IF j.freq.type = "double" THEN (j.freq.v \div 1000000) * 1000000 ELSE new.freq,
       chan |-> Read(j.chan, "int", new.chan), rfch |-> Read(j.rfch, "int", new.rfch),
       stat |-> Read(j.stat, "int", new.stat), modu |-> Read(j.modu, "string", new.modu),
       sf |-> d.sf, bw |-> setDatrBandwidth(d.bw),
       cr |-> setCodr(Read(j.codr, "string", codr["r46"])),
       rssi |-> Read(j.rssi, "int", new.rssi), lsnr |-> Read(j.lsnr, "double", new.lsnr)]

\* rfmMetaData(prefix, value): the gateway is that of the datagram's prefix.
WithGateway(gateway, m) == [m EXCEPT !.gatewayId = gateway]

\* toJsonString(): rxpk.
toJsonString(m) ==
  [tmst |-> J("int", m.tmst), freq |-> J("double", frequency(m.freq)),
   chan |-> J("int", m.chan), rfch |-> J("int", m.rfch), stat |-> J("int", m.stat),
   modu |-> J("string", m.modu), datr |-> J("string", datr(m)),
   codr |-> J("string", codr[m.cr]), rssi |-> J("int", m.rssi), lsnr |-> lsnrText(m.lsnr)]

\* toRxJsonString(): the same without the counter of the gateway.
toRxJsonString(m) == [toJsonString(m) EXCEPT !.tmst = J("int", 0)]

\* Mutant of toTxJsonString: the counter is not wrapped to its width.
toTxJsonStringUnwrapped(m, receivedTime, power) ==
  [tmst |-> IF receivedTime = 0 THEN Missing ELSE J("int", receivedTime + Second),
   imme |-> receivedTime = 0, freq |-> J("double", frequency(m.freq)),
   rfch |-> J("int", 0), powe |-> J("int", power), modu |-> J("string", m.modu),
   datr |-> J("string", datr(m)), codr |-> J("string", codr[m.cr])]

\* toTxJsonString(): a second after the reception, or at once if the counter
\* of the reception is 0.
toTxJsonString(m, receivedTime, power) ==
  [tmst |-> IF receivedTime = 0 THEN Missing
            ELSE J("int", (receivedTime + Second) % TmstMod),
   imme |-> receivedTime = 0, freq |-> J("double", frequency(m.freq)),
   rfch |-> J("int", 0), powe |-> J("int", power), modu |-> J("string", m.modu),
   datr |-> J("string", datr(m)), codr |-> J("string", codr[m.cr])]

\* getBestGatewayAddress(): the first of those with the best ratio.
getBestGatewayAddress(metadata) ==
  LET best == CHOOSE i \in DOMAIN metadata :
                /\ \A k \in DOMAIN metadata : metadata[k].lsnr <= metadata[i].lsnr
                /\ \A k \in 1 .. i - 1 : metadata[k].lsnr < metadata[i].lsnr
  IN  metadata[best].gatewayId

\* parseTX(): "rfch" is read from "powe".
parseTX(j, memory) ==
  LET d  == Read(j.datr, "string", [sf |-> 7, bw |-> 250])
      cr == Read(j.codr, "string", codr["r46"])
  IN  [rfmMetaData(memory) EXCEPT
         !.tmst = Read(j.tmst, "int", @), !.freq = Read(j.freq, "double", @),
         !.rfch = Read(j.powe, "int", @), !.modu = Read(j.modu, "string", @),
         !.sf = d.sf, !.bw = setDatrBandwidth(d.bw), !.cr = setCodr(cr)]

(***************************************************************************)
(* A frame, its receptions and the reply.                                  *)
(***************************************************************************)
Forms == {"protocol", "untimed", "tool"}

\* rxpk of a gateway, with the precision of the protocol, where the data rate
\* of FSK is a number (50 kbit/s); of a gateway that has no counter; and of
\* the programs of the repository.
Rxpk(m, form) ==
  LET protocol == [toJsonString(m) EXCEPT
                     !.freq = J("double", m.freq), !.lsnr = J("double", m.lsnr),
                     !.datr = IF m.modu = "FSK" THEN J("int", 50000) ELSE @]
  IN  CASE form = "protocol" -> protocol
        [] form = "untimed" -> [protocol EXCEPT !.tmst = Missing]
        [] form = "tool" -> toRxJsonString(m)

\* A device transmits.
Transmitted(freq, bw, cr, modu) ==
  /\ mdStage = "start"
  /\ mdFrame' = [freq |-> freq, bw |-> bw, sf |-> 9, cr |-> cr, modu |-> modu]
  /\ mdStage' = "air"
  /\ UNCHANGED <<mdHeard, mdJson, mdMeta, mdTo, mdRead>>

Reporters == {mdHeard[i].meta.gatewayId : i \in DOMAIN mdHeard}

\* What a gateway knows of the frame it hears.
Reception(gateway, snr, tmst) ==
  [gatewayId |-> gateway, tmst |-> tmst, freq |-> mdFrame.freq, chan |-> 3, rfch |-> 1, stat |-> 1,
   modu |-> mdFrame.modu, sf |-> mdFrame.sf, bw |-> mdFrame.bw, cr |-> mdFrame.cr,
   rssi |-> -100, lsnr |-> snr]

\* A gateway hears the frame and reports it.
Heard(gateway, snr, tmst, form) ==
  LET m == Reception(gateway, snr, tmst)
  IN  /\ mdStage \in {"air", "kept"}
      /\ Len(mdHeard) < MdMaxHeard
      /\ gateway \notin Reporters
      /\ mdHeard' = Append(mdHeard, [meta |-> m, form |-> form])
      /\ mdJson' = Rxpk(m, form)
      /\ mdStage' = "rx"
      /\ UNCHANGED <<mdFrame, mdMeta, mdTo, mdRead>>

\* SemtechUDPPacket::parse() and PacketQueue::push(): a new packet is queued
\* with its metadata, the metadata of another copy go behind those it has.
ServerParses(memory) ==
  LET gateway == mdHeard[Len(mdHeard)].meta.gatewayId
  IN  /\ mdStage = "rx"
      /\ mdMeta' = Append(mdMeta, WithGateway(gateway, parseRX(mdJson, memory)))
      /\ mdStage' = "kept"
      /\ UNCHANGED <<mdFrame, mdHeard, mdJson, mdTo, mdRead>>

\* replyMAC(), replyJoinRequest(): by the first metadata and their counter, to
\* the gateway with the best signal.
Replies(power) ==
  /\ mdStage = "kept"
  /\ mdTo' = getBestGatewayAddress(mdMeta)
  /\ mdTo' # 0
  /\ mdJson' = toTxJsonString(mdMeta[1], mdMeta[1].tmst, power)
  /\ mdStage' = "tx"
  /\ UNCHANGED <<mdFrame, mdHeard, mdMeta, mdRead>>

ReplyParsed(memory) ==
  /\ mdStage = "tx"
  /\ mdRead' = parseTX(mdJson, memory)
  /\ mdStage' = "end"
  /\ UNCHANGED <<mdFrame, mdHeard, mdJson, mdMeta, mdTo>>

MdInit ==
  /\ mdStage = "start" /\ mdFrame = <<>> /\ mdHeard = <<>> /\ mdMeta = <<>>
  /\ mdJson = Missing /\ mdTo = 0 /\ mdRead = rfmMetaData(0)

MdNext ==
  \/ \E f \in MdFreqs, b \in DOMAIN datrBandwidth, c \in DOMAIN codr, u \in {"LORA", "FSK"} :
       Transmitted(f, b, c, u)
  \/ \E g \in MdGateways, s \in MdSnrs, t \in MdTmsts, form \in Forms : Heard(g, s, t, form)
  \/ \E t \in MdTmsts : ServerParses(t)
  \/ Replies(14)
  \/ \E t \in MdTmsts : ReplyParsed(t)

\* The data rate is told in the form that the server reads.
RateTold(h) == h.meta.modu = "LORA" \/ h.form = "tool"

\* What each gateway reports is kept beside its identifier (utillora.cpp:1450,
\* packet-queue.cpp:175), except for the frequency below 1 MHz, the coding
\* rate 4/8 and the data rate of FSK when it is a number.
ReportsKept ==
  \A i \in DOMAIN mdMeta :
    LET k == mdMeta[i]
        m == mdHeard[i].meta
    IN  /\ k.gatewayId = m.gatewayId /\ k.modu = m.modu /\ k.rssi = m.rssi /\ k.chan = m.chan
        /\ RateTold(mdHeard[i]) => k.bw = m.bw /\ k.sf = m.sf
        /\ m.cr # "r48" => k.cr = m.cr

\* The reader of the reply sends at the data rate and the modulation of the
\* frame (utillora.cpp:2562).
ReplyModulated ==
  mdStage = "end" =>
    /\ mdRead.modu = mdFrame.modu
    /\ RateTold(mdHeard[1]) => mdRead.bw = mdFrame.bw /\ mdRead.sf = mdFrame.sf

\* A reply is sent a second after the first reception by the counter of its
\* gateway, also when that counter wraps around, and at once when there is no
\* counter (utillora.cpp:2583).  It goes to that gateway unless another is
\* known to hear better (packet-queue.cpp:423).
ReplyOneSecondLater ==
  mdStage = "tx" =>
    /\ mdHeard[1].form = "protocol" /\ mdHeard[1].meta.tmst # 0 =>
         /\ mdJson.tmst.v \in 0 .. TmstMod - 1
         /\ (mdJson.tmst.v - mdHeard[1].meta.tmst) % TmstMod = Second
    /\ mdHeard[1].form = "tool" => mdJson.imme
    /\ (\A i \in DOMAIN mdMeta : mdMeta[i].lsnr <= mdMeta[1].lsnr)
         => mdTo = mdHeard[1].meta.gatewayId

\* The reply fits the reception that was reported first: in data rate and
\* modulation, through both text forms, in time, and in the place it goes to.
ReplyFitsReception == ReportsKept /\ ReplyModulated /\ ReplyOneSecondLater

\* Violated: "@param receivedTime time when gateway received, microseconds,
\* internal counter" (utillora.cpp:2558): the reply is timed by the counter of the
\* gateway that is to send it.
ReplyOnSendersClock ==
  mdStage = "tx" /\ (\A i \in DOMAIN mdHeard : mdHeard[i].form = "protocol" /\ mdHeard[i].meta.tmst # 0) =>
    \A i \in DOMAIN mdHeard :
      mdHeard[i].meta.gatewayId = mdTo => (mdJson.tmst.v - mdHeard[i].meta.tmst) % TmstMod = Second
=============================================================================
