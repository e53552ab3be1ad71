---------------------------- MODULE MacCommands -----------------------------
(***************************************************************************)
(* MAC commands: the structures of lorawan-mac.h as tables of bit fields,  *)
(* MacData::set(), the encoding in memory, the parsers, the JSON output.   *)
(* "Client side" commands are sent by the gateway, "server side" ones by   *)
(* the end-device.  The time of day is abstracted to 1.                    *)
(***************************************************************************)
EXTENDS Integers, Sequences, SequencesExt

Code == [Reset |-> 1, LinkCheck |-> 2, LinkADR |-> 3, DutyCycle |-> 4,
         RXParamSetup |-> 5, DevStatus |-> 6, NewChannel |-> 7,
         RXTimingSetup |-> 8, TXParamSetup |-> 9, DLChannel |-> 10,
         Rekey |-> 11, ADRParamSetup |-> 12, DeviceTime |-> 13,
         ForceRejoin |-> 14, RejoinParamSetup |-> 15, PingSlotInfo |-> 16,
         PingSlotChannel |-> 17, BeaconTiming |-> 18, BeaconFreq |-> 19,
         DeviceMode |-> 32]

Cids == DOMAIN Code

F(name, bits) == [name |-> name, bits |-> bits]

\* The structures of commands 1 to 0xa: fields from the lowest bit up.
MacStructs1 ==
  [EMPTY           |-> <<>>,
   RESET           |-> <<F("minor", 4), F("rfu", 4)>>,
   LINK_CHECK      |-> <<F("margin", 8), F("gwcnt", 8)>>,
   LINK_ADR_REQ    |-> <<F("txpower", 4), F("datarate", 4), F("chmask", 16),
                         F("nbtans", 4), F("chmaskcntl", 3), F("rfu", 1)>>,
   LINK_ADR_RESP   |-> <<F("channelmaskack", 1), F("datarateack", 1),
                         F("powerack", 1), F("rfu", 5)>>,
   DUTY_CYCLE      |-> <<F("maxdccycle", 4), F("rfu", 4)>>,
   RXPARAM_REQ     |-> <<F("rx2datatrate", 4), F("rx1droffset", 3), F("rfu", 1),
                         F("frequency", 24)>>,
   RXPARAM_RESP    |-> <<F("channelack", 1), F("rx2datatrateack", 1),
                         F("rx1droffsetack", 1), F("rfu", 5)>>,
   DEVSTATUS       |-> <<F("battery", 8), F("margin", 8)>>,
   NEWCHANNEL_REQ  |-> <<F("chindex", 8), F("frequency", 24), F("mindr", 4),
                         F("maxdr", 4)>>,
   NEWCHANNEL_RESP |-> <<F("channelfrequencyack", 1), F("datarateack", 1),
                         F("rfu", 6)>>,
   TIMINGSETUP     |-> <<F("delay", 4), F("rfu", 4)>>,
   TXPARAMSETUP    |-> <<F("maxeirp", 4), F("uplinkdwelltime", 1),
                         F("downlinkdwelltime", 1), F("rfu", 2)>>,
   DLCHANNEL_REQ   |-> <<F("chindex", 8), F("frequency", 24)>>,
   DLCHANNEL_RESP  |-> <<F("channelfrequencyack", 1),
                         F("uplinkfrequencyexistsack", 1), F("rfu", 6)>>]

\* Commands 0xb to 0x20.  MAC_REKEY_RESP has its one byte as `version'; set()
\* and the JSON output use it as minor and rfu.
MacStructs2 ==
  [REKEY             |-> <<F("minor", 4), F("rfu", 4)>>,
   ADRPARAMSETUP     |-> <<F("delayexp", 4), F("limitexp", 4)>>,
   DEVICETIME        |-> <<F("gpstime", 32), F("frac", 8)>>,
   FORCEREJOIN       |-> <<F("dr", 4), F("rejointype", 3), F("rfu", 1),
                           F("maxretries", 3), F("period", 3), F("rfu2", 2)>>,
   REJOINPARAM_REQ   |-> <<F("maxccount", 4), F("maxtime", 4)>>,
   REJOINPARAM_RESP  |-> <<F("timeack", 1), F("rfu", 7)>>,
   PINGSLOTINFO      |-> <<F("periodicity", 3), F("rfu", 5)>>,
   PINGCHANNEL_REQ   |-> <<F("dr", 4), F("rfu", 4), F("frequency", 24)>>,
   PINGCHANNEL_RESP  |-> <<F("frequencyack", 1), F("drack", 1), F("rfu", 6)>>,
   BEACONTIMING      |-> <<F("channel", 8), F("delay", 16)>>,
   BEACONFREQ_REQ    |-> <<F("frequency", 24)>>,
   BEACONFREQ_RESP   |-> <<F("frequencyack", 1), F("rfu", 7)>>,
   DEVICEMODE        |-> <<F("cl", 8)>>]

Fields(s) == IF s \in DOMAIN MacStructs1 THEN MacStructs1[s] ELSE MacStructs2[s]

\* The structure that parseClientSide() and commandSize() give a command.
ClientSide ==
  [Reset |-> "RESET", LinkCheck |-> "LINK_CHECK", LinkADR |-> "LINK_ADR_REQ",
   DutyCycle |-> "DUTY_CYCLE", RXParamSetup |-> "RXPARAM_REQ",
   DevStatus |-> "EMPTY", NewChannel |-> "NEWCHANNEL_REQ",
   RXTimingSetup |-> "TIMINGSETUP", TXParamSetup |-> "TXPARAMSETUP",
   DLChannel |-> "DLCHANNEL_REQ", Rekey |-> "REKEY",
   ADRParamSetup |-> "ADRPARAMSETUP", DeviceTime |-> "DEVICETIME",
   ForceRejoin |-> "FORCEREJOIN", RejoinParamSetup |-> "REJOINPARAM_REQ",
   PingSlotInfo |-> "EMPTY", PingSlotChannel |-> "PINGCHANNEL_REQ",
   BeaconTiming |-> "BEACONTIMING", BeaconFreq |-> "BEACONFREQ_REQ",
   DeviceMode |-> "DEVICEMODE"]

\* The same for parseServerSide().
ServerSide ==
  [Reset |-> "RESET", LinkADR |-> "LINK_ADR_RESP", RXParamSetup |-> "RXPARAM_RESP",
   DevStatus |-> "DEVSTATUS", NewChannel |-> "NEWCHANNEL_RESP",
   DLChannel |-> "DLCHANNEL_RESP", Rekey |-> "REKEY",
   RejoinParamSetup |-> "REJOINPARAM_RESP", PingSlotInfo |-> "PINGSLOTINFO",
   PingSlotChannel |-> "PINGCHANNEL_RESP", BeaconFreq |-> "BEACONFREQ_RESP",
   DeviceMode |-> "DEVICEMODE",
   LinkCheck |-> "EMPTY", DutyCycle |-> "EMPTY", RXTimingSetup |-> "EMPTY",
   TXParamSetup |-> "EMPTY", ADRParamSetup |-> "EMPTY", DeviceTime |-> "EMPTY",
   ForceRejoin |-> "EMPTY", BeaconTiming |-> "EMPTY"]

FieldsOf(cid, client) == Fields(IF client THEN ClientSide[cid] ELSE ServerSide[cid])

\* The sum of a sequence of numbers.
Total(s) ==
  LET sum[n \in 0 .. Len(s)] == IF n = 0 THEN 0 ELSE sum[n - 1] + s[n]
  IN  sum[Len(s)]

Bits(fs) == Total([i \in 1 .. Len(fs) |-> fs[i].bits])

\* commandSize(): what MacData::size() and toString() count.
commandSize(cid, client) == 1 + Bits(FieldsOf(cid, client)) \div 8

(***************************************************************************)
(* MacData::set(): which of the values goes into which field.              *)
(***************************************************************************)
\* end device side (sent by gateway)
ClientParams ==
  [LinkCheck |-> <<"margin", "gwcnt">>,
   LinkADR |-> <<"txpower", "datarate", "chmask", "nbtans", "chmaskcntl">>,
   DutyCycle |-> <<"maxdccycle">>,
   RXParamSetup |-> <<"frequency", "rx1droffset", "rx2datatrate">>,
   NewChannel |-> <<"chindex", "frequency", "mindr", "maxdr">>,
   RXTimingSetup |-> <<"delay">>,
   TXParamSetup |-> <<"downlinkdwelltime", "uplinkdwelltime", "maxeirp">>,
   DLChannel |-> <<"chindex", "frequency">>,
   ADRParamSetup |-> <<"limitexp", "delayexp">>,
   ForceRejoin |-> <<"period", "maxretries", "rejointype">>,
   RejoinParamSetup |-> <<"maxtime", "maxccount">>,
   PingSlotChannel |-> <<"frequency", "dr">>,
   BeaconTiming |-> <<"delay", "channel">>,
   BeaconFreq |-> <<"frequency">>, DeviceMode |-> <<"cl">>]

\* server-side (sent by end-device)
ServerParams ==
  [LinkADR |-> <<"powerack", "datarateack", "channelmaskack">>,
   RXParamSetup |-> <<"rx1droffsetack", "rx2datatrateack", "channelack">>,
   DevStatus |-> <<"battery", "margin">>,
   NewChannel |-> <<"channelfrequencyack", "datarateack">>,
   DLChannel |-> <<"channelfrequencyack", "uplinkfrequencyexistsack">>,
   RejoinParamSetup |-> <<"timeack">>, PingSlotInfo |-> <<"periodicity">>,
   PingSlotChannel |-> <<"drack", "frequencyack">>,
   BeaconFreq |-> <<"frequencyack">>, DeviceMode |-> <<"cl">>]

Params(cid, client) ==
  LET t == IF client THEN ClientParams ELSE ServerParams
  IN  IF cid \in DOMAIN t THEN t[cid] ELSE <<>>

\* Fields that set() fills by itself; all others keep the zeros of MacData().
Preset(cid, client, name) ==
  \/ cid \in {"Reset", "Rekey"} /\ name = "minor"
  \/ cid = "DeviceTime" /\ client

\* Values are cut to the width of their field; too few values set nothing.
set(cid, values, client) ==
  LET fs == FieldsOf(cid, client)
      ps == Params(cid, client)
      Value(f) ==
        IF Preset(cid, client, f.name) THEN 1
        ELSE IF Len(values) >= Len(ps) /\ f.name \in Range(ps)
             THEN LET v == values[CHOOSE i \in DOMAIN ps : ps[i] = f.name]
                  IN  IF f.bits >= 31 THEN v ELSE v % 2^f.bits
             ELSE 0
  IN  [cid |-> cid, client |-> client,
       data |-> [i \in DOMAIN fs |-> Value(fs[i])]]

(***************************************************************************)
(* The bytes of a command.  A field lies within a byte or starts at one.   *)
(***************************************************************************)
Offset(fs, i) == Bits(SubSeq(fs, 1, i - 1))

\* What field i puts into data byte k (0 is the first).
Part(fs, data, i, k) ==
  LET o == Offset(fs, i)
      first == o \div 8
  IN  IF k = first THEN ((data[i] % 256) * 2^(o % 8)) % 256
      ELSE IF k \in first + 1 .. first + 3 /\ (k - first) * 8 < fs[i].bits
           THEN (data[i] \div 256^(k - first)) % 256 ELSE 0

\* MacData::toString()
toString(m) ==
  LET fs == FieldsOf(m.cid, m.client)
  IN  <<Code[m.cid]>> \o
      [k \in 1 .. commandSize(m.cid, m.client) - 1 |->
         Total([i \in 1 .. Len(fs) |-> Part(fs, m.data, i, k - 1)])]

\* The value of field i of a command in memory at position p.
FieldAt(fs, bytes, p, i) ==
  LET o == Offset(fs, i)
      b == p + 1 + o \div 8
  IN  IF fs[i].bits < 8 THEN (bytes[b] \div 2^(o % 8)) % 2^fs[i].bits
      ELSE Total([k \in 1 .. (IF fs[i].bits > 24 THEN 3 ELSE fs[i].bits \div 8) |->
                    bytes[b + k - 1] * 256^(k - 1)])

\* parseClientSide() and parseServerSide(): the size of the command at
\* position p of the payload with sz bytes left, or an error below 0.
TooShort == -542
Invalid  == -543

CidOf(b) == CHOOSE c \in Cids : Code[c] = b

\* Mutants of parseSide: a command that ends the payload is taken for cut off;
\* one that is cut off is not noticed.
parseSideStrict(b, sz, client) ==
  IF sz < 1 THEN TooShort
  ELSE IF \A c \in Cids : Code[c] # b THEN Invalid
  ELSE IF sz <= commandSize(CidOf(b), client) THEN TooShort
  ELSE commandSize(CidOf(b), client)

parseSideCut(b, sz, client) ==
  IF sz < 1 THEN TooShort
  ELSE IF \A c \in Cids : Code[c] # b THEN Invalid
  ELSE commandSize(CidOf(b), client)

parseSide(b, sz, client) ==
  IF sz < 1 THEN TooShort
  ELSE IF \A c \in Cids : Code[c] # b THEN Invalid
  ELSE IF sz < commandSize(CidOf(b), client) THEN TooShort
  ELSE commandSize(CidOf(b), client)

\* The command whose bytes begin at position p.
MacDataAt(bytes, p, client) ==
  LET cid == CidOf(bytes[p])
      fs  == FieldsOf(cid, client)
  IN  [cid |-> cid, client |-> client,
       data |-> [i \in DOMAIN fs |-> FieldAt(fs, bytes, p, i)]]

\* MacData(value, sentByGateway): what cannot be parsed is no command (errcode).
NoMac == [cid |-> "none", client |-> TRUE, data |-> <<>>]

MacData(bytes, client) ==
  IF parseSide(bytes[1], Len(bytes), client) < 0 THEN NoMac ELSE MacDataAt(bytes, 1, client)

\* MAC_DATA2JSONString(): the fields of a command that are not printed.
ClientNotPrinted == {<<"ForceRejoin", "dr">>}

ServerNotPrinted == {<<"NewChannel", "datarateack">>, <<"BeaconFreq", "rfu">>}

\* The fields printed.
Printed(m) ==
  LET fs   == FieldsOf(m.cid, m.client)
      hide == IF m.client THEN ClientNotPrinted ELSE ServerNotPrinted
  IN  {fs[i].name : i \in {k \in DOMAIN fs : <<m.cid, fs[k].name>> \notin hide}}

\* mkResponseMAC(): only a link check is answered.
mkResponseMAC(cid) == cid = "LinkCheck"

\* MAC_COMMANDResponse2binary(): the margin and the number of gateways.
AnswerSize(cid) == IF mkResponseMAC(cid) THEN commandSize("LinkCheck", TRUE) ELSE 0
=============================================================================
