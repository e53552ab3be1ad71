------------------------- MODULE RegionalParameters --------------------------
(***************************************************************************)
(* Channel plans: the event handler that reads regional-parameters.json    *)
(* (regional-parameter-channel-plan-file-json.cpp), the plans and what     *)
(* toJsonString() writes of them (regional-parameter-channel-plan.cpp),    *)
(* the indices, and the plan the server takes (device-channel-plan.cpp).   *)
(* The text of a file is the sequence of events the JSON reader makes of   *)
(* it; one step feeds one event to the handler.                            *)
(***************************************************************************)
EXTENDS Integers, SequencesExt

CONSTANTS RbFiles,       \* contents of a file: sequences of plans
          RbRateSize,    \* DATA_RATE_SIZE
          RbOffsetMax,   \* TX_POWER_OFFSET_MAX_SIZE
          RbNames        \* names the configuration may ask for

VARIABLES rbFile,        \* what was written to the file
          rbEvents,      \* events still to be read
          rbHandler,     \* RegionBandsJsonHandler and the storage it fills
          rbLoad,        \* "reading", "ok", "error" or "crash"
          rbPlan         \* index of the plan of the server, 0: none chosen yet

rbVars == <<rbFile, rbEvents, rbHandler, rbLoad, rbPlan>>

(***************************************************************************)
(* Attributes by the state in which the handler takes them.                *)
(***************************************************************************)
BandInts == {"id", "maxUplinkEIRP", "defaultDownlinkTXPower", "pingSlotFrequency"}
BandBools == {"implementsTXParamSetup", "supportsExtraChannels", "defaultRegion"}
BandStrings == {"name", "cn"}
DefaultInts == {"RX2Frequency", "RX2DataRate", "ReceiveDelay1", "ReceiveDelay2",
                "JoinAcceptDelay1", "JoinAcceptDelay2"}
RateInts == {"bandwidth", "spreadingFactor", "bps"}
RateBools == {"uplink", "downlink"}
SizeInts == {"m", "n"}
ChannelInts == {"frequency", "minDR", "maxDR"}
ChannelBools == {"enabled", "custom"}
Arrays == {"dataRates", "uplinkChannels", "downlinkChannels", "maxPayloadSizePerDataRate",
           "maxPayloadSizePerDataRateRepeater", "rx1DataRateOffsets", "txPowerOffsets"}
Attributes == {"regionalParametersVersion", "RegionBands", "bandDefaults", "modulation"}
    \cup BandInts \cup BandBools \cup BandStrings \cup DefaultInts \cup RateInts
    \cup RateBools \cup SizeInts \cup ChannelInts \cup ChannelBools \cup Arrays

\* Bandwidths in units of 100 Hz, as BANDWIDTH2String() writes them; the reader
\* cuts them to whole kHz and int2BANDWIDTH() takes what it does not know for 7.
BANDWIDTH2String == <<78, 104, 156, 208, 312, 416, 625, 1250, 2500, 5000>>
int2BANDWIDTH(tenths) ==
    LET found == {i \in 1 .. 10 : BANDWIDTH2String[i] \div 10 = tenths \div 10}
    IN IF found = {} THEN 1 ELSE CHOOSE i \in found : TRUE

\* maxUplinkEIRP is a float: hundredths of a dBm here, written with a decimal
\* point only when it is not a whole number.
EIRPKind(hundredths) == IF hundredths % 100 = 0 THEN "int" ELSE "double"

\* The cast to int8_t.
Int8(v) == ((v + 128) % 256) - 128

\* Casts to uint8_t; a modulation that is not FSK is LORA.
Cast(key, v) == CASE key \in {"id", "m", "n"} -> v % 256
                  [] key = "bandwidth" -> int2BANDWIDTH(v)
                  [] key = "modulation" -> IF v = "FSK" THEN "FSK" ELSE "LORA"
                  [] OTHER -> v

PlanAttrs == BandInts \cup DefaultInts \cup BandBools \cup BandStrings
Blank == ""
Version == "1.0.3"
NewRate == [uplink |-> TRUE, downlink |-> TRUE, modulation |-> "LORA", bandwidth |-> 8,
            spreadingFactor |-> 11, bps |-> 0]
NewChannel == [frequency |-> 0, minDR |-> 0, maxDR |-> 0, enabled |-> TRUE, custom |-> FALSE]
NewPlan == [attr |-> [k \in PlanAttrs |->
                        IF k \in BandBools THEN FALSE ELSE IF k \in BandStrings THEN Blank ELSE 0],
            rates |-> [i \in 1 .. RbRateSize |-> NewRate],
            sizes |-> [i \in 1 .. RbRateSize |-> [m |-> 0, n |-> 0]],
            repeater |-> [i \in 1 .. RbRateSize |-> [m |-> 0, n |-> 0]],
            rx1 |-> [i \in 1 .. RbRateSize |-> <<>>],
            offsets |-> <<>>, up |-> <<>>, down |-> <<>>]

(***************************************************************************)
(* What a plan can hold (regional-parameter-channel-plan.h): arrays of     *)
(* DATA_RATE_SIZE elements, numbers of their width, one of the bandwidths  *)
(* above, and no more offsets than setTxPowerOffsets() takes.              *)
(***************************************************************************)
Rates == [uplink : BOOLEAN, downlink : BOOLEAN, modulation : {"LORA", "FSK"},
          bandwidth : 1 .. 10, spreadingFactor : Int, bps : Int]
Channels == [frequency : Int, minDR : Int, maxDR : Int, enabled : BOOLEAN, custom : BOOLEAN]
Sizes == [m : 0 .. 255, n : 0 .. 255]
AttrOK(f) ==
    /\ f = [k \in PlanAttrs |-> f[k]]
    /\ f["id"] \in 0 .. 255
    /\ \A k \in BandInts \cup DefaultInts : f[k] \in Int
    /\ \A k \in BandBools : f[k] \in BOOLEAN
    /\ \A k \in BandStrings : f[k] \in STRING
PlanOK(p) ==
    /\ p = [attr |-> p.attr, rates |-> p.rates, sizes |-> p.sizes, repeater |-> p.repeater,
            rx1 |-> p.rx1, offsets |-> p.offsets, up |-> p.up, down |-> p.down]
    /\ AttrOK(p.attr)
    /\ p.rates \in Seq(Rates) /\ Len(p.rates) = RbRateSize
    /\ p.sizes \in Seq(Sizes) /\ Len(p.sizes) = RbRateSize
    /\ p.repeater \in Seq(Sizes) /\ Len(p.repeater) = RbRateSize
    /\ p.rx1 \in Seq(Seq(0 .. 255)) /\ Len(p.rx1) = RbRateSize
    /\ p.offsets \in Seq(-128 .. 127) /\ Len(p.offsets) <= RbOffsetMax
    /\ p.up \in Seq(Channels) /\ p.down \in Seq(Channels)

ASSUME RbAssumption ==
    /\ RbRateSize \in Nat /\ RbOffsetMax \in Nat
    /\ \A file \in RbFiles : Len(file) \in Nat /\ \A i \in 1 .. Len(file) : PlanOK(file[i])

(***************************************************************************)
(* The writer: toJsonString() of the plans, in its order.                  *)
(***************************************************************************)
Ev(kind, v) == <<[ev |-> kind, v |-> v]>>
Member(key, events) == Ev("key", key) \o events
List(items) == Ev("[", Blank) \o FlattenSeq(items) \o Ev("]", Blank)
Object(members) == Ev("{", Blank) \o FlattenSeq(members) \o Ev("}", Blank)
Scalars(kind, keys, f) == [i \in 1 .. Len(keys) |-> Member(keys[i], Ev(kind, f[keys[i]]))]

WriteRate(r) == Object(Scalars("bool", <<"uplink", "downlink">>, r)
    \o <<Member("modulation", Ev("string", r.modulation)),
         Member("bandwidth", LET v == BANDWIDTH2String[r.bandwidth]
                             IN Ev(IF v % 10 = 0 THEN "int" ELSE "double", v))>>
    \o Scalars("int", <<"spreadingFactor", "bps">>, r))
WriteChannel(c) == Object(Scalars("int", <<"frequency", "minDR", "maxDR">>, c)
    \o Scalars("bool", <<"enabled", "custom">>, c))
WriteSize(s) == Object(Scalars("int", <<"m", "n">>, s))
Each(Write(_), s) == List([i \in 1 .. Len(s) |-> Write(s[i])])
WriteInt(n) == Ev("int", n)
WriteInts(s) == Each(WriteInt, s)

WritePlan(p) == Object(
       Scalars("int", <<"id">>, p.attr) \o Scalars("string", <<"name", "cn">>, p.attr)
    \o Scalars("bool", <<"implementsTXParamSetup">>, p.attr)
    \o Scalars(EIRPKind(p.attr["maxUplinkEIRP"]), <<"maxUplinkEIRP">>, p.attr)
    \o Scalars("int", <<"pingSlotFrequency", "defaultDownlinkTXPower">>, p.attr)
    \o Scalars("bool", <<"supportsExtraChannels", "defaultRegion">>, p.attr)
    \o <<Member("bandDefaults", Object(Scalars("int", <<"RX2Frequency", "RX2DataRate",
            "ReceiveDelay1", "ReceiveDelay2", "JoinAcceptDelay1", "JoinAcceptDelay2">>, p.attr))),
         Member("dataRates", Each(WriteRate, p.rates)),
         Member("uplinkChannels", Each(WriteChannel, p.up)),
         Member("downlinkChannels", Each(WriteChannel, p.down)),
         Member("maxPayloadSizePerDataRate", Each(WriteSize, p.sizes)),
         Member("maxPayloadSizePerDataRateRepeater", Each(WriteSize, p.repeater)),
         Member("rx1DataRateOffsets", Each(WriteInts, p.rx1)),
         Member("txPowerOffsets", WriteInts(p.offsets))>>)

PlansToJson(plans) == Object(<<Member("regionalParametersVersion", Ev("string", Version)),
                                Member("RegionBands", Each(WritePlan, plans))>>)

(***************************************************************************)
(* The handler.  A state is named after the attribute it is in; "[]" after *)
(* a name is an element of the array.                                      *)
(***************************************************************************)
NewHandler == [state |-> "none", key |-> Blank, prev |-> "none", rates |-> 0, sizes |-> 0,
               repeater |-> 0, rx1 |-> 0, offsets |-> 0, bands |-> <<>>, result |-> "ok"]
Fail(h) == [h EXCEPT !.result = "error"]
Last1(h) == Len(h.bands)
InBand(h) == h.bands # <<>>

\* value->storage.bands.back() with one attribute set.
SetAttr(h, v) == [h EXCEPT !.bands[Last1(h)].attr[h.key] = Cast(h.key, v)]

\* The reader of a rate counts when the object begins, the other readers when
\* the element ends, and each of them refuses an element past the array.
SetRate(h, v) ==
    IF ~InBand(h) \/ h.rates > RbRateSize THEN Fail(h)
    ELSE [h EXCEPT !.bands[Last1(h)].rates[h.rates][h.key] = Cast(h.key, v)]
SetSize(h, v) ==
    IF ~InBand(h) \/ h.key \notin SizeInts THEN Fail(h)
    ELSE CASE h.state = "sizes[]" -> IF h.sizes >= RbRateSize THEN Fail(h)
                 ELSE [h EXCEPT !.bands[Last1(h)].sizes[h.sizes + 1][h.key] = Cast(h.key, v)]
           [] OTHER -> IF h.repeater >= RbRateSize THEN Fail(h)
                 ELSE [h EXCEPT !.bands[Last1(h)].repeater[h.repeater + 1][h.key] = Cast(h.key, v)]
SetChannel(h, v) ==
    LET b == h.bands[Last1(h)]
    IN IF ~InBand(h) \/ h.key \notin ChannelInts THEN Fail(h)
       ELSE IF h.prev = "up" THEN [h EXCEPT !.bands[Last1(h)].up[Len(b.up)][h.key] = v]
       ELSE [h EXCEPT !.bands[Last1(h)].down[Len(b.down)][h.key] = v]

Integer(h, v) ==
    CASE h.state = "offsets" -> IF ~InBand(h) \/ h.offsets >= RbOffsetMax THEN Fail(h)
              ELSE [h EXCEPT !.bands[Last1(h)].offsets = Append(@, Int8(v)), !.offsets = @ + 1]
      [] h.state = "rx1[]" -> IF ~InBand(h) \/ h.rx1 >= RbRateSize THEN Fail(h)
              ELSE [h EXCEPT !.bands[Last1(h)].rx1[h.rx1 + 1] = Append(@, v % 256)]
      [] h.state = "bandDefaults" /\ InBand(h) /\ h.key \in DefaultInts -> SetAttr(h, v)
      [] h.state = "band" /\ InBand(h) /\ h.key \in BandInts -> SetAttr(h, v)
      [] h.state = "channel" -> SetChannel(h, v)
      [] h.state \in {"sizes[]", "repeater[]"} -> SetSize(h, v)
      [] h.state = "rates[]" /\ h.key \in RateInts -> SetRate(h, v)
      [] OTHER -> Fail(h)

\* The flags of a channel go to the last uplink channel, whichever array the
\* channel is in; when there is none the program writes through a null vector.
SetChannelFlag(h, v) ==
    LET b == h.bands[Last1(h)]
    IN IF h.state # "channel" \/ ~InBand(h) THEN Fail(h)
       ELSE IF b.up = <<>> THEN [h EXCEPT !.result = "crash"]
       ELSE [h EXCEPT !.bands[Last1(h)].up[Len(b.up)][h.key] = v]

\* The three flags of a band are taken in any state.
Bool(h, v) ==
    CASE h.key \in BandBools /\ InBand(h) -> SetAttr(h, v)
      [] h.key \in RateBools /\ h.state = "rates[]" -> SetRate(h, v)
      [] h.key \in ChannelBools -> SetChannelFlag(h, v)
      [] OTHER -> Fail(h)

Double(h, v) ==
    CASE h.state = "band" /\ h.key = "maxUplinkEIRP" /\ InBand(h) -> SetAttr(h, v)
      [] h.state = "rates[]" /\ h.key = "bandwidth" -> SetRate(h, v)
      [] OTHER -> Fail(h)

String(h, v) ==
    CASE h.key = "regionalParametersVersion" /\ h.state = "root" -> h
      [] h.key \in BandStrings /\ h.state = "band" /\ InBand(h) -> SetAttr(h, v)
      [] h.key = "modulation" /\ h.state = "rates[]" -> SetRate(h, v)
      [] OTHER -> Fail(h)

\* Mutant: the counters go on from the plan before.
ResetCountsNot(h) == h

\* The counters of a plan are cleared where its bandDefaults begins.
ResetCounts(h) == [h EXCEPT !.rates = 0, !.sizes = 0, !.repeater = 0, !.rx1 = 0, !.offsets = 0]

StartObject(h) ==
    CASE h.state = "none" -> [h EXCEPT !.state = "root"]
      [] h.state = "RegionBands" -> [h EXCEPT !.state = "band", !.bands = Append(@, NewPlan)]
      [] h.state = "band" /\ h.key = "bandDefaults" ->
             [ResetCounts(h) EXCEPT !.state = "bandDefaults"]
      [] h.state = "rates" -> [h EXCEPT !.state = "rates[]", !.rates = @ + 1]
      [] h.state = "sizes" -> [h EXCEPT !.state = "sizes[]"]
      [] h.state = "repeater" -> [h EXCEPT !.state = "repeater[]"]
      [] h.state = "up" -> [h EXCEPT !.state = "channel",
                                     !.bands[Last1(h)].up = Append(@, NewChannel)]
      [] h.state = "down" -> [h EXCEPT !.state = "channel",
                                       !.bands[Last1(h)].down = Append(@, NewChannel)]
      [] OTHER -> Fail(h)

EndObject(h) ==
    CASE h.state = "band" -> [h EXCEPT !.state = "RegionBands"]
      [] h.state = "root" -> [h EXCEPT !.state = "none"]
      [] h.state = "bandDefaults" -> [h EXCEPT !.state = "band"]
      [] h.state = "rates[]" -> [h EXCEPT !.state = "rates"]
      [] h.state = "sizes[]" -> [h EXCEPT !.state = "sizes", !.sizes = @ + 1]
      [] h.state = "repeater[]" -> [h EXCEPT !.state = "repeater", !.repeater = @ + 1]
      [] h.state = "channel" -> [h EXCEPT !.state = h.prev]
      [] OTHER -> Fail(h)

ArrayState == [dataRates |-> "rates", uplinkChannels |-> "up", downlinkChannels |-> "down",
               maxPayloadSizePerDataRate |-> "sizes",
               maxPayloadSizePerDataRateRepeater |-> "repeater",
               rx1DataRateOffsets |-> "rx1", txPowerOffsets |-> "offsets"]
StartArray(h) ==
    CASE h.state = "root" /\ h.key = "RegionBands" -> [h EXCEPT !.state = "RegionBands"]
      [] h.state = "band" /\ h.key \in Arrays ->
             LET s == ArrayState[h.key]
             IN [h EXCEPT !.state = s, !.prev = IF s \in {"up", "down"} THEN s ELSE @]
      [] h.state = "rx1" -> [h EXCEPT !.state = "rx1[]"]
      [] OTHER -> Fail(h)

EndArray(h) ==
    CASE h.state = "root" -> h
      [] h.state = "band" -> [h EXCEPT !.state = "RegionBands"]
      [] h.state = "RegionBands" -> [h EXCEPT !.state = "root"]
      [] h.state = "rx1[]" -> [h EXCEPT !.state = "rx1", !.rx1 = @ + 1]
      [] h.state \in {ArrayState[k] : k \in Arrays} -> [h EXCEPT !.state = "band"]
      [] OTHER -> Fail(h)

Key(h, k) == IF k \in Attributes THEN [h EXCEPT !.key = k] ELSE Fail(h)

Handle(h, e) ==
    CASE e.ev = "int" -> Integer(h, e.v) [] e.ev = "bool" -> Bool(h, e.v)
      [] e.ev = "double" -> Double(h, e.v) [] e.ev = "string" -> String(h, e.v)
      [] e.ev = "{" -> StartObject(h) [] e.ev = "}" -> EndObject(h)
      [] e.ev = "[" -> StartArray(h) [] e.ev = "]" -> EndArray(h)
      [] OTHER -> Key(h, e.v)

(***************************************************************************)
(* The indices and the plan of the server.  0 is the null pointer.         *)
(***************************************************************************)
LastOf(s, Test(_)) == LET found == {i \in 1 .. Len(s) : Test(s[i])}
                      IN IF found = {} THEN 0 ELSE Max(found)
defaultRegionBand(bands) ==
    LET marked == LastOf(bands, LAMBDA b : b.attr["defaultRegion"])
    IN IF marked # 0 THEN marked ELSE IF bands = <<>> THEN 0 ELSE 1
getByName(bands, name) ==
    LET found == LastOf(bands, LAMBDA b : b.attr["name"] = name)
    IN IF found # 0 THEN found ELSE defaultRegionBand(bands)
getById(bands, id) ==
    LET found == LastOf(bands, LAMBDA b : b.attr["id"] = id)
    IN IF found # 0 THEN found ELSE defaultRegionBand(bands)

\* setDefaultPlanName(), which falls back to id 0 when there is no plan at all.
setDefaultPlanName(bands, name) ==
    LET p == getByName(bands, name) IN IF p = 0 THEN 0 ELSE bands[p].attr["id"]

-----------------------------------------------------------------------------
RbInit ==
    /\ rbFile \in RbFiles
    /\ rbEvents = PlansToJson(rbFile)
    /\ rbHandler = NewHandler
    /\ rbLoad = "reading"
    /\ rbPlan = 0

ReadEvent ==
    /\ rbLoad = "reading"
    /\ rbEvents # <<>>
    /\ rbHandler' = Handle(rbHandler, Head(rbEvents))
    /\ rbEvents' = Tail(rbEvents)
    /\ rbLoad' = IF rbHandler'.result = "ok" THEN "reading" ELSE rbHandler'.result
    /\ UNCHANGED <<rbFile, rbPlan>>

\* A file that ends early is an error of the JSON reader.
Truncated ==
    /\ rbLoad = "reading"
    /\ rbEvents # <<>>
    /\ rbLoad' = "error"
    /\ UNCHANGED <<rbFile, rbEvents, rbHandler, rbPlan>>

\* load(): buildIndex() refuses a file without plans.
BuildIndex ==
    /\ rbLoad = "reading"
    /\ rbEvents = <<>>
    /\ rbLoad' = IF rbHandler.bands = <<>> THEN "error" ELSE "ok"
    /\ UNCHANGED <<rbFile, rbEvents, rbHandler, rbPlan>>

\* RunListener::init(): the server exits when load() fails, else it takes the
\* plan of the name in the configuration; an empty name leaves identifier 0.
ChoosePlan(name) ==
    /\ rbLoad = "ok"
    /\ rbPlan = 0
    /\ rbPlan' = LET id == IF name = Blank THEN 0 ELSE setDefaultPlanName(rbHandler.bands, name)
                 IN getById(rbHandler.bands, id)
    /\ UNCHANGED <<rbFile, rbEvents, rbHandler, rbLoad>>

RbNext == ReadEvent \/ Truncated \/ BuildIndex \/ \E n \in RbNames : ChoosePlan(n)

RbSpec == RbInit /\ [][RbNext]_rbVars

-----------------------------------------------------------------------------
\* The flags of channels aside, which the reader mixes up.
NoFlags(p) == LET plain(s) == [i \in 1 .. Len(s) |-> [s[i] EXCEPT !.enabled = TRUE, !.custom = FALSE]]
              IN [p EXCEPT !.up = plain(@), !.down = plain(@)]

(***************************************************************************)
(* A file that toJsonString() wrote is read back: every plan has every     *)
(* attribute, data rate, payload size, offset and channel it had, each in  *)
(* its place (the counters start again for every plan), and the flags of   *)
(* uplink channels too when no downlink channel follows.  It is never      *)
(* refused on the way, and only a plan with downlink channels and without  *)
(* uplink channels can break the reader.                                   *)
(***************************************************************************)
PlansReadBack ==
    /\ rbHandler.result # "error"
    /\ rbHandler.result = "crash" => \E i \in 1 .. Len(rbFile) :
                                        rbFile[i].up = <<>> /\ rbFile[i].down # <<>>
    /\ rbLoad = "ok" =>
        /\ [i \in 1 .. Len(rbHandler.bands) |-> NoFlags(rbHandler.bands[i])]
              = [i \in 1 .. Len(rbFile) |-> NoFlags(rbFile[i])]
        /\ \A i \in 1 .. Len(rbFile) :
              rbFile[i].down = <<>> => rbHandler.bands[i].up = rbFile[i].up
=============================================================================
