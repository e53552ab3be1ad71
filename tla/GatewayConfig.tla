---------------------------- MODULE GatewayConfig ----------------------------
(***************************************************************************)
(* The settings of the USB gateway (gateway-file-json.cpp): the readers of *)
(* a JSON file, the writers of JSON and of C++ source, and the tool        *)
(* gateway-config2cpp.cpp that compiles files into the program.  A setting *)
(* is a row of a table that says in which object of the file it is, with   *)
(* which JSON type it is written and which test its reader makes; one      *)
(* radio, one channel and one element stand for all of their array, and    *)
(* numbers are taken to fit the width and the precision of their field.    *)
(* An integer stands for a double, as its digits without the point.        *)
(***************************************************************************)
EXTENDS Integers, FiniteSets

CONSTANTS GcNumbers     \* numbers a hand-written file may hold

ASSUME GcAssumption == \A n \in GcNumbers : n \in Nat /\ n <= 2147483647

VARIABLES gcFile,       \* the hand-written file: JSON value by setting
          gcConfig,     \* the settings parsed from it
          gcAgain,      \* the settings parsed from what toJSON() wrote
          gcCompiled,   \* the settings of a program compiled with toCpp()
          gcStage       \* "file", "parsed", "refused", "aborted", "written" or "done"

gcVars == <<gcFile, gcConfig, gcAgain, gcCompiled, gcStage>>

(***************************************************************************)
(* <<setting, object, written as, test of the reader>>                     *)
(***************************************************************************)
Sx1261Rows == {
    <<"spi_path", "sx1261_conf", "string", "string">>, <<"rssi_offset", "sx1261_conf", "int", "int">>,
    <<"scan", "spectral_scan", "bool", "bool">>, <<"freq_start", "spectral_scan", "uint", "uint">>,
    <<"nb_chan", "spectral_scan", "uint", "uint">>, <<"nb_scan", "spectral_scan", "uint", "uint">>,
    <<"pace_s", "spectral_scan", "uint", "uint">>,
    <<"lbt", "lbt", "bool", "bool">>, <<"rssi_target", "lbt", "int", "int">>,
    <<"lbt.channels", "lbt", "array", "array8">>, <<"lbt.freq_hz", "lbt", "uint", "uint">>,
    <<"lbt.bandwidth", "lbt", "bandwidth", "bandwidth">>,
    <<"scan_time_us", "lbt", "uint", "scantime">>, <<"transmit_time_ms", "lbt", "uint", "uint">>}
RadioRows == {
    <<"radio", "radio", "bool", "bool">>, <<"type", "radio", "string", "radiotype">>,
    <<"freq", "radio", "uint", "uint">>, <<"radio.rssi_offset", "radio", "double", "number">>,
    <<"coeff_a", "radio", "double", "number">>, <<"coeff_b", "radio", "double", "number">>,
    <<"coeff_c", "radio", "double", "number">>, <<"coeff_d", "radio", "double", "number">>,
    <<"coeff_e", "radio", "double", "number">>, <<"single_input_mode", "radio", "bool", "bool">>,
    <<"tx_enable", "radio", "bool", "bool">>, <<"tx_freq_min", "radio", "uint", "uint">>,
    <<"tx_freq_max", "radio", "uint", "uint">>, <<"tx_gain_lut", "radio", "array", "array">>,
    <<"pwr_idx", "radio", "uint", "uint">>, <<"rf_power", "radio", "int", "int">>,
    <<"pa_gain", "radio", "uint", "uint">>, <<"dig_gain", "radio", "uint", "uint">>,
    <<"dac_gain", "radio", "uint", "uint">>, <<"mix_gain", "radio", "uint", "uint">>}
BoardRows == {
    <<"com_type", "board", "string", "comtype">>, <<"com_path", "board", "string", "string">>,
    <<"lorawan_public", "board", "bool", "bool">>, <<"clksrc", "board", "uint", "uint">>,
    <<"full_duplex", "board", "bool", "bool">>, <<"antenna_gain", "board", "int", "int">>,
    <<"fine", "fine_timestamp", "bool", "bool">>, <<"mode", "fine_timestamp", "string", "mode">>,
    <<"spreading_factor_enable", "chan_multiSF_All", "factors", "factors">>,
    <<"multisf", "chan_multiSF", "bool", "bool">>, <<"multisf.radio", "chan_multiSF", "uint", "uint">>,
    <<"multisf.if", "chan_multiSF", "int", "int">>,
    <<"std", "chan_Lora_std", "bool", "bool">>, <<"std.radio", "chan_Lora_std", "uint", "uint">>,
    <<"std.if", "chan_Lora_std", "int", "int">>,
    <<"std.bandwidth", "chan_Lora_std", "bandwidth", "bandwidth">>,
    <<"spread_factor", "chan_Lora_std", "uint", "uint">>,
    <<"implicit_hdr", "chan_Lora_std", "bool", "bool">>,
    <<"implicit_payload_length", "implicit", "uint", "uint">>,
    <<"implicit_crc_en", "implicit", "bool", "bool">>, <<"implicit_coderate", "implicit", "uint", "uint">>,
    <<"fsk", "chan_FSK", "bool", "bool">>, <<"fsk.radio", "chan_FSK", "uint", "int">>,
    <<"fsk.if", "chan_FSK", "int", "uint">>, <<"fsk.bandwidth", "chan_FSK", "bandwidth", "fskwidth">>,
    <<"freq_deviation", "chan_FSK", "none", "uint">>, <<"datarate", "chan_FSK", "uint", "uint">>}
ServerRows == {
    <<"gateway_ID", "gateway_conf", "digits", "digits">>, <<"server_address", "gateway_conf", "string", "string">>,
    <<"serv_port_up", "gateway_conf", "uint", "uint">>, <<"serv_port_down", "gateway_conf", "uint", "uint">>,
    <<"keepalive_interval", "gateway_conf", "uint", "int">>, <<"stat_interval", "gateway_conf", "uint", "int">>,
    <<"push_timeout_ms", "gateway_conf", "uint", "int">>,
    <<"forward_crc_valid", "gateway_conf", "bool", "bool">>, <<"forward_crc_error", "gateway_conf", "bool", "bool">>,
    <<"forward_crc_disabled", "gateway_conf", "bool", "bool">>, <<"gps_tty_path", "gateway_conf", "string", "string">>,
    <<"ref_latitude", "gateway_conf", "double", "double">>, <<"ref_longitude", "gateway_conf", "double", "double">>,
    <<"ref_altitude", "gateway_conf", "int", "int">>, <<"fake_gps", "gateway_conf", "bool", "bool">>,
    <<"beacon_period", "gateway_conf", "uint", "int">>, <<"beacon_freq_hz", "gateway_conf", "uint", "int">>,
    <<"beacon_freq_nb", "gateway_conf", "uint", "int">>, <<"beacon_freq_step", "gateway_conf", "uint", "int">>,
    <<"beacon_datarate", "gateway_conf", "uint", "int">>, <<"beacon_bw_hz", "gateway_conf", "uint", "int">>,
    <<"beacon_power", "gateway_conf", "uint", "int">>, <<"beacon_infodesc", "gateway_conf", "uint", "int">>,
    <<"autoquit_threshold", "gateway_conf", "uint", "int">>}
DebugRows == {
    <<"log_file", "debug_conf", "string", "string">>, <<"ref_payload", "debug_conf", "array", "array8">>,
    <<"ref_payload.id", "debug_conf", "digits", "digits">>}

GcRows == Sx1261Rows \cup RadioRows \cup BoardRows \cup ServerRows \cup DebugRows
NamesOf(rows) == {r[1] : r \in rows}
Settings == NamesOf(GcRows)
GcRow == [f \in Settings |-> CHOOSE r \in GcRows : r[1] = f]
WriterOf(f) == GcRow[f][3]
TestOf(f) == GcRow[f][4]

\* The member of the object that must be there, or must be true, before the
\* others are read.
Enable == [spectral_scan |-> "scan", lbt |-> "lbt", chan_multiSF |-> "multisf",
           chan_Lora_std |-> "std", implicit |-> "implicit_hdr", chan_FSK |-> "fsk",
           radio |-> "radio", fine_timestamp |-> "fine"]
OnlyWhenTrue == {"radio", "fine_timestamp"}

\* Settings of the elements of an array: there are none in an empty one.
ElementOf(f) ==
    IF f \in {"lbt.freq_hz", "lbt.bandwidth", "scan_time_us", "transmit_time_ms"} THEN "lbt.channels"
    ELSE IF f \in {"pwr_idx", "rf_power", "pa_gain", "dig_gain", "dac_gain", "mix_gain"}
         THEN "tx_gain_lut" ELSE IF f = "ref_payload.id" THEN "ref_payload" ELSE f

(***************************************************************************)
(* JSON values.  "number" was written without and "double" with a decimal  *)
(* point; "huge" is a negative int written with SetUint(), "digits" a      *)
(* string that std::stoull() takes as a number, "string" one that it does  *)
(* not take, and "factors" an array of spreading factors.                  *)
(***************************************************************************)
GcJ(type, v) == <<type, v>>
TypeOf(j) == j[1]
ValueOf(j) == j[2]
NoMember == GcJ("absent", 0)
MaxElements == 16

\* lgw_conf_rxif_s bandwidth: 0 stands for BW_UNDEFINED; the writer gives 20 kHz
\* for it. The mutant writes kilohertz.
bandwidthIndex2hzKilo(b) == CASE b = 6 -> 500 [] b = 5 -> 250 [] b = 4 -> 125 [] OTHER -> 20
bandwidthIndex2hz(b) == CASE b = 6 -> 500000 [] b = 5 -> 250000 [] b = 4 -> 125000 [] OTHER -> 20000
hz2bandwidth(hz) == CASE hz = 500000 -> 6 [] hz = 250000 -> 5 [] hz = 125000 -> 4 [] OTHER -> 0
fsk2bandwidth(hz) == IF hz = 0 \/ hz > 500000 THEN 0
                     ELSE IF hz <= 125000 THEN 4 ELSE IF hz <= 250000 THEN 5 ELSE 6

\* reset(): what a setting is when its member is missing or of another type.
Default(f) ==
    CASE f \in {"keepalive_interval", "stat_interval"} -> 5
      [] f = "beacon_freq_hz" -> 869525000 [] f = "beacon_freq_nb" -> 1
      [] f = "beacon_datarate" -> 9 [] f = "beacon_bw_hz" -> 125000 [] f = "beacon_power" -> 14
      [] WriterOf(f) = "bool" -> FALSE
      [] f = "spreading_factor_enable" -> 5 .. 12
      [] f = "mode" -> "high_capacity" [] f \in {"type", "com_type"} -> "none"
      [] TestOf(f) = "string" -> ""
      [] OTHER -> 0

IsUint(j) == TypeOf(j) = "number" /\ ValueOf(j) >= 0

\* The size of the array of the file, cut to the array of the settings.
Clip(n) == IF n > MaxElements THEN MaxElements ELSE n

\* What a reader takes from a member, or its default.
Take(f, j) ==
    LET t == TestOf(f)
        unsigned == IsUint(j)
    IN CASE t = "bool" /\ TypeOf(j) = "bool" -> ValueOf(j)
         [] t \in {"int", "number"} /\ TypeOf(j) = "number" -> ValueOf(j)
         [] t \in {"number", "double"} /\ TypeOf(j) = "double" -> ValueOf(j)
         [] t = "uint" /\ unsigned -> ValueOf(j)
         [] t = "bandwidth" /\ unsigned -> hz2bandwidth(ValueOf(j))
         [] t = "fskwidth" /\ unsigned -> fsk2bandwidth(ValueOf(j))
         [] t = "scantime" /\ unsigned -> IF ValueOf(j) = 128 THEN 128 ELSE 5000
         [] t \in {"string", "digits"} /\ TypeOf(j) = t -> ValueOf(j)
            \* bits over those of the byte are lost
         [] t = "factors" /\ TypeOf(j) = "factors" -> ValueOf(j) \cap (5 .. 12)
         [] t = "comtype" /\ TypeOf(j) = "string" /\ ValueOf(j) \in {"SPI", "USB"} -> ValueOf(j)
         [] t = "mode" /\ TypeOf(j) = "string" /\ ValueOf(j) \in {"all_sf", "high_capacity"} -> ValueOf(j)
         [] t = "radiotype" /\ TypeOf(j) = "string" /\ ValueOf(j) \in {"SX1255", "SX1257", "SX1250"} -> ValueOf(j)
         [] t = "array" /\ TypeOf(j) = "array" -> Clip(ValueOf(j))
            \* the size goes through uint8_t before it is cut to the array
         [] t = "array8" /\ TypeOf(j) = "array" ->
                Clip(ValueOf(j) % 256)
         [] OTHER -> Default(f)

\* Without a bandwidth that of an FSK channel comes from the deviation.
fskBandwidth(doc) ==
    LET uint(f) == IF IsUint(doc[f]) THEN ValueOf(doc[f]) ELSE 0
    IN fsk2bandwidth(IF uint("fsk.bandwidth") = 0 /\ uint("freq_deviation") # 0
                     THEN 2 * uint("freq_deviation") + uint("datarate") ELSE uint("fsk.bandwidth"))

\* parse() of one setting, the conditions of its object included; without a
\* power index the mixer gain has no value of its own.
parseSetting(doc, f) ==
    LET object == GcRow[f][2]
        gate == IF object \in DOMAIN Enable THEN Enable[object] ELSE f
        open == /\ gate # f => doc[gate] # NoMember
                /\ gate # f /\ object \in OnlyWhenTrue => Take(gate, doc[gate])
                /\ ElementOf(f) # f => Take(ElementOf(f), doc[ElementOf(f)]) > 0
    IN IF ~open THEN Default(f)
       ELSE IF f = "mix_gain" /\ ~IsUint(doc[f]) /\ IsUint(doc["pwr_idx"]) THEN 5
       ELSE IF f = "fsk.bandwidth" THEN fskBandwidth(doc)
       ELSE Take(f, doc[f])

\* parse() of the four classes and of the file.
Joined(c, d) == [f \in DOMAIN c \cup DOMAIN d |-> IF f \in DOMAIN c THEN c[f] ELSE d[f]]
parseRows(doc, rows) == [f \in NamesOf(rows) |-> parseSetting(doc, f)]
parseSX1261(doc) == parseRows(doc, Sx1261Rows)
parseSX130x(doc) == parseRows(doc, RadioRows \cup BoardRows)
parseGateway(doc) == parseRows(doc, ServerRows)
parseDebug(doc) == parseRows(doc, DebugRows)
parseMembers(doc) == Joined(Joined(parseSX1261(doc), parseSX130x(doc)),
                            Joined(parseGateway(doc), parseDebug(doc)))

\* Switches that parse() sets from others.
Switches == {"sx1261.enable", "gpsEnabled"}
switchOf(c, f) == IF f = "gpsEnabled" THEN c["gps_tty_path"] # "" ELSE c["scan"] \/ c["lbt"]
withSwitches(c) == Joined(c, [f \in Switches |-> switchOf(c, f)])
parse(doc) == withSwitches(parseMembers(doc))

\* An unknown com_type refuses the file before gateway_conf is read; nobody
\* catches what std::stoull() throws.
Refuses(doc) == Take("com_type", doc["com_type"]) = "none"
Throws(doc) == \/ TypeOf(doc["gateway_ID"]) = "string"
               \/ /\ Take("ref_payload", doc["ref_payload"]) > 0
                  /\ TypeOf(doc["ref_payload.id"]) = "string"

\* toJSON() of one setting.
writeSetting(f, v) ==
    CASE WriterOf(f) = "bool" -> GcJ("bool", v)
      [] WriterOf(f) = "int" -> GcJ("number", v)
      [] WriterOf(f) = "uint" -> IF v < 0 THEN GcJ("huge", 0) ELSE GcJ("number", v)
      [] WriterOf(f) = "double" -> GcJ("double", v)
      [] WriterOf(f) = "bandwidth" -> GcJ("number", bandwidthIndex2hz(v))
      [] WriterOf(f) \in {"array", "factors", "digits"} -> GcJ(WriterOf(f), v)
      [] WriterOf(f) = "none" -> NoMember
      [] OTHER -> GcJ("string", v)

writeRows(c, rows) == [f \in NamesOf(rows) |->
    IF ElementOf(f) # f /\ c[ElementOf(f)] = 0 THEN NoMember ELSE writeSetting(f, c[f])]
toJSONSX1261(c) == writeRows(c, Sx1261Rows)
toJSONRadios(c) == writeRows(c, RadioRows)
toJSONBoard(c) == writeRows(c, BoardRows)
toJSONGateway(c) == writeRows(c, ServerRows)
toJSONDebug(c) == writeRows(c, DebugRows)
toJSON(c) == Joined(Joined(Joined(toJSONSX1261(c), toJSONRadios(c)), toJSONBoard(c)),
                    Joined(toJSONGateway(c), toJSONDebug(c)))

\* operator<< of a double: six significant digits, a tie goes to the even one.
SixthDigit(n) == IF n < 1000000 THEN 1 ELSE IF n < 10000000 THEN 10
                 ELSE IF n < 100000000 THEN 100 ELSE IF n < 1000000000 THEN 1000 ELSE 10000
Rounded(n) == LET u == SixthDigit(n)
                  r == n % u
              IN IF 2 * r < u \/ (2 * r = u /\ ((n - r) \div u) % 2 = 0) THEN n - r ELSE n - r + u
SixDigits(v) == IF v < 0 THEN 0 - Rounded(0 - v) ELSE Rounded(v)

\* toHeader() or toCpp(), after a memset(): a setting without a line is zero.
cppRows(c, rows, noLine) ==
    [f \in NamesOf(rows) |-> IF f \in noLine THEN 0
                             ELSE IF WriterOf(f) = "double" THEN SixDigits(c[f]) ELSE c[f]]
toCppSX1261(c) == cppRows(c, Sx1261Rows, {"rssi_target"})
\* Mutant: a line for the coding rate is forgotten.
toCppSX130xForgets(c) == cppRows(c, RadioRows \cup BoardRows, {"freq_deviation", "implicit_coderate"})
toCppSX130x(c) == cppRows(c, RadioRows \cup BoardRows, {"freq_deviation"})
toCppGateway(c) == cppRows(c, ServerRows, {"beacon_power"})
toCppDebug(c) == cppRows(c, DebugRows, {})
\* Neither switch has a line.
toCpp(c) == Joined(Joined(Joined(toCppSX1261(c), toCppSX130x(c)),
                          Joined(toCppGateway(c), toCppDebug(c))),
                   [f \in Switches |-> FALSE])

-----------------------------------------------------------------------------
\* A file in which every member is present and of the type its reader wants.
Plain(f) ==
    CASE WriterOf(f) = "bool" -> GcJ("bool", TRUE)
      [] WriterOf(f) = "double" -> GcJ("double", 7)
      [] WriterOf(f) = "array" -> GcJ("array", 2)
      [] WriterOf(f) = "bandwidth" -> GcJ("number", 250000)
      [] WriterOf(f) = "digits" -> GcJ("digits", 7)
      [] WriterOf(f) = "factors" -> GcJ("factors", {7, 9})
      [] TestOf(f) = "comtype" -> GcJ("string", "USB")
      [] TestOf(f) = "radiotype" -> GcJ("string", "SX1250")
      [] TestOf(f) = "mode" -> GcJ("string", "all_sf")
      [] TestOf(f) = "string" -> GcJ("string", "text")
      [] OTHER -> GcJ("number", 7)

\* What a hand may write instead; for a spreading factor under 5 the shift of
\* the reader is not defined.
Other(f) == {NoMember, GcJ("bool", FALSE), GcJ("string", "other")}
    \cup {GcJ("number", n) : n \in GcNumbers} \cup {GcJ("double", n) : n \in GcNumbers}
    \cup {GcJ("number", 0 - n) : n \in GcNumbers}
    \cup IF WriterOf(f) = "factors" THEN {GcJ("factors", s) : s \in SUBSET {5, 12, 13}}
         ELSE {GcJ("array", n) : n \in GcNumbers}

GcInit ==
    /\ \E f, g \in Settings :
          /\ \/ g = ElementOf(f) \/ (GcRow[f][2] \in DOMAIN Enable /\ g = Enable[GcRow[f][2]])
             \/ f = "freq_deviation" /\ g = "fsk.bandwidth"
          /\ \E v \in Other(f), w \in {Plain(g), NoMember, GcJ("bool", FALSE)} :
                gcFile = [[h \in Settings |-> Plain(h)] EXCEPT ![g] = w, ![f] = v]
    /\ gcConfig = <<>> /\ gcAgain = <<>> /\ gcCompiled = <<>>
    /\ gcStage = "file"

\* GatewayConfigFileJson::parse()
ParseFile ==
    /\ gcStage = "file"
    /\ \/ Refuses(gcFile) /\ gcStage' = "refused" /\ UNCHANGED gcConfig
       \/ ~Refuses(gcFile) /\ Throws(gcFile) /\ gcStage' = "aborted" /\ UNCHANGED gcConfig
       \/ /\ ~Refuses(gcFile) /\ ~Throws(gcFile)
          /\ gcStage' = "parsed" /\ gcConfig' = parse(gcFile)
    /\ UNCHANGED <<gcFile, gcAgain, gcCompiled>>

\* toString() and parseString() of the result.
WriteAndParse ==
    /\ gcStage = "parsed"
    /\ gcAgain' = parse(toJSON(gcConfig))
    /\ gcStage' = "written"
    /\ UNCHANGED <<gcFile, gcConfig, gcCompiled>>

\* gateway-config2cpp
CompileIn ==
    /\ gcStage = "written"
    /\ gcCompiled' = toCpp(gcConfig)
    /\ gcStage' = "done"
    /\ UNCHANGED <<gcFile, gcConfig, gcAgain>>

GcNext == ParseFile \/ WriteAndParse \/ CompileIn

GcSpec == GcInit /\ [][GcNext]_gcVars

-----------------------------------------------------------------------------
\* A negative number in a member that is written unsigned and read signed, an
\* FSK channel without a bandwidth and a listen-before-talk channel without a
\* scan time do not survive; the deviation is in the bandwidth already.
LostWhenWritten(f, v) == \/ WriterOf(f) = "uint" /\ TestOf(f) = "int" /\ v < 0
                         \/ f \in {"fsk.bandwidth", "scan_time_us"} /\ v = 0
                         \/ WriterOf(f) = "none"

(***************************************************************************)
(* Settings that were read from any file, with members missing, of another *)
(* type, out of range, or in objects that are switched off, are the same   *)
(* after they have been written and read again, with the switches that are *)
(* derived from them: writers and readers agree on names, types, units and *)
(* on what a switched-off object leaves behind.  No array is filled past   *)
(* its end, however long that of the file is.                              *)
(***************************************************************************)
SettingsReadBack ==
    /\ gcStage \in {"parsed", "written", "done"} =>
        \A f \in Settings : WriterOf(f) = "array" =>
            /\ gcConfig[f] \in 0 .. MaxElements
            /\ TypeOf(gcFile[f]) = "array" => gcConfig[f] <= ValueOf(gcFile[f])
    /\ gcStage \in {"written", "done"} =>
        /\ \A f \in Settings : gcAgain[f] = gcConfig[f] \/ LostWhenWritten(f, gcConfig[f])
        /\ \A f \in Switches : gcAgain[f] = gcConfig[f]

\* No more than half a unit of the sixth digit away.
SameSixDigits(x, v) == LET n == IF v < 0 THEN 0 - v ELSE v
                       IN IF n < 1000000 THEN x = v
                          ELSE (x - v) * 200000 <= n /\ (v - x) * 200000 <= n

(***************************************************************************)
(* A program compiled from a file drives the radio with the settings of    *)
(* the file, but for these: the listen-before-talk threshold, the beacon   *)
(* power and the switches of the SX1261 and of the GPS are lost, and a     *)
(* coordinate or a coefficient is the same to six digits.  The deviation   *)
(* is in the bandwidth already.                                            *)
(***************************************************************************)
CompiledAsParsed ==
    gcStage = "done" =>
        \A f \in Settings \ {"rssi_target", "beacon_power", "freq_deviation"} :
            IF WriterOf(f) = "double" THEN SameSixDigits(gcCompiled[f], gcConfig[f])
            ELSE gcCompiled[f] = gcConfig[f]
=============================================================================
