----------------------------- MODULE MacGateway -----------------------------
(***************************************************************************)
(* From the command line of mac-gw and mac-ns to MAC commands and back:    *)
(* MacGwConfig::parse() reads the words one by one, main() makes every     *)
(* command anew from its bytes and puts the bytes of all of them into a    *)
(* packet, and MacPtr walks the MAC commands of a packet, of the tool as   *)
(* well as of an end-device, as commands of an end-device.  What an        *)
(* end-device sends enters as bytes.                                       *)
(***************************************************************************)
EXTENDS MacCommands

CONSTANTS
  Words,        \* words that may occur on the command line
  Numbers,      \* numbers that may occur on the command line
  UplinkBytes,  \* bytes of the payload of an end-device
  MaxWords,     \* bound: words on a command line
  MaxUplink     \* bound: bytes of a payload of an end-device

ASSUME MacAssumption ==
  /\ Numbers \subseteq Int
  /\ UplinkBytes \subseteq 0 .. 255
  /\ MaxWords \in Nat
  /\ MaxUplink \in Nat

VARIABLES
  macStage,     \* "line", "made", "formed", "ptr", "respond" or "end"
  gwCount,      \* words read
  gwCmd,        \* index of the command that waits for parameters, 0 if none
  gwVals,       \* paramval
  gwList,       \* macCommands.list
  gwErr,        \* errcode of MacGwConfig
  gwMd,         \* main(): md
  macBytes,     \* getMACs(): macdatabin, or what an end-device sent
  ptrPos,       \* MacPtr::parse(): p, as a position in the payload
  ptrLeft,      \* MacPtr::parse(): sz
  ptrList,      \* MacPtr::mac, as positions in the payload
  ptrErr,       \* MacPtr::errorcode
  macAnswer     \* size of the answer of mkResponseMACs()

gwVars == <<gwCount, gwCmd, gwVals, gwList, gwErr>>
ptrVars == <<ptrPos, ptrLeft, ptrList, ptrErr>>

macVars == <<macStage, gwVars, gwMd, macBytes, ptrVars, macAnswer>>

(***************************************************************************)
(* The table of the commands and of their parameters.                      *)
(***************************************************************************)
\* The name of a choice without an alias, which is also the word of a number,
\* and names that are units.
Unnamed == ""
HundredHz == " * 100Hz"
PlusSecond == " + 1s"

C(min, max, name) == [min |-> min, max |-> max, name |-> name]

\* COMMAND_PARAM_CHOICE: ranges and aliases of the parameters.
DataRate == <<C(0, 7, Unnamed), C(15, 15, "asis")>>

Exponent == <<C(0, 15, Unnamed)>>

ParamChoices ==
  [TXPOWER |-> DataRate, DATARATE |-> DataRate, CHMASK |-> <<C(1, 255, Unnamed)>>,
   NBTRANS |-> <<C(1, 15, Unnamed)>>, CHMASKCTL |-> <<C(0, 7, Unnamed)>>,
   DUTY_CYCLE_LIMIT |-> Exponent, FREQUENCY |-> <<C(0, 9999999, HundredHz)>>,
   RX1_DR_OFFSET |-> <<C(0, 7, "s")>>, CHANNEL_INDEX |-> Exponent,
   MIN_DR |-> <<C(0, 7, Unnamed)>>, MAX_DR |-> <<C(0, 7, Unnamed)>>,
   RXTIMING |-> <<C(0, 15, PlusSecond)>>,
   DWELLTIME |-> <<C(0, 0, "no-limit"), C(1, 1, "400")>>, MAXEIRP |-> Exponent,
   LIMIT_EXP |-> Exponent, DELAY_EXP |-> Exponent,
   REJOIN_PERIOD |-> <<C(0, 7, Unnamed)>>, REJOIN_RETRIES |-> <<C(0, 7, Unnamed)>>,
   REJOIN_TYPE |-> <<C(0, 0, "0"), C(2, 2, "2")>>,
   MAXTIME |-> Exponent, MAXCOUNT |-> Exponent]

D(cid, short, full, params) ==
  [cid |-> cid, short |-> short, full |-> full, params |-> params]

\* gatewayCommands[]; "rx" occurs twice.
gatewayCommands ==
  <<D("LinkADR", "a", "linkadr",
      <<"TXPOWER", "DATARATE", "CHMASK", "NBTRANS", "CHMASKCTL">>),
    D("DutyCycle", "d", "dutycycle", <<"DUTY_CYCLE_LIMIT">>),
    D("RXParamSetup", "rx", "rxparamsetup",
      <<"FREQUENCY", "RX1_DR_OFFSET", "DATARATE">>),
    D("DevStatus", "s", "devstatus", <<>>),
    D("NewChannel", "n", "newchannel",
      <<"CHANNEL_INDEX", "FREQUENCY", "MIN_DR", "MAX_DR">>),
    D("RXTimingSetup", "rx", "rxtiming", <<"RXTIMING">>),
    D("TXParamSetup", "tx", "dwelltime", <<"DWELLTIME", "DWELLTIME", "MAXEIRP">>),
    D("DLChannel", "dl", "dlchannel", <<"CHANNEL_INDEX", "FREQUENCY">>),
    D("Rekey", "k", "rekey", <<>>),
    D("ADRParamSetup", "al", "acklimit", <<"LIMIT_EXP", "DELAY_EXP">>),
    D("ForceRejoin", "j", "forcerejoin",
      <<"REJOIN_PERIOD", "REJOIN_RETRIES", "REJOIN_TYPE">>),
    D("RejoinParamSetup", "js", "rejoinsetup", <<"MAXTIME", "MAXCOUNT">>),
    D("PingSlotInfo", "p", "ping", <<>>),
    D("PingSlotChannel", "pc", "pingchannel", <<"FREQUENCY", "DATARATE">>),
    D("BeaconFreq", "bf", "beaconfreq", <<"FREQUENCY">>)>>

\* A word of the command line: a name or a number.
Tokens == [word : Words, num : {0}] \cup [word : {Unnamed}, num : Numbers]

\* commandIndex(): the first command of that name, 0 if there is none.
commandIndex(w) ==
  LET hits == {i \in DOMAIN gatewayCommands :
                 w \in {gatewayCommands[i].short, gatewayCommands[i].full}}
  IN  IF hits = {} THEN 0 ELSE CHOOSE i \in hits : \A k \in hits : i <= k

\* paramValNum(): the number is compared with the least value of a choice
\* (unsigned), the index of the choice with its greatest value.
paramValNum(v, choices) ==
  IF \E c \in DOMAIN choices : /\ v < 0 \/ v >= choices[c].min
                               /\ c - 1 <= choices[c].max
  THEN v ELSE 0

\* paramValAlias()
paramValAlias(w, choices) ==
  LET hits == {c \in DOMAIN choices : choices[c].name = w}
  IN  IF hits = {} THEN 0 ELSE choices[CHOOSE c \in hits : TRUE].min

\* paramValue(): a word that is no number is an alias.
paramValue(t, choices) ==
  IF t.word = Unnamed THEN paramValNum(t.num, choices) ELSE paramValAlias(t.word, choices)

(***************************************************************************)
(* MacGwConfig::parse(), word by word.                                     *)
(***************************************************************************)
\* state 0: a command; one without parameters is complete.
CommandWord(t) ==
  /\ gwCmd = 0
  /\ LET i == commandIndex(t.word)
     IN  IF i = 0
         THEN /\ gwErr' = Invalid
              /\ UNCHANGED <<gwCmd, gwVals, gwList>>
         ELSE /\ gwVals' = <<>>
              /\ UNCHANGED gwErr
              /\ IF gatewayCommands[i].params = <<>>
                 THEN /\ gwList' = Append(gwList, set(gatewayCommands[i].cid, <<>>, TRUE))
                      /\ UNCHANGED gwCmd
                 ELSE /\ gwCmd' = i
                      /\ UNCHANGED gwList

\* state 1: a parameter; the last one completes the command.
ParameterWord(t) ==
  /\ gwCmd # 0
  /\ LET c == gatewayCommands[gwCmd]
         v == paramValue(t, ParamChoices[c.params[Len(gwVals) + 1]])
         vals == Append(gwVals, v)
     IN  IF v < 0
         THEN /\ gwErr' = -545
              /\ UNCHANGED <<gwCmd, gwVals, gwList>>
         ELSE /\ UNCHANGED gwErr
              /\ IF Len(vals) >= Len(c.params)
                 THEN /\ gwList' = Append(gwList, set(c.cid, vals, TRUE))
                      /\ gwCmd' = 0
                      /\ gwVals' = <<>>
                 ELSE /\ gwVals' = vals
                      /\ UNCHANGED <<gwCmd, gwList>>

ReadWord(t) ==
  /\ macStage = "line" /\ gwErr = 0 /\ gwCount < MaxWords
  /\ gwCount' = gwCount + 1
  /\ CommandWord(t) \/ ParameterWord(t)
  /\ UNCHANGED <<macStage, gwMd, macBytes, ptrVars, macAnswer>>

\* The end of the command line: parameters that were begun are missing; a
\* command with none of its parameters is not noticed.
LineEnd ==
  /\ macStage = "line" /\ gwErr = 0 /\ gwCount > 0
  /\ IF gwVals # <<>>
     THEN /\ gwErr' = -546
          /\ UNCHANGED macStage
     ELSE /\ macStage' = "made"
          /\ UNCHANGED gwErr
  /\ UNCHANGED <<gwCount, gwCmd, gwVals, gwList, gwMd, macBytes, ptrVars, macAnswer>>

\* main() makes each command anew from its bytes, and gives up when there is
\* none.  (A payload of its own, option --payload, is not modelled.)
FormMacs ==
  /\ macStage = "made" /\ gwList # <<>>
  /\ gwMd' = [i \in DOMAIN gwList |-> MacData(toString(gwList[i]), TRUE)]
  /\ macStage' = "formed"
  /\ UNCHANGED <<gwVars, macBytes, ptrVars, macAnswer>>

\* The MAC commands of a packet, that MacPtr is to walk.
Holds(bytes) ==
  /\ macBytes' = bytes
  /\ ptrLeft' = Len(bytes)
  /\ macStage' = "ptr"
  /\ UNCHANGED <<ptrPos, ptrList, ptrErr, macAnswer>>

\* macdatabin, which goes into the packet (setFOpts(), FOpts or port 0), and
\* toJsonString() of the packet.
PackMacs ==
  /\ macStage = "formed"
  /\ Holds(FlattenSeq([i \in DOMAIN gwMd |-> toString(gwMd[i])]))
  /\ UNCHANGED <<gwVars, gwMd>>

\* A packet of an end-device with MAC commands, in its FOpts or in its payload
\* on port 0, as replyMAC() takes it; hasMACPayload(): there are some.
Uplink(bytes) ==
  /\ macStage = "line" /\ gwCount = 0
  /\ Holds(bytes)
  /\ UNCHANGED <<gwVars, gwMd>>

(***************************************************************************)
(* MacPtr::parse(): the pointer is moved by the number of bytes left, not  *)
(* by the size of the command.  b is the byte it points to.                *)
(***************************************************************************)
PtrStep(b) ==
  /\ macStage = "ptr" /\ ptrLeft > 0
  /\ LET r == parseSide(b, ptrLeft, FALSE)
     IN  IF r < 0 THEN /\ ptrErr' = r
                       /\ macStage' = "respond"
                       /\ UNCHANGED <<ptrPos, ptrLeft, ptrList>>
         ELSE /\ ptrLeft' = ptrLeft - r
              /\ ptrPos' = ptrPos + (ptrLeft - r)
              /\ ptrList' = Append(ptrList, [cid |-> CidOf(b), at |-> ptrPos])
              /\ UNCHANGED <<ptrErr, macStage>>
  /\ UNCHANGED <<gwVars, gwMd, macBytes, macAnswer>>

ByteAt(p) == IF p <= Len(macBytes) THEN macBytes[p] ELSE 0

\* Past the zero that ends the string the byte read is undefined.
PtrReads == IF ptrPos <= Len(macBytes) + 1 THEN {ByteAt(ptrPos)} ELSE UplinkBytes

PtrEnd ==
  /\ macStage = "ptr" /\ ptrLeft = 0
  /\ ptrErr' = 0
  /\ macStage' = "respond"
  /\ UNCHANGED <<gwVars, gwMd, macBytes, ptrPos, ptrLeft, ptrList, macAnswer>>

\* mkResponseMACs(), in replyMAC(): for the packets of end-devices.
Respond ==
  /\ macStage = "respond" /\ gwCount = 0
  /\ macAnswer' = Total([i \in 1 .. Len(ptrList) |-> AnswerSize(ptrList[i].cid)])
  /\ macStage' = "end"
  /\ UNCHANGED <<gwVars, gwMd, macBytes, ptrVars>>

MacInit ==
  /\ macStage = "line"
  /\ gwCount = 0 /\ gwCmd = 0 /\ gwVals = <<>> /\ gwList = <<>> /\ gwErr = 0
  /\ gwMd = <<>> /\ macBytes = <<>>
  /\ ptrPos = 1 /\ ptrLeft = 0 /\ ptrList = <<>> /\ ptrErr = 0
  /\ macAnswer = 0

MacNext ==
  \/ \E t \in Tokens : ReadWord(t)
  \/ LineEnd
  \/ FormMacs
  \/ PackMacs
  \/ \E n \in 1 .. MaxUplink : \E bytes \in [1 .. n -> UplinkBytes] : Uplink(bytes)
  \/ \E b \in PtrReads : PtrStep(b)
  \/ PtrEnd
  \/ Respond

MacSpec == MacInit /\ [][MacNext]_macVars

(***************************************************************************)
(* Properties.                                                             *)
(***************************************************************************)
\* The commands of a command line survive the way through their bytes: those
\* that main() makes from MacData::toString() (mac-gw.cpp:301, mac-ns.cpp:471)
\* are those that MacGwConfig::parse() made, with the values in the same
\* fields, and the output shows each of their parameters.  They account for
\* every word of the line, but for a last command without any of its
\* parameters (macgw-config-json.cpp:486).
CommandsParseBack ==
  macStage # "line" /\ gwCount > 0 =>
    /\ macStage # "made" =>
         /\ gwMd = gwList
         /\ \A i \in 1 .. Len(gwMd) :
              LET ps == Params(gwMd[i].cid, TRUE)
              IN  \A k \in 1 .. Len(ps) : ps[k] \in Printed(gwMd[i])
    /\ gwCount = (IF gwCmd = 0 THEN 0 ELSE 1) +
                 Total([i \in 1 .. Len(gwList) |-> 1 + Len(Params(gwList[i].cid, TRUE))])

\* MacPtr counts the bytes of a packet's MAC commands exactly, wherever its
\* pointer is (lorawan-mac.cpp:1841-1845): the sizes of the commands it holds and
\* sz make up the payload, sz never falls below 0, where size_t would start
\* anew from its largest value, and there is an error exactly when bytes are
\* left.  The first command is the one at the front, and a link check there
\* is answered whatever comes after it (packet-queue.cpp:465).
PtrCountsPayload ==
  macStage \in {"ptr", "respond", "end"} =>
    /\ ptrLeft >= 0
    /\ ptrLeft + Total([i \in 1 .. Len(ptrList) |-> commandSize(ptrList[i].cid, FALSE)])
         = Len(macBytes)
    /\ macStage # "ptr" => (ptrErr = 0 <=> ptrLeft = 0)
    /\ ptrList # <<>> => ptrList[1] = [cid |-> CidOf(macBytes[1]), at |-> 1]
    /\ macStage = "end" /\ macBytes[1] = Code["LinkCheck"] =>
         macAnswer >= commandSize("LinkCheck", TRUE)
=============================================================================
