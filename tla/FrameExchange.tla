--------------------------- MODULE FrameExchange ----------------------------
(***************************************************************************)
(* One frame on its way: an end-device or a tool sends it, the server      *)
(* reads it, answers its MAC commands, and the device reads the answer.    *)
(* The device (LoRaWAN 1.0 and 1.1) is not part of the repository.         *)
(***************************************************************************)
EXTENDS Frames

CONSTANTS
  FrAddrs,      \* addresses of devices
  FrKnown,      \* those that the identity service knows
  FrCounters,   \* frame counters of a device, 32 bits
  FrSizes       \* sizes of FOpts, payload and answers

ASSUME FrAssumption ==
  /\ FrKnown \subseteq FrAddrs
  /\ FrCounters \subseteq Nat
  /\ FrSizes \subseteq Nat

VARIABLES
  frStage,      \* "start", "air", "read", "down", "join", "joined" or "end"
  frMinor,      \* LoRaWAN version of the device
  frFrame,      \* the frame on the air
  frSent,       \* what its sender means by it
  frPk,         \* the packet that the server has made of it
  frGot         \* what the device has made of the answer

frVars == <<frStage, frMinor, frFrame, frSent, frPk, frGot>>

Content(n, from) == Bytes([i \in 1 .. n |-> from + i])

Nothing == [by |-> "", fopts |-> <<>>, fport |-> 0, payload |-> <<>>, counter |-> 0, key |-> ""]

NoHeader == RFM_HEADER("none", 0, FALSE, 0, 0)

\* The bytes of a MIC may be any; 0 and 1 are the ones that matter.
MicBytes == {0, 1, 255}

\* An end-device: FOpts, and FPort with a payload unless port is -1.  The
\* counter in the MIC has 32 bits, the one in the header 16.
DeviceSends(addr, foptslen, port, size, counter, key, m) ==
  LET payload == IF port = -1 THEN <<>> ELSE Content(size, 100)
      fopts   == Content(foptslen, 50)
      hdr     == RFM_HEADER("up", addr, FALSE, foptslen, counter)
      k       == IF port = 0 THEN nwkSKey(addr) ELSE appSKey(addr)
      body    == fopts \o (IF port = -1 THEN <<>>
                           ELSE <<Byte(port)>> \o encryptPayload(payload, counter, 0, addr, k))
      mic     == <<hdr, body, counter, 0, addr, key>>
  IN  /\ frStage = "start"
      /\ frFrame' = Frame(hdr, body, mic, m)
      /\ frSent' = [by |-> "device", fopts |-> fopts, fport |-> port,
                    payload |-> payload, counter |-> counter, key |-> key]
      /\ frStage' = "air"
      /\ UNCHANGED <<frMinor, frPk, frGot>>

\* A frame that is too short, or a Join Request.
OtherFrame(mtype) ==
  /\ frStage = "start"
  /\ frFrame' = Frame(RFM_HEADER(mtype, 0, FALSE, 0, 0), <<>>, <<>>, 0)
  /\ frStage' = "air"
  /\ UNCHANGED <<frMinor, frSent, frPk, frGot>>

\* A packet written by serialize2RfmPacket(), with FOpts of setFOpts() or none.
Serialized(addr, foptslen, port, size, m) ==
  LET pk == [NewPacket(RFM_HEADER("up", addr, FALSE, foptslen, 7)) EXCEPT
               !.fopts = Content(foptslen, 50), !.fport = port, !.payload = Content(size, 100)]
  IN  /\ frStage = "start"
      /\ frFrame' = serialize2RfmPacket(pk, FALSE, m)
      /\ frSent' = [by |-> "serialize", fopts |-> pk.fopts, fport |-> port,
                    payload |-> pk.payload, counter |-> 7, key |-> nwkSKey(addr)]
      /\ frStage' = "air"
      /\ UNCHANGED <<frMinor, frPk, frGot>>

\* dev-payload makes its frame by mkPushDataPacket().
ToolSends(addr, size, m) ==
  /\ frStage = "start"
  /\ frFrame' = mkPushDataPacket(TRUE, addr, Content(size, 100), 7, m)
  /\ frSent' = [by |-> "dev-payload", fopts |-> <<>>, fport |-> 1,
                payload |-> Content(size, 100), counter |-> 7, key |-> nwkSKey(addr)]
  /\ frStage' = "air"
  /\ UNCHANGED <<frMinor, frPk, frGot>>

ServerReads ==
  /\ frStage = "air"
  /\ frPk' = parseData(frFrame, FrKnown, FALSE)
  /\ frStage' = CASE frPk'.errcode = LORA_OK -> "read"
                  [] frPk'.errcode = IS_JOIN -> "join"
                  [] OTHER -> "end"
  /\ UNCHANGED <<frMinor, frFrame, frSent, frGot>>

\* LoraPacketProcessor::put(): a MAC request is added to a packet that has
\* no MAC commands.
PutMACRequests ==
  /\ frStage = "read" /\ ~hasMACPayload(frPk)
  /\ frPk' = appendMACs(frPk, <<Byte(6)>>)
  /\ frStage' = "end"
  /\ UNCHANGED <<frMinor, frFrame, frSent, frGot>>

\* PacketQueue::replyMAC(): the answer, `size' bytes of MAC commands.
ReplyMAC(size, fcnt, m) ==
  /\ frStage = "read" /\ hasMACPayload(frPk) /\ size > 0
  /\ frFrame' = mkPullResponse(frPk, Content(size, 200), frMinor, fcnt, m)
  /\ frStage' = "down"
  /\ UNCHANGED <<frMinor, frSent, frPk, frGot>>

\* PacketQueue::replyControl(), of a controlling device to a device `addr'.
ReplyControl(addr, size, fcnt, m) ==
  /\ frStage = "read" /\ hasApplicationPayload(frPk)
  /\ frFrame' = mkMACRequest(addr, Content(size, 200), frMinor, fcnt, m)
  /\ frStage' = "down"
  /\ UNCHANGED <<frMinor, frSent, frPk, frGot>>

\* The device reads a downlink frame for its address whose MIC is right.
DeviceReads ==
  LET a  == frPk.hdr.addr
      f  == frFrame
      ok == f.hdr.addr = a /\
            f.mic = calculateMIC(f.hdr, f.body, f.hdr.fcnt, 1, a, nwkSKey(a))
      plain(p) == encryptPayload(p, f.hdr.fcnt, 1, a, nwkSKey(a))
  IN  /\ frStage = "down"
      /\ frGot' = IF ~ok THEN <<>>
                  ELSE IF f.hdr.foptslen = 0 THEN plain(FrmPayload(f))
                  ELSE IF frMinor = 1 THEN plain(headerFOpts(f)) ELSE headerFOpts(f)
      /\ frStage' = "end"
      /\ UNCHANGED <<frMinor, frFrame, frSent, frPk>>

\* The Join Accept, made by replyJoinRequest() and read with decryptJoinAccept().
JoinAccept ==
  /\ frStage = "join"
  /\ frGot' = decryptJoinAccept(encryptJoinAcceptResponse(<<>>, nwkKey(0)), nwkKey(0))
  /\ frStage' = "joined"
  /\ UNCHANGED <<frMinor, frFrame, frSent, frPk>>

FrInit ==
  /\ frStage = "start" /\ frMinor \in {0, 1}
  /\ frFrame = Frame(NoHeader, <<>>, <<>>, 0)
  /\ frSent = Nothing /\ frPk = NewPacket(NoHeader) /\ frGot = <<>>

FrNext ==
  \/ \E a \in FrAddrs, n \in FrSizes, p \in {-1, 0, 1, 223}, s \in FrSizes,
        c \in FrCounters, m \in MicBytes :
       n <= 15 /\ \E key \in {nwkSKey(a), appSKey(a)} : DeviceSends(a, n, p, s, c, key, m)
  \/ \E t \in {"short", "join_request"} : OtherFrame(t)
  \/ \E a \in FrAddrs, n \in FrSizes, p \in {0, 1}, s \in FrSizes, m \in MicBytes :
       n <= 15 /\ Serialized(a, n, p, s, m)
  \/ \E a \in FrAddrs, s \in FrSizes, m \in MicBytes : ToolSends(a, s, m)
  \/ ServerReads
  \/ PutMACRequests
  \/ \E s \in FrSizes, c \in {8, 9} : ReplyMAC(s, c, 255)
  \/ \E a \in FrAddrs, s \in FrSizes : ReplyControl(a, s, 9, 255)
  \/ DeviceReads
  \/ JoinAccept

(***************************************************************************)
(* Properties.                                                             *)
(***************************************************************************)
\* parseData() (utillora.cpp:2442) accepts the frames of known devices whose
\* MIC has the network session key, as long as the counter fits 16 bits, and
\* no others; FOpts and payload are then what the device sent, whatever the
\* length of FOpts, with or without FPort and whatever the MIC begins with.
UplinkReadBack ==
  frStage \notin {"start", "air"} /\ frSent.by = "device" =>
    /\ frPk.errcode = LORA_OK <=>
         /\ frPk.hdr.addr \in FrKnown
         /\ frSent.key = nwkSKey(frPk.hdr.addr)
         /\ frSent.counter < 65536
    /\ frStage \in {"read", "down"} =>
         frPk.fopts = frSent.fopts /\ frPk.payload = frSent.payload

\* What a device sends is taken for what it is: application data is never
\* executed as MAC commands and MAC commands are never stored as data, also
\* when the "port" of a frame is a byte of its MIC (utillora.cpp:1748).
KindKept ==
  frStage = "read" /\ frSent.by = "device" =>
    /\ hasApplicationPayload(frPk) <=> frSent.fport > 0 /\ frSent.payload # <<>>
    /\ getMACs(frPk) = IF frSent.fopts # <<>> THEN frSent.fopts
                       ELSE IF frSent.fport = 0 THEN frSent.payload ELSE <<>>

\* Adding a MAC request to a packet (lora-packet-handler-impl.cpp:97) leaves
\* the data of the device as it was.
RequestKeepsPayload ==
  frStage = "end" /\ frPk.errcode = LORA_OK /\ ~hasMACPayload(parseData(frFrame, FrKnown, FALSE))
    /\ frFrame.hdr.mtype = "up" /\ frSent.by = "device" =>
      frPk.payload = frSent.payload /\ getMACs(frPk) = <<Byte(6)>>

\* A LoRaWAN 1.0 device accepts the answer to its MAC commands and reads the
\* commands in it, if they fit FOpts (utillora.cpp:2672).
AnswerReadBack ==
  frStage = "end" /\ frFrame.hdr.mtype = "down" /\ frMinor = 0
    /\ frFrame.hdr.addr # 0 /\ frFrame.hdr.foptslen > 0 =>
      frGot = Content(frFrame.hdr.foptslen, 200)

\* A packet written by serialize2RfmPacket() is read back (utillora.cpp:2195),
\* but for two kinds of packets: those with FOpts, whose length goes into the
\* header while they are not written, so that FPort and payload are read as
\* FOpts (utillora.cpp:2205), and those on port 0, which is encrypted with the
\* application key.
SerializedReadBack ==
  frStage \in {"read", "down"} /\ frSent.by = "serialize"
    /\ frSent.fopts = <<>> /\ frSent.fport # 0 =>
      frPk.payload = frSent.payload /\ frPk.fport = frSent.fport /\ frPk.fopts = <<>>

\* What the server adds to a packet, answers and writes can be read.
WrittenFramesReadable == RequestKeepsPayload /\ AnswerReadBack /\ SerializedReadBack

\* "aes128_decrypt(NwkKey or JSEncKey, JoinNonce | NetID | ...)" says
\* lora-encrypt.cpp:113 of the Join Accept: decryptJoinAccept() reads it.
JoinAcceptReadable == frStage = "joined" => frGot = <<>>
=============================================================================
