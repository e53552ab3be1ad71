------------------------------- MODULE Frames -------------------------------
(***************************************************************************)
(* LoRaWAN frames as utillora.cpp reads and writes them.  Cryptography is  *)
(* symbolic: a byte carries the set of key stream bytes it was combined    *)
(* with (encrypting twice with the same one gives the byte back), and the  *)
(* MIC is the tuple of everything it was computed from.                    *)
(***************************************************************************)
EXTENDS Integers, Sequences, FiniteSetsExt

\* Error codes.
LORA_OK == 0
IS_JOIN == -1
INVALID_HEADER == -2
INVALID_MIC == -3
NOT_FOUND == -4

Byte(b) == [b |-> b, ks |-> {}]

Bytes(s) == [i \in DOMAIN s |-> Byte(s[i])]

\* encryptPayload(), decryptPayload(): the upper bytes of the counter are 0.
encryptPayload(p, fcnt, dir, addr, key) ==
  [i \in DOMAIN p |->
     [p[i] EXCEPT !.ks = SymDiff(@, {<<key, fcnt % 65536, dir, addr, i>>})]]

\* calculateMICRev103(): the lower half of the counter only.
calculateMIC(hdr, body, fcnt, dir, addr, key) ==
  <<hdr, body, fcnt % 65536, dir, addr, key>>

\* RFM_HEADER: the counter has 16 bits, the length of FOpts has 4.
RFM_HEADER(mtype, addr, adr, foptslen, fcnt) ==
  [mtype |-> mtype, addr |-> addr, adr |-> adr, foptslen |-> foptslen,
   fcnt |-> fcnt % 65536]

\* A frame on the air.  `micByte' stands for the bytes of its MIC, which may
\* be any.
Frame(hdr, body, mic, micByte) ==
  [hdr |-> hdr, body |-> body, mic |-> mic, micByte |-> micByte]

\* Keys of a device.
nwkSKey(addr) == <<"nwkSKey", addr>>
appSKey(addr) == <<"appSKey", addr>>
nwkKey(addr)  == <<"nwkKey", addr>>

(***************************************************************************)
(* Reading.                                                                *)
(***************************************************************************)
\* RFMHeader::parse(): FOpts and FPort; where the frame is too short for them
\* the bytes behind it, of the MIC, are taken.  An encrypted byte that is taken
\* for FPort may be any, too.
headerFOpts(f) ==
  [i \in 1 .. f.hdr.foptslen |-> IF i <= Len(f.body) THEN f.body[i] ELSE Byte(f.micByte)]

headerFPort(f) ==
  LET at == f.hdr.foptslen + 1
  IN  IF at <= Len(f.body) /\ f.body[at].ks = {} THEN f.body[at].b ELSE f.micByte

\* What is between FPort and MIC.
FrmPayload(f) == SubSeq(f.body, f.hdr.foptslen + 2, Len(f.body))

NewPacket(hdr) ==
  [errcode |-> LORA_OK, hdr |-> hdr, fopts |-> <<>>, fport |-> 0, payload |-> <<>>]

\* Mutant of parseData: the payload is taken to begin right after FPort.
parseDataNoFOpts(f, known, downlink) ==
  LET dir == IF downlink THEN 1 ELSE 0
      pk  == [NewPacket(f.hdr) EXCEPT !.fopts = headerFOpts(f), !.fport = headerFPort(f)]
      key == IF pk.fport = 0 THEN nwkSKey(f.hdr.addr) ELSE appSKey(f.hdr.addr)
  IN  IF f.hdr.mtype \in {"join_request", "join_accept"}
      THEN [NewPacket(f.hdr) EXCEPT !.errcode = IS_JOIN, !.payload = f.body]
      ELSE IF f.hdr.addr \notin known
      THEN [pk EXCEPT !.errcode = NOT_FOUND, !.payload = FrmPayload(f)]
      ELSE IF f.mic # calculateMIC(f.hdr, f.body, f.hdr.fcnt, dir, f.hdr.addr,
                                   nwkSKey(f.hdr.addr))
      THEN [pk EXCEPT !.errcode = INVALID_MIC]
      ELSE [pk EXCEPT !.payload =
              encryptPayload(SubSeq(f.body, 2, Len(f.body)), f.hdr.fcnt, dir, f.hdr.addr, key)]

\* SemtechUDPPacket::parseData(), `known' are the addresses that the identity
\* service finds; a frame shorter than its header is `short'.
parseData(f, known, downlink) ==
  LET dir == IF downlink THEN 1 ELSE 0
      pk  == [NewPacket(f.hdr) EXCEPT !.fopts = headerFOpts(f), !.fport = headerFPort(f)]
      key == IF pk.fport = 0 THEN nwkSKey(f.hdr.addr) ELSE appSKey(f.hdr.addr)
  IN  IF f.hdr.mtype \in {"join_request", "join_accept"}
      THEN [NewPacket(f.hdr) EXCEPT !.errcode = IS_JOIN, !.payload = f.body]
      ELSE IF f.hdr.mtype = "short"
      THEN [NewPacket(f.hdr) EXCEPT !.errcode = INVALID_HEADER]
      ELSE IF f.hdr.addr \notin known
      THEN [pk EXCEPT !.errcode = NOT_FOUND, !.payload = FrmPayload(f)]
      ELSE IF f.mic # calculateMIC(f.hdr, f.body, f.hdr.fcnt, dir, f.hdr.addr,
                                   nwkSKey(f.hdr.addr))
      THEN [pk EXCEPT !.errcode = INVALID_MIC]
      ELSE [pk EXCEPT !.payload =
              encryptPayload(FrmPayload(f), f.hdr.fcnt, dir, f.hdr.addr, key)]

isPayloadMAC(pk) == pk.fport = 0 /\ pk.payload # <<>>

hasMACPayload(pk) == pk.hdr.foptslen > 0 \/ isPayloadMAC(pk)

hasApplicationPayload(pk) == pk.fport \in 1 .. 223 /\ pk.payload # <<>>

getMACs(pk) ==
  IF pk.hdr.foptslen > 0 THEN pk.fopts
  ELSE IF isPayloadMAC(pk) THEN pk.payload ELSE <<>>

\* appendMACs(): more than 15 bytes go to the payload, and what FOpts held is
\* erased.
appendMACs(pk, macs) ==
  LET have == getMACs(pk)
  IN  IF Len(have) + Len(macs) > 15 \/ isPayloadMAC(pk)
      THEN [pk EXCEPT !.payload = @ \o macs, !.fopts = <<>>, !.hdr.foptslen = 0]
      ELSE [pk EXCEPT !.fopts = have \o macs, !.hdr.foptslen = Len(have) + Len(macs)]

(***************************************************************************)
(* Writing.                                                                *)
(***************************************************************************)
\* A frame with its MIC.
Signed(hdr, body, dir, key, micByte) ==
  Frame(hdr, body, calculateMIC(hdr, body, hdr.fcnt, dir, hdr.addr, key), micByte)

\* serialize2RfmPacket(): header, FPort and payload; FOpts are not written,
\* although the header tells their length.
serialize2RfmPacket(pk, downlink, micByte) ==
  LET dir == IF downlink THEN 1 ELSE 0
      a   == pk.hdr.addr
  IN  Signed(pk.hdr,
             <<Byte(pk.fport)>> \o encryptPayload(pk.payload, pk.hdr.fcnt, dir, a, appSKey(a)),
             dir, nwkSKey(a), micByte)

\* MAC commands as FOpts when they fit, else as payload of port 0.
MacBody(macs) == IF Len(macs) <= 15 THEN macs ELSE <<Byte(0)>> \o macs

MacHeader(addr, macs, fcnt) ==
  RFM_HEADER("down", addr, Len(macs) <= 15, IF Len(macs) <= 15 THEN Len(macs) ELSE 0, fcnt)

\* Mutant of mkPullResponse: signed in the direction of an uplink.
mkPullResponseUplink(pk, data, minor, fcnt, micByte) ==
  LET a == pk.hdr.addr
      p == IF minor = 1 THEN encryptPayload(data, pk.hdr.fcnt, 1, a, nwkSKey(a)) ELSE data
  IN  Signed(MacHeader(a, p, fcnt), MacBody(p), 0, nwkSKey(a), micByte)

\* mkPullResponse(): version 1.1 encrypts, with the counter of the uplink.
mkPullResponse(pk, data, minor, fcnt, micByte) ==
  LET a == pk.hdr.addr
      p == IF minor = 1 THEN encryptPayload(data, pk.hdr.fcnt, 1, a, nwkSKey(a)) ELSE data
  IN  Signed(MacHeader(a, p, fcnt), MacBody(p), 1, nwkSKey(a), micByte)

\* mkMACRequest(): from an empty header, so the address is 0; the direction
\* is that of an uplink.
mkMACRequest(addr, data, minor, fcnt, micByte) ==
  LET p == IF minor = 1 THEN encryptPayload(data, fcnt, 0, 0, nwkSKey(addr)) ELSE data
  IN  Signed(MacHeader(0, p, fcnt), MacBody(p), 0, nwkSKey(addr), micByte)

\* mkPushDataPacket(): port 1, encrypted with the network key.
mkPushDataPacket(up, addr, data, fcnt, micByte) ==
  LET dir == IF up THEN 0 ELSE 1
      hdr == RFM_HEADER(IF up THEN "up" ELSE "down", addr, FALSE, 0, fcnt)
  IN  Signed(hdr, <<Byte(1)>> \o encryptPayload(data, hdr.fcnt, dir, addr, nwkSKey(addr)),
             dir, nwkSKey(addr), micByte)

(***************************************************************************)
(* Join Accept: what is done to the frame after its MHDR.                  *)
(***************************************************************************)
\* encryptJoinAcceptResponse() combines the frame with one encrypted block.
encryptJoinAcceptResponse(layers, key) == Append(layers, <<"xor", key>>)

\* decryptJoinAccept() encrypts the blocks, which undoes an aes128_decrypt.
decryptJoinAccept(layers, key) ==
  IF layers # <<>> /\ layers[Len(layers)] = <<"aes128_decrypt", key>>
  THEN SubSeq(layers, 1, Len(layers) - 1) ELSE Append(layers, <<"aes128_encrypt", key>>)
=============================================================================
