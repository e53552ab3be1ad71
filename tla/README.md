# A verification of lorawan-network-server

The repository is a LoRaWAN network server in C++. Gateways send it datagrams
with the radio frames they heard (Semtech UDP protocol); the server answers
through a gateway within the receive windows of the device and stores the
payloads in databases. This directory holds TLA+ modules that model the parts
of the server that keep state and are reached from several threads, and the
formats that one part writes and another reads; TLC configurations that check
them on small instances; and TLAPS proofs for instances of any size. `PROJECT.json` maps every definition to source lines.

## The system

```
 gateway --UDP--> UDPListener::listen / parseBuffer        (listener thread)
                     | ack, put, join
                     v
               LoraPacketProcessor --- IdentityService, DeviceHistoryService
                 |            |
        push()   |            | push()
                 v            v
          PacketQueue     ReceiverQueueService (map, JSON file)
       (runner thread)        ^
                 |            | peek, pop
        sendto() |        ReceiverQueueProcessor            (database thread)
                 v            | open, insert
             gateway       databases, payload plugins
```

| component | state | operations | properties that make it correct |
|---|---|---|---|
| UDP listener | sockets | parse a datagram; ack; dispatch to put, join, statistics | every datagram acknowledged once, every good frame of it handled |
| packet processor | pointers to services | put, join, enqueueMAC/Control/JoinResponse/Payload | the reply goes into the right queue with the right counter and time |
| packet queue | map address -> vector of items, deque of addresses, mutex, runner thread | push, getFirstExpired, getNextTimeout, replyMAC/Control/JoinRequest | one reply for each frame, in order, in time, none stranded |
| device history | map address -> up and down counter, JSON file | get, putUp, putDown, incrementDown, load, save | no downlink counter is used twice |
| receiver queue | map (time, number) -> payload and databases; recorded counters; JSON file | push, peek, pop, load, save | copies stored once; nothing lost or reordered |
| receiver queue processor | round, turn, plugin state | processQueue, put2databases | each database gets each payload once, in order |
| databases, plugins | external | open, insert, prepare, afterInsert | the plugin life cycle of the repository's README |
| identity service | map address -> keys, JSON or LMDB | get, put, rm, next, joinAccept | addresses unique, what is saved is what is loaded |
| gateway list | map id -> address, socket, statistics | setSocketAddress, copyId | a reply goes to the address of the last PULL |
| statistics services | queue of records and a flushing thread | put, flush, start, stop | no record written twice; none lost but by a failed write or with the process |
| channel plans, MAC commands, packet formats, addresses, gateway settings | none but the reader's own | parse, write, look up | what was written is read back |
| USB gateway | threads around the concentrator, one flag each | start, fetch, enqueue, transmit, scan, stop | no scan during a transmission; stop() tells success only when every thread is gone |
| process | signals, order of start and stop | init, start, stop, done | clean shutdown saves every file |

What is hard to test: the listener thread and the packet queue thread share the
counters and the queue; a reply reads a counter, sends, then stores it; the
database thread peeks and pops a map to which the listener pushes; files are
written only on a clean stop; one of several databases may fail at any time.
The list, with lines, is under `hazards` in `PROJECT.json`.

## Modules

| module | models | state |
|---|---|---|
| `PacketQueue` | `PacketQueue::push`, `getFirstExpired`, `getNextTimeout`, the loop of `runner`, the pushes of the packet processor | `packets`, `addrs`, the clock, the runner's local variables |
| `DownlinkCounters` | `JsonFileDeviceHistoryService` and all that reads or writes it: `put`, `join`, `replyMAC`, `replyControl`, `replyJoinRequest`; stop, kill, restart | `storage`, `file`, queued replies, the reply in progress |
| `FrameCounters` | abstract: frames sent to a device carry increasing counters | the last counter sent |
| `ReceiverQueue` | `ReceiverQueueService`, its JSON storage, `ReceiverQueueProcessor`, `DatabaseNConfig::insert` | `storage`, `fcnts`, `file`, `rows` of the databases, turn and round, plugin state |
| `PayloadDelivery` | abstract: a first-in first-out queue for each database | what each database has yet to get |
| `Identities` | `IdentityService` with its JSON, directory and LMDB back ends (`db-identity.cpp`): load, get, put, rm, next, join, flush, stop | `idStore`, `idFile`, the entry that is read, the last answer |
| `StatService` | the statistics services: put, flush, save, their threads, the end of the process | `stList`, `stCopy` of each saver, `stFile` |
| `Listener` (extends `StatService`) | `UDPListener::listen` and `parseBuffer`, `SemtechUDPPacket::parse`, `GatewayList::setSocketAddress`, the sending half of `replyMAC` | the datagram in work, what was handed to put() and join(), the addresses of the gateways |
| `DirectoryQueue` | `DirTxtReceiverQueueService` with `put2databases` | the files of the directory, the database whose turn it is |
| `ServerProcess` | `main`, `RunListener::init` and `done`, `Daemonize`, `SIGINT`, start and stop of the two queue threads | program counter of the main thread, `pqMode`, the threads |
| `UsbGateway` | `LoraGatewayListener`: start, stop, upstream, transmit and scan threads; `USBListener::listen` | the flags, the threads, state of the concentrator, queued packets |
| `MacCommands`, `MacGateway` | tables, bytes and readers of MAC commands; the command line of mac-gw; `mkResponseMACs` | the words read, the bytes, the commands read |
| `Frames`, `FrameExchange` | `SemtechUDPPacket` and `lora-encrypt.cpp`: a frame is sent, read and answered | the frame on the air, what its sender meant, what was read |
| `RadioMetadata` | `rfmMetaData` and the JSON of rxpk and txpk | the reception, its JSON, the reply |
| `DevAddr` | `DevAddr` and `NetId` of both layouts | 32 and 24 bits, as sets of positions |
| `RegionalParameters` | channel plans, their writer, the SAX handler that reads them, the index | events still to be read, the handler |
| `GatewayConfig` | reader, writer and C++ generator of the gateway settings | the file and the settings, by name |
| `MC*` | small instances; `MCServer` and `MCFormats` put modules that share no state side by side, one of which moves | |
| `PacketQueueProofs`, `DownlinkCountersProofs`, `ReceiverQueueProofs` | theorems about the module of that name | |
| `ServerProofs` | theorems about what `MCServer` runs: `ServerProcess`, `UsbGateway`, `DirectoryQueue`, `Identities`, `Listener` with `StatService` | |
| `MacProofs` | theorems about `MacGateway` with `MacCommands` | |
| `PlanProofs` | theorems about `RegionalParameters` | |
| `FormatProofs` | theorems about `DevAddr`, `RadioMetadata`, `FrameExchange` and `GatewayConfig` | |
| `OrderLemmas` | facts about least elements, deques, sorted enumerations, loops over a finite range and `FlattenSeq`, shared by the proofs | |

How the code is abstracted:

* **PacketQueue.** A vector of items is the set of its items; the field `at`,
  the number of the push that stored the item, is its place. Of the metadata an
  item keeps the gateway with the strongest signal, which is all that the queue
  uses. Time is discrete and every thread step takes no time; `wakeAt` is when
  `select()` returns. The one byte that `wakeUp()` writes is refused by an
  eventfd, so the thread wakes by timeout only. `Take` is one successful
  `getFirstExpired()`; what the reply does then is the subject of
  `DownlinkCounters`.
* **DownlinkCounters.** Each operation of the history service holds a mutex and
  is atomic; a reply is `Begin` (read the counter), `Sent` or `SendFailed`, and
  `Store`, so that the listener runs between any two of them. A kill may come
  anywhere, in particular between the truncation of the file and its writing.
  A control frame that names an EUI nobody registered reads an uninitialised
  address, which is any address in the model.
* **ReceiverQueue.** The key of an entry (time, number) is its place in the map;
  when the clock is set back the place is before all others. `clearFcnts`
  removes any subset of the recorded devices (those older than five seconds).
  Peek, insert and pop are separate steps. Opening and inserting may fail.
  A plugin is what `prepare` and `afterInsert` tell it. An entry found by the
  peek of an inactive database is popped without an insert.

* **Identities.** An address is its network and its number; `IdMax` is the last
  number of the network. The word of zeros is what the code takes for "no
  address" (identity-service-file-json.cpp:229), and it is number 0 of network
  0 as well: `isEmpty` says so when the network is 0 (`IdNetZero`), so that a
  device which has that address counts as one without. A JSON file is read
  entry by entry, as the handler does, and entries without an address take the
  next one; the lines of a text file are put as they are. `save()` may fail to
  open the file; a file that the disk cuts short is not modelled. The server
  does not call `flush()` of this service, its call is commented out
  (run-listener.cpp:53): only tests/test-identity-file-json.cpp does.
* **StatService, Listener.** A datagram is the record of what the parser tells
  apart. `save()` is two steps, the copy under the lock, which clears the list,
  and the append or the post without it, which may fail; what was cleared is
  then lost. An append that the disk cuts short counts as lost as a whole. The
  delay of the thread is any time. The write of an address and of a
  socket are two steps, between which the packet queue may send. `SIGINT` may
  come anywhere in the work on a datagram, in a save of the listener too; when
  the handler then meets a lock that the listener holds, the process never
  ends, which is why nothing obliges `Close` to happen.
* **DirectoryQueue.** A file is created empty and written a step later. Another
  process may have left files of another format.
* **ServerProcess.** Each part of `init` is a step that may fail; the daemon's
  child has the memory of its parent but none of its threads. A signal handler
  runs on top of the main thread, wherever that is.
* **UsbGateway.** libloragw is external: the concentrator is started or not,
  scanning or not, and each chain is free, scheduled or emitting. `stop()` polls
  the flags, at most 60 times: a poll that finds no flag set makes it a success
  (`Polled`), and the polls may end at any time, with threads that still run;
  the concentrator is then stopped all the same, which may fail
  (`StopGateway`). The member `gpsEnabled` of the listener, which is not that of
  the settings, is never set, so the GPS threads do not exist and the beacon
  thread returns.
* **MacCommands, MacGateway.** A parameter is the name of its field and a
  number; a command is made into bytes by its bit fields. `MacPtr` reads where
  its pointer is, which is not always where a command begins.
* **Frames.** A byte carries the set of key stream bytes it was combined with,
  so that encrypting twice with the same key, counter and direction gives it
  back; a MIC is the tuple of what it was computed from.
  `serialize2RfmPacket` writes the length of the FOpts and not the FOpts.
* **RadioMetadata.** A frame is reported by one gateway after another, each in
  the form of the protocol or of the command line tool, with a data rate that
  is a text or, for FSK, a number; the reports are kept in a vector, of which
  the reply takes the first, while it goes to the gateway that heard best. The
  members of a new record that the code leaves uninitialised hold anything. The
  gateway's counter has a modulus of 16 and a second 4 ticks; frequencies,
  ratios, bandwidths and coding rates go through the text forms of the code.
* **DevAddr.** A word is the set of its one bits, masks and shifts are set
  expressions. A new object holds whatever the memory held.
* **RegionalParameters, GatewayConfig.** A file is the sequence of events of
  the JSON reader, or the JSON value of each setting with its type, absent ones
  included. Tables of settings give for each its object, writer and test. An
  identifier that is not a number in base 16 ends the reader with an exception
  (stage `aborted`). The generated program has numbers with a fraction in six
  digits, and the switches which `parse()` derives stay off in it.

## Runs

| run | result | shows |
|---|---|---|
| `pq_safety` | holds | map and deque stay consistent; one item for each frame; no reply without an entry in the deque |
| `pq_fifo` | holds | one port per device: replies leave in order, once, not before the lead, and all of them leave |
| `dc_safe` | holds | MAC replies and joins with clean restarts never repeat a downlink counter |
| `dc_all` | holds | with kills and control frames: joins find their history entry; counters never fall behind the file |
| `dc_control` | violated | a control frame stores the counter of its target under its sender |
| `rq_deliver` | holds | three databases that fail at will: each gets its own queue (refinement) |
| `rq_live` | holds | every payload leaves the queue, clock steps and restarts included |
| `rq_dedup` | violated | only the copies of the first frame of a device are recognised |
| `rq_reload` | violated | nothing saved is loaded |
| `formats` | holds | MAC commands, frames, metadata, addresses, plans and settings are read back as they were written |
| `server` | holds | identities, listener with statistics, directory queue, process and USB gateway, one at a time |
| `push_data` | violated | data frames that share a datagram with a Join Request are lost |

Each violation quotes, under `findings`, the line of the repository that says
otherwise.

What `formats` checks:

| module | properties |
|---|---|
| `MacGateway` | `CommandsParseBack`: commands survive the way from words through bytes. `PtrCountsPayload`: the sizes of the commands read and the bytes left make up the payload, wherever the pointer reads; a link check at the front is answered. |
| `FrameExchange` | `UplinkReadBack`: exactly the frames of known devices with the right key and a counter below 65536 are accepted, and read as sent. `KindKept`: MAC commands and data are not confused. `WrittenFramesReadable`: what the server adds to a packet, answers and serializes is readable, but for serialized packets with FOpts or on port 0 |
| `RadioMetadata` | `ReplyFitsReception`: reports are kept beside their gateways; the reply has the modulation of the first report and a time a second after it, across the wrap of its counter, and goes to its gateway unless another hears better. Excepted: fractions of a MHz, the coding rate 4/8, FSK data rates given as numbers |
| `DevAddr` | `NetworkReadBack`, `MoveStaysInNetwork`: type and NwkId are read back and stay while the address is moved |
| `RegionalParameters` | `PlansReadBack`: a file that was written is accepted, and every plan of it is read back |
| `GatewayConfig` | `SettingsReadBack`: any file, read, written and read again gives the same settings, and no array is filled past its end. `CompiledAsParsed`: so does the generated program, to six digits, but for the listen-before-talk threshold, the beacon power and the two derived switches |

What `server` checks:

| module | properties |
|---|---|
| `Identities` | `NoDeviceDisplaced`, `JoinGivesNoForeignAddress`: next() never gives an address that another device has. `FlushedComesBack`: a restart gives back what was flushed, but for a device at the word of zeros |
| `StatService` | `StatsKeptOnce`: every entry is at one place, once, one of them being the failed writes, and at the end only what the service's thread or the interrupted listener held is missing. `StatsTried`: every entry is given to file or web server at last |
| `Listener` | `WrongMicCostsNoOther`, `ReplyToPulledAddress` |
| `DirectoryQueue` | `DirectoryKeepsUntilGiven`, but for the two causes it names |
| `ServerProcess` | `QueueThreadGone`, `NothingDeliveredAfterFlush`, and `StopEnds` |
| `UsbGateway` | `NoScanWhileSending`; `SuccessMeansAllGone`: when stop() tells success no thread is left; `PowerIsClosestLower` |

Four more configurations of `MCServer`, one of `MCFormats` and three of the queues are kept to show
what the section *What the models say beyond the runs* tells: TLC finds the one
property each of them names violated.

**Bounds.** Two devices and the joining ones, two signal strengths (the gateway
itself does not matter to the queue) and three or four stored replies are what
it takes for a reply to be behind another device's and for a frame to have a
copy and a successor; two ports are needed for two items with one counter,
which is why `pq_safety` has them. The clock runs to 5 or 8, past the windows
of a Join Accept (4 and 5), so that a reply may also be overdue. Two devices, two queued replies and
counters up to 2 or 3 let a join of the same device come between the read and
the store of a counter, and again after a restart. Three databases, one of them
inactive, and three payloads let a database lag behind two others. The bounds
(`MaxPush`, `LastPush`, `MaxTime`, `MaxQueue`, `MaxCnt`) are guards of the
actions and are named in the modules; the theorems hold for all their values.
CLEAR_COUNT is 2 or 3 in place of 2048 where clearing matters.

In `formats` the inputs are the boundaries: frame counters 1, 65535 and 65536;
FOpts and answers of 0, 1, 15 and 16 bytes; two gateways that report a frame
in either order, each with a counter a second before its wrap or not
(`MdGateways`, `MdMaxHeard`, `MdTmsts`), and the better one of them first or
second; words whose bits lie on both sides of every field; numbers
at the limits of 8 and 16 bits and of the 16 element tables, and one of seven
digits (`GcNumbers`); six words, which
complete a LinkADR command; files of none, one and two channel plans. In
`server` the network is network 0 (`IdNetZero`, where the word of zeros is an
address) and has four addresses and three devices, so that it can be
full and have holes; files have up to three entries, with and without
addresses; two datagrams, of 28 kinds, and a buffer of one entry let all savers
meet; three files of two formats and two databases, one inactive, and one
restart; three deliveries around a stop; one fetch (two in `MCServer_usb.cfg`)
and two packets to transmit on two chains.

**Fairness.** `PacketQueue` assumes that time diverges, whatever the gateways
send (strong fairness of `Tick`), and that both threads are scheduled (weak
fairness of their steps); the code loops for ever and takes no lock
for longer than a step. `ReceiverQueue` assumes that the database thread is
scheduled (weak fairness) and that a database which fails to open succeeds
again and again (strong fairness for each database): without the latter one
database that never opens keeps the first entry in the map and nothing behind
it is delivered to anybody, which is how the code is written
(receiver-queue-processor.cpp:152-160). Nothing obliges devices to send.
`Listener` assumes that the threads of the statistics services are scheduled,
which their loops justify, and that the listener finishes the datagram it has
begun. `ServerProcess` assumes that the main thread goes on with `done()` and
that the two queue threads are scheduled. No other module needs fairness.

**Deadlock** is not checked where the model may end at a bound (`MaxPush`,
`MaxTime`); the server itself loops for ever.

## Theorems

Checked by TLAPS for every value of the constants.

* `PacketQueueProofs`: `TypeCorrect`, `VectorsNeverEmpty`,
  `FramesNeverDuplicated`, `NoReplyStranded`, `DequeAndMapEmptyTogether`. The
  inductive invariant `IInv` joins the type invariant, `NoEmptyVector`,
  `OneItemPerFrame` and `EveryItemScheduled` with `VectorOK` (the vectors are
  finite and the places in them distinct), which is needed because the count of
  a device's items is compared with the count of its entries in the deque:
  removing the front entry lowers the latter by one and `Dequeued` lowers the
  former by at least one. `OrderLemmas` has the facts about the head of a
  deque and about least elements of finite sets.
* `DownlinkCountersProofs`: `TypeCorrect`; `StoredCountersCover` and
  `CountersNeverRepeat` under `Quiet` (no control frames, no kills: both are
  refuted without it, by `dc_control` and by the loss of unsaved counters);
  `JoinsHaveHistory` when every joining device has an address. The invariant
  `CounterInv` adds what holds in the middle of a reply, whose counter `Store`
  writes over whatever the listener stored meanwhile: the reply goes to the
  device it came from, the counter in hand is greater than the last one sent,
  a device is behind only while that counter waits to be stored, and the file
  covers the counters while the server is down. A parity bit in
  `FrameCounters` makes every frame a visible step, so that a repeated counter
  is not mistaken for a stutter.
* `ReceiverQueueProofs`: `TypeCorrect` (with finiteness of the map and at least
  one round left while the thread works) and the refinement
  `EachDatabaseHasAQueue` when the clock is not set back. The invariant `RInv`
  says that keys follow the order of pushes (`InOrder`) and that an entry
  peeked is still the first one, and still has the database of this turn, until
  it is popped (`HeadStays`); the step that hands it over is then a `Deliver`
  of the least pending payload. The lemma `LoadsNothing` is the proof of what
  `rq_reload` shows: the level `load()` looks for is odd, and it is always even.
* `PacketQueueProofs`, the order: `RepliesInOrder` (`Fifo`) and
  `RepliesNeverEarly` (`NeverEarly`) under `OnePort`: no device uses two ports,
  as in `pq_fifo`; with two, `getFirstExpired` takes two items for one entry
  and an entry is left behind. `OrderInv` says that the entries of the deque
  stand for the items, one by one and in the order of the pushes: there is an
  increasing sequence of places, one for each entry. `PortsInv` ties the ports
  of stored items to the uplinks. The first entry then stands for the oldest
  item of all (`HeadIsOldest`).
* `DownlinkCountersProofs`, the file: `CountersNeverBehindFile`
  (`NeverBehindFile`), with kills and control frames. `FileInv` adds that the
  counter a reply has in hand is not below that of the file, and that a control
  frame in the queue comes from a master: `Store` writes the one over the other.
* `ServerProofs`, the threads: `QueueThreadWaitedFor` (`QueueThreadGone`) and
  `FlushComesLast` (`NothingDeliveredAfterFlush`), for any number of
  deliveries. `SpInv` says how `mode` of the packet queue follows its thread
  and what `stop()` has seen of it, and that the thread of the receiver queue
  does not turn to work once it was asked to end. `SuccessIsTrue`
  (`SuccessMeansAllGone`), with a timeout at any time and any failures, rests on
  `UgInv`: a thread's flag is set until its loop ends (`FlagsInv`), and no
  thread comes back after the poll that saw no flag (`StopInv`).
  `ScansBetweenPackets` (`NoScanWhileSending`) rests on `ScanInv`,
  which is little more than the property: look and act are under one lock.
  `PowerNotAboveAsked` (`PowerIsClosestLower`), for gain tables of any length
  with powers of any byte: `Closest` is the invariant of the loop over the
  table (what is remembered after k entries is the greatest of them that is not
  above the power asked for, and the difference kept in a `uint8_t` is the
  difference itself), `LoopRuns` carries it to the end of the table, and
  `QueuedInv` types the packets that wait in the queue.
* `ServerProofs`, the listener: `StatisticsKeptOnce` (`StatsKeptOnce`). `StKept` counts, for
  each service, that list, file, the copies of the three savers and what failed
  appends and posts lost together hold the numbers 1 to n and that their lengths
  add up to n, so nothing is at two places; `SavingInv` says that the process
  ends with the list of the devices empty and the last copy written or lost.
  `RepliesToPulledAddress` (`ReplyToPulledAddress`): `RouteInv` follows a
  socket from the datagram that set it; a gateway that has one has pulled.
  `WrongMicLosesNothing` (`WrongMicCostsNoOther`): by `HandInv` the packets at
  work are those of the last datagram, none of them handed on, and those of
  every earlier datagram are handed on exactly once; of a datagram that the
  signal cuts off nothing is claimed. Both filters, `Kept` and
  `DataPackets`, are written with a sorted enumeration of places, which
  `AscendingIs` shows to exist and to be onto.
* `ServerProofs`, the files: `DirectoryKeeps` (`DirectoryKeepsUntilGiven`) for any number
  of formats, databases, files and restarts: `PassInv` says that until another
  file interferes pop() takes what peek() saw and an active database was given.
  `NobodyDisplaced`, `JoinAddressIsOwn` (`JoinGivesNoForeignAddress`) and
  `FlushSurvivesRestart` (`FlushedComesBack`): `IdInv` relates the storage
  during a load to the entries read so far (`ReadSoFar`), which are written in
  the order of the addresses and therefore each once; the device at the word of
  zeros comes first, and whatever address it gets, a later entry that has this
  address takes it; nobody else is in the storage (`NothingElse`).
* `FormatProofs`: `AddressReadsBack` (`NetworkReadBack`) and
  `MovesStayInNetwork` (`MoveStaysInNetwork`) for all words and whatever the
  memory held: by `AddressInv` an address of a sound type is exactly the prefix,
  the network identifier and the number it was asked for. `RepliesFitReception`
  (`ReplyFitsReception`) for any number of reports and every width of the
  counter: by `KeptInv` each report has its place in the vector, and `ReplyInv`
  says what the reply takes from the first. `UplinksReadBack`,
  `KindsKept` and `WrittenFramesAreRead` for frames of any length, counter and
  key: `FrInv` says of a frame, at each stage of its way, which bytes are
  encrypted with which stream, so that the reader takes off what the writer put
  on. `SettingsAreReadBack` (`SettingsReadBack`) and `CompiledLikeParsed`
  (`CompiledAsParsed`) for files with any numbers below 2^31: `RowsOK` goes once through
  the table of the settings, and `WrittenBack` shows for each pair of a writer
  and a test that what was taken from a file is taken again.
* `MacProofs`: `LineParsesBack` (`CommandsParseBack`) for command lines of any
  length and `PayloadCounted` (`PtrCountsPayload`) for payloads of any
  bytes and length. `MacInv` has four parts: `LineInv` (the words counted are
  those of the commands made and of the one in hand), `FormInv` (the commands
  made anew from the bytes are those of the line), `CountInv` (the sizes of what
  `MacPtr` holds and the bytes left make up the payload, and the first command
  is the one at the front) and `AnswerInv` (a link check there has its share of
  the answer). That the bytes of a command give its parameters back is shown
  once for each shape of a bit field. The bytes of a list are a `FlattenSeq`,
  and the place of a command in them is a sum (`Total`): both are loops, for
  which `LoopRuns` and `FlattenSteps` of `OrderLemmas` give the value step by step.
* `PlanProofs`: `PlansAreReadBack` (`PlansReadBack`) for files of any number of
  plans, with any number of data rates, channels and offsets, numbers of the width the
  plan has for them and powers in hundredths of a dBm. `ReadsTo` says
  that a sequence of events leads the handler from one state to another, and
  `Takes` that it does so whatever key was read before. The file is taken apart
  as the writer puts it together: a member, an object or a list of pieces
  (`TakesAll`), with for each of the arrays a description of the handler after i
  elements and some attributes of the next, in which the counters of the
  handler equal the places in the arrays, since they begin again with each
  plan (`DefaultsTaken`). A plan without uplink channels and with downlink
  channels breaks the reader (`DownsNone`), and a broken reader is not changed
  by what follows. `PlansTaken` is the induction over the plans. The inductive
  invariant `RbInv` is then short: whatever has been read, the events still to
  be read lead to the end of the file (`Final`), and `load()` succeeds only
  there.

The assumptions are named after the modules: `QueueAssumption`,
`CounterAssumption`, `ReceiverAssumption`, `StAssumption`, `LsAssumption`,
`DqAssumption`, `IdAssumption`, `SpAssumption`, `UgAssumption`, `DaAssumption`,
`MdAssumption`, `FrAssumption`, `GcAssumption`, `MacAssumption` and
`RbAssumption`. They give constants their types (bytes are below 256, powers are
those of an `int8_t`, numbers of a settings file those of an `int32_t`, a plan
holds what its C++ type can hold); beyond that, the gain
table is not empty, database identifiers are distinct and there is at least
one, there is at least one format of files, the elements of an rxpk array are
of the kinds that the parser tells apart, a second is shorter than the period
of the gateway's counter, and known devices are among the devices.

The inductive invariants were checked with TLC on the runs' instances as far as
TLC can evaluate them; `OrderInv`, `FrInv`, `DaInv`, `HandInv`, `MacInv` and
`RbInv`, which quantify over unbounded sets, could be checked in part only.

**Induction.** No prover instantiates the library's induction theorems, which
have an operator as a parameter. Where a proof needs induction over data, the
set of the numbers for which the claim holds is shown to contain all naturals
(`EveryNat` of `OrderLemmas`), and a recursive function over a finite range is
characterised by a run: a function whose element k + 1 is made from element k
(`LoopRuns`), whose existence is proved rather than taken from the definition.
No module of the project has a RECURSIVE operator.

Only model-checked:

* liveness (`EventuallyServed`, `EventuallyConsumed`, `StatsTried`,
  `StopEnds`), which is out of reach of the prover, as `ENABLED` is;
* all violations.

Every safety property that a passing run checks is stated by a theorem.

## What the models say beyond the runs

* A MAC reply pushed behind a Join Accept (due five seconds later) waits for it:
  the queue serves the front of the deque only (packet-queue.cpp:243), while
  packet-queue.h:3 says "at desired time".
* Devices that have no address share address 0 in the packet queue: the Join
  Accepts of two of them with equal counters are merged. A device without an
  address cannot join: its counter is looked up under the new address
  (packet-queue.cpp:1055), while identity-service.cpp:25 says "No assigned
  address, generate a new one".
* SIGUSR2 does not flush: the call is commented out
  (lorawan-network-server.cpp:151), while README.md:1432 describes it. A kill
  therefore loses all counters since the start.
* `insert()` failures are popped all the same (receiver-queue-processor.cpp:199
  says "if database connection is ok"): the payload is lost for that database,
  which `PayloadDelivery` allows.
* The index of the best copy is off by one (packet-queue.cpp:289): the packet
  returned need not be one of those removed, while :297 says "remove packet
  from the queue" (`MCPacketQueue_removed.cfg`).
* An entry of the deque left behind by the removal of a group blocks the
  replies of every other device (packet-queue.cpp:313,
  `MCPacketQueue_stale.cfg`).
* Plugins are told that a payload is done after its first database, and are not
  prepared for the second (`MCReceiverQueue_plugins.cfg`; README.md:1832-1861
  of the repository has one preparation and one end).
* In a daemon nobody replies: `Daemonize::init` forks after the threads have
  started (daemonize.cpp:192), the child's `mode` is 1 without a thread, and
  `done()` waits for it for ever (`MCServer_daemon.cfg`).
* Of a fetch of several packets the USB gateway hands on the last one only,
  perhaps with the payload of an earlier one, while all are counted as
  forwarded (lora-gateway-listener.cpp:745, `MCServer_usb.cfg`). After a fetch
  error the upstream thread calls stop(), which waits a minute for its own
  flag. With beacons every stop waits that minute. After it the concentrator is
  stopped whatever threads still use it (lora-gateway-listener.cpp:1590). A packet asked for with less
  power than the table has is sent with the first entry of it.
* The LMDB back end looks for the first device, not for the address
  (db-identity.cpp:182, `MCServer_lmdb.cfg`), and the test of its next() is
  reversed.
* The directory queue loses a payload when another file comes between peek and
  pop (receiver-queue-service-dir-txt.cpp:217, `MCServer_directory.cfg`), while
  README.md:697 says that messages stay in the queue. One empty file blocks its
  format.
* A SIGINT while the main thread holds a mutex, or a second one, deadlocks the
  process: `done()` runs in the handler. A message queue of type lmdb has no
  service and ends the process when it starts.
* A device whose counter passes 65535 is refused until it rejoins
  (utillora.cpp:2476). A LoRaWAN 1.1 device cannot read FOpts of an answer, no
  device can read what `mkMACRequest` makes, and a Join Accept is not what
  lora-encrypt.cpp:113 says: it is combined with one block, not decrypted.
* Frequencies are cut to MHz (utillora.cpp:1450), a coding rate 4/8 becomes 4/6,
  and the data rate of FSK, a number in the protocol, is passed over.
* A reply is sent to the gateway that heard best (packet-queue.cpp:423) with a
  time of the counter of the one that reported first (packet-queue.cpp:468),
  while utillora.cpp:2558 says "time when gateway received, microseconds,
  internal counter" (`MCFormats_reply.cfg`).
* `serialize2RfmPacket` writes the length of the FOpts without them
  (utillora.cpp:2205): port and payload are then read as FOpts.
* Statistics are taken off the list before they are appended
  (gateway-stat-service-file.cpp:130): a failed append loses them.
* Network types 3, 4 and 5 of layout 1.1 are set and read at different bits;
  `DevAddr::NetworkReadBack` excepts them.
* Flags of a downlink channel go to the last uplink channel. An unknown plan
  name means the default plan. The C++ generator drops the target of the
  listen-before-talk, the power of beacons and the switches of the SX1261 and
  of the GPS; a last command
  without its parameters is dropped from a command line.
* `MacPtr::parse` moves its pointer by the bytes left (lorawan-mac.cpp:1845):
  only the first command of an uplink is read from its own place.
* Identity flags are saved under another name than they are read, and are lost;
  an entry without an address that comes before one with an address may be
  displaced by it. A device that has number 0 of network 0 counts as one
  without an address: after a flush and a restart it has another address, or
  none when a later entry of the file has that one.
* When the clock is set back between peek and pop, pop takes the database off
  another entry: the refinement has the assumption `~ClockSteps` for this.

## Not modelled

The ciphers themselves, text forms for people, SQL drivers, the web service,
the readers of the server's own configuration, the concentrator library and
its generated configuration data, payload plugins, the sockets of the command
line tools and everything under third_party. The reasons are under
`components`. A composition of the listener with all three queues at once is
beyond TLC at bounds where anything happens; the queues are composed with the
processor's pushes instead, each in its own module. Data races on the containers
of the packet queue have no outcome that a model could enumerate.

## What is left open

* Liveness has no proof; it rests on TLC at the bounds above.
* Hazards without a property are listed with their reason in `PROJECT.json`;
  most of them are disagreements between two lines of the code which a run
  other than the twelve shows (*What the models say beyond the runs*).
* The databases, the plugins and the web service are external to the models.
