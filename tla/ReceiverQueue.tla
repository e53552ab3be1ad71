--------------------------- MODULE ReceiverQueue ----------------------------
(***************************************************************************)
(* The way of a payload to the databases.  The listener thread pushes it   *)
(* into JsonFileReceiverQueueService, a map ordered by receive time, with  *)
(* the identifiers of all databases; the thread of ReceiverQueueProcessor  *)
(* wakes up every second and, database by database, peeks the first entry, *)
(* inserts it and takes the database off the entry.  An entry without      *)
(* databases leaves the map.                                               *)
(*                                                                         *)
(* Time and number of a key are abstracted to the place `key' of the entry *)
(* in the map: that of its number, or, when the clock has been set back,   *)
(* a place before all others.                                              *)
(***************************************************************************)
EXTENDS Integers, Sequences, FiniteSets

CONSTANTS
  Devs,         \* device addresses
  FCnts,        \* frame counters
  DbSeq,        \* identifiers of the configured databases, in order
  Active,       \* the databases configured as active
  ClockSteps,   \* whether the clock may be set back
  Restarts,     \* whether the server is stopped and started
  ClearCount,   \* CLEAR_COUNT
  MaxPerStep,   \* MAX_QUEUE_CNT_PER_STEP
  MaxPush       \* bound: number of payloads pushed

Dbs == {DbSeq[i] : i \in 1 .. Len(DbSeq)}

ASSUME ReceiverAssumption ==
  /\ DbSeq \in Seq(Dbs)
  /\ \A i, k \in 1 .. Len(DbSeq) : DbSeq[i] = DbSeq[k] => i = k
  /\ Len(DbSeq) > 0
  /\ Active \subseteq Dbs
  /\ {ClockSteps, Restarts} \subseteq BOOLEAN
  /\ ClearCount \in Nat \ {0}
  /\ MaxPerStep \in Nat \ {0}
  /\ MaxPush \in Nat

VARIABLES
  cnt,          \* ReceiverQueueService::cnt
  pushed,       \* history: payloads pushed so far, the number of the last one
  fcnts,        \* ReceiverQueueService::fcnts: frame counter by device
  storage,      \* the map: a set of entries, in the order of their keys
  file,         \* the JSON file
  rows,         \* rows[d]: numbers of the entries inserted into database d
  pc,           \* processor: "select", "peek", "insert", "pop" or "down"
  left,         \* processor: rounds of put2databases() left in this step
  j,            \* processor: index of the database of this turn
  entry,        \* processor: the entry peeked (a set, empty if none)
  prepared,     \* put2databases(): prepared
  plugins       \* number of the payload the plugins are prepared for, if any

procVars == <<pc, left, j, entry, prepared>>

vars == <<cnt, pushed, fcnts, storage, file, rows, plugins, procVars>>

Entries ==
  [key : Int, id : Nat, dev : Devs, cnt : FCnts, dbids : SUBSET Dbs]

\* storage.begin()
IsFirst(e) == e \in storage /\ \A x \in storage : e.key <= x.key

(***************************************************************************)
(* The listener thread: enqueuePayload() and push().                       *)
(***************************************************************************)
\* isDuplicated(): a counter is recorded for an address that is not known
\* yet; it is compared, but not replaced, when the address is known.
isDuplicated(dev, c) == dev \in DOMAIN fcnts /\ fcnts[dev] = c

Recorded(dev, c) ==
  [x \in DOMAIN fcnts \cup {dev} |-> IF x \in DOMAIN fcnts THEN fcnts[x] ELSE c]

\* clearFcnts(): the devices recorded more than five seconds ago.
Cleared(f) == {[x \in D |-> f[x]] : D \in SUBSET DOMAIN f}

\* pushEntry(): an entry for all databases.
Enters(dev, c, k) ==
  storage' = storage \cup {[key |-> k, id |-> pushed + 1, dev |-> dev,
                            cnt |-> c, dbids |-> Dbs]}

\* push() of a packet that is not taken for a duplicate.
Push(dev, c) ==
  /\ pc # "down"
  /\ pushed < MaxPush
  /\ ~isDuplicated(dev, c)
  /\ cnt' = cnt + 1
  /\ pushed' = pushed + 1
  /\ \E k \in {pushed + 1} \cup (IF ClockSteps THEN {-(pushed + 1)} ELSE {}) :
       Enters(dev, c, k)
  /\ fcnts' \in IF cnt' % ClearCount = ClearCount - 1
                THEN Cleared(Recorded(dev, c))
                ELSE {Recorded(dev, c)}
  /\ UNCHANGED <<file, rows, plugins, procVars>>

(***************************************************************************)
(* The processor thread: runner(), processQueue() and put2databases().     *)
(***************************************************************************)
\* Mutant of NextTurn: the loop runs one database too far.
NextTurnTooFar ==
  /\ entry' = {}
  /\ IF j <= Len(DbSeq) THEN /\ j' = j + 1
                             /\ pc' = "peek"
                             /\ UNCHANGED <<left, prepared>>
     ELSE /\ j' = 1
          /\ prepared' = FALSE
          /\ left' = left - 1
          /\ pc' = IF left = 1 THEN "select" ELSE "peek"

\* The next database of the round, or the first one of the next round, or
\* back to select().
NextTurn ==
  /\ entry' = {}
  /\ IF j < Len(DbSeq) THEN /\ j' = j + 1
                            /\ pc' = "peek"
                            /\ UNCHANGED <<left, prepared>>
     ELSE /\ j' = 1
          /\ prepared' = FALSE
          /\ left' = left - 1
          /\ pc' = IF left = 1 THEN "select" ELSE "peek"

processQueue ==
  /\ pc = "select"
  /\ storage # {}
  /\ left' = IF Cardinality(storage) > MaxPerStep THEN MaxPerStep
             ELSE Cardinality(storage)
  /\ pc' = "peek"
  /\ UNCHANGED <<cnt, pushed, fcnts, storage, file, rows, plugins, j, entry, prepared>>

\* peek(): only the first entry of the map is looked at.  A database that is
\* not active is taken off the entry without an insert.
Peek ==
  /\ pc = "peek"
  /\ \E e \in storage :
       /\ IsFirst(e)
       /\ DbSeq[j] \in e.dbids
       /\ entry' = {e}
  /\ pc' = IF DbSeq[j] \in Active THEN "insert" ELSE "pop"
  /\ UNCHANGED <<cnt, pushed, fcnts, storage, file, rows, plugins, left, j, prepared>>

PeekNothing ==
  /\ pc = "peek"
  /\ ~ \E e \in storage : IsFirst(e) /\ DbSeq[j] \in e.dbids
  /\ NextTurn
  /\ UNCHANGED <<cnt, pushed, fcnts, storage, file, rows, plugins>>

\* open() fails: the database keeps its place in the entry.
OpenFailed ==
  /\ pc = "insert"
  /\ NextTurn
  /\ UNCHANGED <<cnt, pushed, fcnts, storage, file, rows, plugins>>

\* What the plugins are prepared for when the clauses for e are made: the
\* first entry inserted in this round, until afterInsert().
Held(e) == IF prepared THEN plugins ELSE {e.id}

\* insert(): the plugins make the clauses, the database executes them, and
\* afterInsert() follows, for every database.
Insert ==
  /\ pc = "insert"
  /\ \E e \in entry : rows' = [rows EXCEPT ![DbSeq[j]] = Append(@, e.id)]
  /\ plugins' = {}
  /\ prepared' = TRUE
  /\ pc' = "pop"
  /\ UNCHANGED <<cnt, pushed, fcnts, storage, file, left, j, entry>>

\* insert() fails, in the plugins (no clauses, then afterInsert() is not
\* called) or in the database: it is reported, and the database is popped all
\* the same.
InsertFailed ==
  /\ pc = "insert"
  /\ \E e \in entry : plugins' \in {{}, Held(e)}
  /\ prepared' = TRUE
  /\ pc' = "pop"
  /\ UNCHANGED <<cnt, pushed, fcnts, storage, file, rows, left, j, entry>>

\* Mutant of Popped: the whole entry is erased with its first database.
PoppedWhole(e, d) == storage \ {e}

\* Mutant of Popped: the entry stays when its last database is taken off.
PoppedKeepEmpty(e, d) == (storage \ {e}) \cup {[e EXCEPT !.dbids = @ \ {d}]}

\* The map after popDbId(d) on the entry e.
Popped(e, d) ==
  LET rest == [e EXCEPT !.dbids = @ \ {d}]
  IN  IF rest.dbids = {} THEN storage \ {e} ELSE (storage \ {e}) \cup {rest}

\* pop(): from the entry that is the first one now.
Pop ==
  /\ pc = "pop"
  /\ \E e \in storage : IsFirst(e) /\ storage' = Popped(e, DbSeq[j])
  /\ NextTurn
  /\ UNCHANGED <<cnt, pushed, fcnts, file, rows, plugins>>

(***************************************************************************)
(* Stopping the server writes the map to the file, starting it reads the   *)
(* file back.  The handler pushes an entry when its object ends at level   *)
(* 1; but it counts every object that starts and none that ends, and each  *)
(* entry holds a deviceId object.                                          *)
(***************************************************************************)
LevelAtEnd(e) == 2 * Cardinality({x \in file : x.key <= e.key})

load == storage' = {e \in file : LevelAtEnd(e) = 1}

Stop ==
  /\ Restarts
  /\ pc = "select"
  /\ file' = storage
  /\ storage' = {}
  /\ pc' = "down"
  /\ UNCHANGED <<cnt, pushed, fcnts, rows, plugins, left, j, entry, prepared>>

Start ==
  /\ pc = "down"
  /\ load
  /\ cnt' = 0
  /\ fcnts' = [x \in {} |-> 0]
  /\ plugins' = {}
  /\ pc' = "select"
  /\ UNCHANGED <<pushed, file, rows, left, j, entry, prepared>>

Init ==
  /\ cnt = 0
  /\ pushed = 0
  /\ fcnts = [x \in {} |-> 0]
  /\ storage = {}
  /\ file = {}
  /\ rows = [d \in Dbs |-> <<>>]
  /\ pc = "select"
  /\ left = 0
  /\ j = 1
  /\ entry = {}
  /\ prepared = FALSE
  /\ plugins = {}

Next ==
  \/ \E dev \in Devs, c \in FCnts : Push(dev, c)
  \/ processQueue \/ Peek \/ PeekNothing
  \/ OpenFailed \/ Insert \/ InsertFailed \/ Pop
  \/ Stop \/ Start

Spec == Init /\ [][Next]_vars

(***************************************************************************)
(* The processor thread is scheduled, and a database that fails to open    *)
(* opens again some time: for ever, OpenFailed is not all that happens.    *)
(* Nothing obliges a device to send or anybody to stop the server.         *)
(***************************************************************************)
Fairness ==
  /\ WF_vars(processQueue \/ Peek \/ PeekNothing \/ Pop)
  /\ WF_vars(OpenFailed \/ Insert \/ InsertFailed)
  /\ \A d \in Dbs : SF_vars(DbSeq[j] = d /\ (Insert \/ InsertFailed))

FairSpec == Spec /\ Fairness
-----------------------------------------------------------------------------
\* Every variable holds a value of the C++ type it models.
TypeOK ==
  /\ cnt \in Nat
  /\ pushed \in Nat
  /\ DOMAIN fcnts \subseteq Devs
  /\ fcnts \in [DOMAIN fcnts -> FCnts]
  /\ storage \subseteq Entries
  /\ file \subseteq Entries
  /\ rows \in [Dbs -> Seq(Nat)]
  /\ pc \in {"select", "peek", "insert", "pop", "down"}
  /\ left \in Nat
  /\ j \in 1 .. Len(DbSeq)
  /\ entry \subseteq Entries
  /\ prepared \in BOOLEAN
  /\ plugins \subseteq Nat

\* What database d has yet to get: the entries with its identifier, except
\* the one that it has been handed and that pop() is about to take off.
Open(e, d) ==
  d \in e.dbids /\ ~ (pc = "pop" /\ DbSeq[j] = d /\ e \in entry)

Pending == [d \in Dbs |-> {e.id : e \in {x \in storage : Open(x, d)}}]

Delivery == INSTANCE PayloadDelivery
              WITH accepted <- pushed, pending <- Pending, Volatile <- Restarts

\* The map shared by all databases implements a queue for each of them: a
\* payload is handed once to each database, in order, and none is lost before
\* (except by a restart), whatever the listener pushes between the peek of an
\* entry and its pop.
DeliversToEach == Delivery!Spec

\* Every payload leaves the queue, provided that each database can be opened
\* again and again.
EventuallyConsumed ==
  \A n \in 1 .. MaxPush :
    (\E e \in storage : e.id = n) ~> ~(\E e \in storage : e.id = n)

\* "ReceiverQueueService deduplicate repeated packets received from
\* gateways": the copies of one frame are queued once.
Deduplicated ==
  \A x, y \in storage : (x.dev = y.dev /\ x.cnt = y.cnt) => x = y

\* The life cycle of a plugin in the README: payloadPrepare() for a payload,
\* payload2InsertClauses() for each database of the list, then afterInsert().
\* Clauses for a payload are made while the plugins are prepared for it.
PluginLifeCycle == [][Insert => \A e \in entry : e.id \in Held(e)]_vars

\* "save changes", "Loads ReceiverQueueEntry": what was queued when the
\* server stopped is queued when it starts again.
SurvivesRestart == [][Start => storage' = file]_vars
=============================================================================
