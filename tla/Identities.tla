----------------------------- MODULE Identities -----------------------------
(***************************************************************************)
(* The identity services: which device has which network address, kept in  *)
(* a JSON file (identity-service-file-json.cpp), in a directory of text    *)
(* files (identity-service-dir-txt.cpp) or in LMDB                         *)
(* (identity-service-lmdb.cpp, db-identity.cpp).  An address is a network  *)
(* and a number in it; network 0 is the network of the server.  A device   *)
(* is its EUI; its keys and names travel with it.  The word of zeros       *)
(* stands for "no address" and is also number 0 of the network whose       *)
(* identifier is 0.                                                        *)
(***************************************************************************)
EXTENDS Integers, FiniteSets, SequencesExt

CONSTANTS IdEuis,       \* devices
          IdMax,        \* the largest number in the network of the server
          IdNetZero,    \* whether the identifier of that network is 0
          IdForeign,    \* numbers of addresses in another network
          IdFiles,      \* files the JSON and the text service start with
          IdBackends,   \* services looked at: "json", "dir", "lmdb"
          IdMaxCalls    \* bound on the calls of the service's users

VARIABLES idBackend, idFile,    \* the service and the entries of its file
          idStore, idRights,    \* device by address; addresses with flags
          idMaxAddr,            \* maxDevNwkAddr
          idState, idPos,       \* "down", "loading", "up", "failed"; entries read
          idAnswer, idCalls     \* the last answer, the number of calls

idVars == <<idBackend, idFile, idStore, idRights, idMaxAddr, idState, idPos, idAnswer, idCalls>>

Own(n) == [net |-> 0, n |-> n]
IdAddrs == {Own(n) : n \in 0 .. IdMax} \cup {[net |-> 1, n |-> n] : n \in IdForeign}
Unassigned == [net |-> 0, n |-> -1]             \* an entry without "addr"
\* isDEVADDREmpty(), DevAddr::empty()
isEmpty(a) == a = Unassigned \/ (IdNetZero /\ a = Own(0))
NoAnswer == [op |-> "none"]
FileEntry == [addr : IdAddrs \cup {Unassigned}, eui : IdEuis, flags : BOOLEAN]

ASSUME IdAssumption ==
    /\ IdMax \in Nat /\ IdForeign \subseteq Nat /\ IdMaxCalls \in Nat /\ IdNetZero \in BOOLEAN
    /\ \A f \in IdFiles : f \in Seq(FileEntry)

Before(a, b) == a.net < b.net \/ (a.net = b.net /\ a.n < b.n)
FirstOf(S, lt(_, _)) == CHOOSE a \in S : \A b \in S \ {a} : lt(a, b)
\* LMDB compares the bytes of a key, least significant first.
KeyBefore(a, b) == a.n < b.n \/ (a.n = b.n /\ a.net < b.net)

Without(f, a) == [x \in DOMAIN f \ {a} |-> f[x]]
Larger(n, max) == IF n > max THEN n ELSE max

-----------------------------------------------------------------------------
(***************************************************************************)
(* Lookups.  getAddr() of LMDB searches from key 0 whatever it is asked.   *)
(***************************************************************************)
getStorage(store, a) == IF a \in DOMAIN store THEN store[a] ELSE "notfound"
getAddr(store, a) ==
    IF DOMAIN store = {} THEN "notfound" ELSE store[FirstOf(DOMAIN store, KeyBefore)]
get(backend, store, a) == IF backend = "lmdb" THEN getAddr(store, a) ELSE getStorage(store, a)

HasEui(store, eui) == {a \in DOMAIN store : store[a] = eui}
getNetworkIdentity(backend, store, eui) ==
    LET S == HasEui(store, eui)
    IN IF S = {} THEN Unassigned
       ELSE IF backend = "lmdb" THEN FirstOf(S, KeyBefore) ELSE FirstOf(S, Before)

(***************************************************************************)
(* A new address.  When the largest number belongs to a wider network the  *)
(* address next() starts from keeps whatever was in memory.                *)
(***************************************************************************)
nextBruteForce(store) ==
    LET free == {n \in 0 .. IdMax : Own(n) \notin DOMAIN store}
    IN IF free = {} THEN Unassigned ELSE Own(CHOOSE n \in free : \A m \in free : n <= m)

Candidates(max) == IF max <= IdMax THEN {max + 1} ELSE {n + 1 : n \in 0 .. IdMax}

\* Mutant: the address after the largest is taken without looking whether the
\* network has it.
nextJsonUnchecked(store, max) == {Own(n) : n \in Candidates(max)}
nextJson(store, max) ==
    {IF n > IdMax \/ Own(n) \in DOMAIN store THEN nextBruteForce(store) ELSE Own(n)
        : n \in Candidates(max)}

\* getMaxDevNwkAddr() gives the network of the largest address instead of its
\* number, and the test whether the candidate is used is the wrong way round.
nextLmdb(store) ==
    IF DOMAIN store = {} THEN {nextBruteForce(store)}
    ELSE LET largest == FirstOf(DOMAIN store, LAMBDA a, b : Before(b, a))
         IN {Own(n) : n \in Candidates(largest.net)}

idNext(backend, store, max) ==
    IF backend = "lmdb" THEN nextLmdb(store) ELSE nextJson(store, max)

-----------------------------------------------------------------------------
IdInit ==
    /\ idBackend \in IdBackends
    /\ idFile \in (IF idBackend = "lmdb" THEN {<<>>} ELSE IdFiles)
    /\ idStore = <<>> /\ idRights = {} /\ idMaxAddr = 0
    /\ idState = "down" /\ idPos = 0
    /\ idAnswer = NoAnswer /\ idCalls = 0

\* init(): clear() and load(), or open() of the database; the rights are not
\* cleared, but a new process has none.
InitService ==
    /\ idState = "down"
    /\ idState' = "loading" /\ idPos' = 0
    /\ idStore' = IF idBackend = "lmdb" THEN idStore ELSE <<>>
    /\ idMaxAddr' = 0 /\ idRights' = {}
    /\ idAnswer' = IF idAnswer.op = "flush" THEN idAnswer ELSE NoAnswer
    /\ UNCHANGED <<idBackend, idFile, idCalls>>

Stored(a, eui) ==
    /\ idStore' = [x \in DOMAIN idStore \cup {a} |-> IF x = a THEN eui ELSE idStore[x]]
    /\ idMaxAddr' = Larger(a.n, idMaxAddr)

\* Mutant: an entry without address keeps the address of the entry before it.
EntryAddressKept(e) == IF e.addr = Unassigned /\ idPos > 0 THEN idFile[idPos].addr ELSE e.addr
EntryAddress(e) == e.addr

\* EndObject(): an entry at the word of zeros, or without an address, gets a new
\* one; without a free address the reader stops.
LoadEntry ==
    /\ idState = "loading" /\ idBackend = "json" /\ idPos < Len(idFile)
    /\ LET e == idFile[idPos + 1]
           k == EntryAddress(e)
       IN \E a \in (IF isEmpty(k) THEN nextJson(idStore, idMaxAddr) ELSE {k}) :
            IF a = Unassigned
            THEN idState' = "failed" /\ UNCHANGED <<idStore, idRights, idMaxAddr, idPos>>
            ELSE /\ Stored(a, e.eui)
                 /\ idRights' = IF e.flags THEN idRights \cup {a} ELSE idRights \ {a}
                 /\ idPos' = idPos + 1
                 /\ UNCHANGED idState
    /\ UNCHANGED <<idBackend, idFile, idAnswer, idCalls>>

\* One line of a text file: without an address it is not the line of a device;
\* a line has no flags.
LoadLine ==
    /\ idState = "loading" /\ idBackend = "dir" /\ idPos < Len(idFile)
    /\ LET e == idFile[idPos + 1]
       IN IF e.addr = Unassigned THEN UNCHANGED <<idStore, idMaxAddr>> ELSE Stored(e.addr, e.eui)
    /\ idPos' = idPos + 1
    /\ UNCHANGED <<idBackend, idFile, idRights, idState, idAnswer, idCalls>>

Loaded ==
    /\ idState = "loading" /\ idPos = Len(idFile)
    /\ idState' = "up"
    /\ UNCHANGED <<idBackend, idFile, idStore, idRights, idMaxAddr, idPos, idAnswer, idCalls>>

Called(answer) ==
    /\ idState = "up" /\ idCalls < IdMaxCalls
    /\ idCalls' = idCalls + 1
    /\ idAnswer' = answer
    /\ UNCHANGED <<idBackend, idPos>>

GetDevice(a) ==
    /\ Called([op |-> "get", addr |-> a, eui |-> get(idBackend, idStore, a),
               control |-> idBackend # "lmdb" /\ a \in idRights])
    /\ UNCHANGED <<idFile, idStore, idRights, idMaxAddr, idState>>

\* A Join Request: an unknown device gets no answer; joinAccept() gives a device
\* that is stored at the word of zeros a new address, which is not stored.
JoinDevice(eui) ==
    /\ \E a \in (LET known == getNetworkIdentity(idBackend, idStore, eui)
                 IN IF known # Unassigned /\ isEmpty(known)
                    THEN idNext(idBackend, idStore, idMaxAddr) ELSE {known}) :
          Called([op |-> "join", eui |-> eui, addr |-> a])
    /\ UNCHANGED <<idFile, idStore, idRights, idMaxAddr, idState>>

PutDevice(a, eui) ==
    /\ Called(NoAnswer)
    /\ Stored(a, eui)
    /\ UNCHANGED <<idFile, idRights, idState>>

\* mdb_put() or mdb_txn_commit() reports a full map.  The environment that got
\* the doubled size is closed again and another one is opened, so that the second
\* try may fail, too; a commit that is repeated commits a new, empty transaction.
PutDeviceMapFull(a, eui) ==
    /\ idBackend = "lmdb"
    /\ Called(NoAnswer)
    /\ UNCHANGED <<idFile, idStore, idRights, idMaxAddr, idState>>

RmDevice(a) ==
    /\ Called(NoAnswer)
    /\ idStore' = Without(idStore, a)
    /\ UNCHANGED <<idFile, idRights, idMaxAddr, idState>>

\* save(): entries in the order of their addresses; the flags are written under
\* the name of a key and are not read again.
InOrder(S) ==
    CHOOSE s \in [1 .. Cardinality(S) -> S] : \A i, j \in DOMAIN s : i < j => Before(s[i], s[j])
EntriesOf(store) ==
    LET addrs == InOrder(DOMAIN store)
    IN [i \in DOMAIN addrs |-> [addr |-> addrs[i], eui |-> store[addrs[i]], flags |-> FALSE]]
\* Mutant: the last entry is not written.
EntriesButLast(store) ==
    LET s == EntriesOf(store) IN SubSeq(s, 1, Len(s) - 1)
saveEntries(store) == EntriesOf(store)

\* flush() does not tell whether save() could open the file.
FlushService(opened) ==
    /\ Called([op |-> IF opened THEN "flush" ELSE "unwritten", store |-> idStore])
    /\ idFile' = IF idBackend = "json" /\ opened THEN saveEntries(idStore) ELSE idFile
    /\ UNCHANGED <<idStore, idRights, idMaxAddr, idState>>

\* The process ends and is started again; only what was flushed remains.
StopService ==
    /\ idState = "up" /\ idCalls > 0
    /\ idState' = "down"
    /\ UNCHANGED <<idBackend, idFile, idStore, idRights, idMaxAddr, idPos, idAnswer, idCalls>>

IdNext ==
    \/ InitService \/ LoadEntry \/ LoadLine \/ Loaded \/ StopService
    \/ \E opened \in BOOLEAN : FlushService(opened)
    \/ \E a \in IdAddrs : GetDevice(a) \/ RmDevice(a)
    \/ \E a \in IdAddrs, eui \in IdEuis : PutDevice(a, eui) \/ PutDeviceMapFull(a, eui)
    \/ \E eui \in IdEuis : JoinDevice(eui)

IdSpec == IdInit /\ [][IdNext]_idVars

-----------------------------------------------------------------------------
(***************************************************************************)
(* get() gives the device that has the address, and no device when nobody  *)
(* has it: "get device identifier(w/o address) by network address"         *)
(* (identity-service.h:20).  LMDB gives the first device of the database.  *)
(***************************************************************************)
GetsTheDeviceAsked ==
    idAnswer.op = "get" => idAnswer.eui = getStorage(idStore, idAnswer.addr)

\* Entries without an address come after the entries that have one.
AssignedFirst(file) ==
    \A i, j \in 1 .. Len(file) :
        i < j /\ ~isEmpty(file[j].addr) => ~isEmpty(file[i].addr) /\ file[i].addr # file[j].addr

(***************************************************************************)
(* While a file is read, no device takes the address of another: every     *)
(* entry read so far is in the storage, under its own address or under one *)
(* that next() found, when the numbers run out, when next() finds number 0 *)
(* and when a wider network holds the largest number, too.                 *)
(***************************************************************************)
NoDeviceDisplaced ==
    idState = "loading" /\ AssignedFirst(idFile) /\ idBackend = "json" =>
        \A i \in 1 .. idPos :
            \E a \in DOMAIN idStore :
                /\ idStore[a] = idFile[i].eui
                /\ isEmpty(idFile[i].addr) \/ idFile[i].addr = a

(***************************************************************************)
(* A device that was told an address in a Join Accept owns it or nobody    *)
(* does: the Join Accept never carries the address of another device.      *)
(***************************************************************************)
JoinGivesNoForeignAddress ==
    [][\A eui \in IdEuis :
          JoinDevice(eui) /\ idBackend # "lmdb" /\ idAnswer'.addr # Unassigned =>
              getStorage(idStore, idAnswer'.addr) \in {eui, "notfound"}]_idVars

(***************************************************************************)
(* A restart gives every device back the address it had at the last flush  *)
(* that could open the file, the addresses that next() had assigned        *)
(* included, and nothing else is there.  The device at the word of zeros   *)
(* is excepted: it is read first, gets another address, and is lost when a *)
(* later entry of the file has that one.                                   *)
(***************************************************************************)
FlushedComesBack ==
    idState = "up" /\ idBackend = "json" /\ idAnswer.op = "flush" =>
        LET flushed == idAnswer.store
            Same(a) == a \in DOMAIN flushed /\ a \in DOMAIN idStore /\ idStore[a] = flushed[a]
        IN /\ \A a \in DOMAIN flushed : isEmpty(a) \/ Same(a)
           /\ \A a \in DOMAIN idStore :
                 Same(a) \/ \E z \in DOMAIN flushed : isEmpty(z) /\ idStore[a] = flushed[z]
=============================================================================
