--------------------------- MODULE DirectoryQueue ---------------------------
(***************************************************************************)
(* The receiver queue kept as a directory of files, one for each payload   *)
(* (receiver-queue-service-dir-txt.cpp), between the listener, which       *)
(* stores files, and the thread of the receiver queue processor, which     *)
(* gives them to the databases (put2databases()).  A file has one of       *)
(* three formats, told by its extension; the files of a format come in     *)
(* the order of the directory.                                             *)
(***************************************************************************)
EXTENDS Naturals, SequencesExt

CONSTANTS DqFormats,    \* number of formats, read in the order 1 .. DqFormats
          DqDbs,        \* number of databases
          DqInactive,   \* databases that are configured but not active
          DqMax,        \* bound on the payloads
          DqRestarts    \* bound on the restarts

ASSUME DqAssumption == {DqFormats, DqDbs, DqMax, DqRestarts} \subseteq Nat /\ DqFormats > 0

VARIABLES dqFiles,      \* files by format: sequences of [id, full]
          dqFormat,     \* writeFormat
          dqWriting,    \* file that string2file() has created, not written yet
          dqDb, dqStep, \* the loop of put2databases(): database, "peek", "open", "pop"
          dqSeen,       \* file peeked
          dqTouched,    \* the directory got a file since the peek
          dqGiven,      \* payloads a database was given
          dqGone,       \* payloads removed without it, with the cause
          dqCount, dqBoots

dqVars == <<dqFiles, dqFormat, dqWriting, dqDb, dqStep, dqSeen, dqTouched, dqGiven, dqGone, dqCount, dqBoots>>

Files == UNION {ToSet(dqFiles[f]) : f \in 1 .. DqFormats}
InDirectory == {x.id : x \in Files}

DqInit ==
    /\ dqFiles = [f \in 1 .. DqFormats |-> <<>>]
    /\ dqFormat \in 1 .. DqFormats
    /\ dqWriting = 0 /\ dqDb = 1 /\ dqStep = "peek" /\ dqSeen = 0 /\ dqTouched = FALSE
    /\ dqGiven = {} /\ dqGone = {} /\ dqCount = 0 /\ dqBoots = 0

(***************************************************************************)
(* push(): storeFile() creates a file, anywhere in the directory, and      *)
(* writes it.                                                              *)
(***************************************************************************)
StoreCreates ==
    /\ dqWriting = 0 /\ dqCount < DqMax
    /\ dqCount' = dqCount + 1 /\ dqWriting' = dqCount + 1
    /\ \E i \in 1 .. Len(dqFiles[dqFormat]) + 1 :
          dqFiles' = [dqFiles EXCEPT ![dqFormat] = InsertAt(@, i, [id |-> dqCount + 1, full |-> FALSE])]
    /\ dqTouched' = TRUE
    /\ UNCHANGED <<dqFormat, dqDb, dqStep, dqSeen, dqGiven, dqGone, dqBoots>>
StoreWrites ==
    /\ dqWriting # 0
    /\ dqFiles' = [f \in 1 .. DqFormats |->
                     [i \in DOMAIN dqFiles[f] |->
                        IF dqFiles[f][i].id = dqWriting THEN [id |-> dqWriting, full |-> TRUE]
                        ELSE dqFiles[f][i]]]
    /\ dqWriting' = 0 /\ dqTouched' = TRUE
    /\ UNCHANGED <<dqFormat, dqDb, dqStep, dqSeen, dqGiven, dqGone, dqCount, dqBoots>>

(***************************************************************************)
(* peek() and pop() look at the first file of each format and go on to the *)
(* next format when it cannot be read; the database they are asked for is  *)
(* not looked at.                                                          *)
(***************************************************************************)
Readable(f) == dqFiles[f] # <<>> /\ Head(dqFiles[f]).full
firstFormat == IF \E f \in 1 .. DqFormats : Readable(f)
               THEN CHOOSE f \in 1 .. DqFormats :
                        Readable(f) /\ \A g \in 1 .. f - 1 : ~Readable(g)
               ELSE 0
pop ==
    IF firstFormat = 0 THEN [id |-> 0, files |-> dqFiles]
    ELSE [id |-> Head(dqFiles[firstFormat]).id, files |-> [dqFiles EXCEPT ![firstFormat] = Tail(@)]]
peek == pop.id

NextDb == IF dqDb = DqDbs THEN 1 ELSE dqDb + 1

(***************************************************************************)
(* put2databases(), one database: peek(), open and insert, pop().  A       *)
(* database that does not open keeps its entry, an insert that fails does  *)
(* not.                                                                    *)
(***************************************************************************)
Peek ==
    /\ dqStep = "peek"
    /\ \/ peek # 0 /\ dqSeen' = peek /\ dqStep' = "open" /\ UNCHANGED dqDb
       \/ peek = 0 /\ dqDb # 1 /\ dqDb' = NextDb /\ UNCHANGED <<dqSeen, dqStep>>
    /\ dqTouched' = FALSE
    /\ UNCHANGED <<dqFiles, dqFormat, dqWriting, dqGiven, dqGone, dqCount, dqBoots>>
\* Mutant: the entry of a database that does not open is popped as well.
OpenFailsPops ==
    /\ dqStep = "open" /\ dqDb \notin DqInactive /\ dqStep' = "pop"
    /\ UNCHANGED <<dqFiles, dqFormat, dqWriting, dqDb, dqSeen, dqTouched, dqGiven, dqGone, dqCount, dqBoots>>
OpenFails ==
    /\ dqStep = "open" /\ dqDb \notin DqInactive
    /\ dqStep' = "peek" /\ dqSeen' = 0 /\ dqDb' = NextDb
    /\ UNCHANGED <<dqFiles, dqFormat, dqWriting, dqTouched, dqGiven, dqGone, dqCount, dqBoots>>
Insert ==
    /\ dqStep = "open" /\ dqStep' = "pop"
    /\ dqGiven' = IF dqDb \in DqInactive THEN dqGiven ELSE dqGiven \cup {dqSeen}
    /\ UNCHANGED <<dqFiles, dqFormat, dqWriting, dqDb, dqSeen, dqTouched, dqGone, dqCount, dqBoots>>
Cause == IF dqDb \in DqInactive THEN "inactive" ELSE IF dqTouched THEN "raced" ELSE "none"
Pop ==
    /\ dqStep = "pop" /\ dqStep' = "peek" /\ dqSeen' = 0 /\ dqDb' = NextDb
    /\ \/ /\ dqFiles' = pop.files
          /\ dqGone' = IF pop.id \in dqGiven \cup {0} THEN dqGone
                       ELSE dqGone \cup {<<pop.id, Cause>>}
       \/ UNCHANGED <<dqFiles, dqGone>>         \* ERR_CODE_RM_FILE
    /\ UNCHANGED <<dqFormat, dqWriting, dqTouched, dqGiven, dqCount, dqBoots>>

\* The process dies and starts again, perhaps with another format configured.
Restart ==
    /\ dqBoots < DqRestarts /\ dqBoots' = dqBoots + 1
    /\ dqFormat' \in 1 .. DqFormats
    /\ dqWriting' = 0 /\ dqDb' = 1 /\ dqStep' = "peek" /\ dqSeen' = 0 /\ dqTouched' = FALSE
    /\ UNCHANGED <<dqFiles, dqGiven, dqGone, dqCount>>

DqNext == StoreCreates \/ StoreWrites \/ Peek \/ OpenFails \/ Insert \/ Pop \/ Restart
DqSpec == DqInit /\ [][DqNext]_dqVars

-----------------------------------------------------------------------------
\* A payload stays in the directory until a database was given it, unless its
\* file came between the peek() and the pop() of another or an inactive
\* database stands in the list, also across restarts.
DirectoryKeepsUntilGiven ==
    \A id \in 1 .. dqCount :
        id \in InDirectory \cup dqGiven \/ \E c \in {"raced", "inactive"} : <<id, c>> \in dqGone

\* Violated: a payload stays in the directory until a database was given it.
DirectoryLosesNothing == \A id \in 1 .. dqCount : id \in InDirectory \cup dqGiven
=============================================================================
