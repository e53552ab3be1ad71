-------------------------- MODULE PayloadDelivery ---------------------------
(***************************************************************************)
(* What the receiver queue promises the databases: each database has a     *)
(* first-in first-out queue of its own; a payload is put into all of them  *)
(* and handed once to each database, which stores it or rejects it.        *)
(* ReceiverQueue implements this with one map shared by all databases.     *)
(***************************************************************************)
EXTENDS Naturals, Sequences

CONSTANTS Dbs,        \* database identifiers
          Volatile    \* whether a restart of the server loses the queues

VARIABLES accepted,   \* number of payloads accepted
          pending,    \* pending[d]: numbers of the payloads d has yet to get
          rows        \* rows[d]: numbers of the payloads stored in d

dvars == <<accepted, pending, rows>>

Init ==
  /\ accepted = 0
  /\ pending = [d \in Dbs |-> {}]
  /\ rows = [d \in Dbs |-> <<>>]

Accept ==
  /\ accepted' = accepted + 1
  /\ pending' = [d \in Dbs |-> pending[d] \cup {accepted + 1}]
  /\ UNCHANGED rows

Deliver(d) ==
  \E n \in pending[d] :
    /\ \A m \in pending[d] : n <= m
    /\ pending' = [pending EXCEPT ![d] = @ \ {n}]
    /\ rows' \in {rows, [rows EXCEPT ![d] = Append(@, n)]}
    /\ UNCHANGED accepted

Lose ==
  /\ Volatile
  /\ pending' = [d \in Dbs |-> {}]
  /\ UNCHANGED <<accepted, rows>>

Next == Accept \/ (\E d \in Dbs : Deliver(d)) \/ Lose

Spec == Init /\ [][Next]_dvars
=============================================================================
