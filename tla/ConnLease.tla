------------------------------ MODULE ConnLease ------------------------------
(***************************************************************************)
(* What the sync connection pool promises, with no channel, lock or slot in  *)
(* sight: a bounded set of kdb+ connections, each lent to at most one query  *)
(* at a time, no answer but the query's own over a lent connection, and no   *)
(* connection lent once the datasource is disposed.  SyncPool implements it. *)
(***************************************************************************)
EXTENDS Naturals, FiniteSets

CONSTANTS
  Queries,  \* the calls of runKdbQuerySync; also names the connection a call dialled
  Max,      \* SyncMaxConnections
  None      \* no connection, no answer

VARIABLES
  open,    \* the connections dialled and not closed
  lease,   \* lease[q]: the connection lent to q, or None
  answer,  \* answer[q]: the query whose answer q read, or None
  shut     \* the datasource is disposed

lvars == <<open, lease, answer, shut>>

LInit ==
  /\ open = {}
  /\ lease = [q \in Queries |-> None]
  /\ answer = [q \in Queries |-> None]
  /\ shut = FALSE

(* A new connection, while fewer than Max are open. *)
Open(c) ==
  /\ c \notin open
  /\ Cardinality(open) < Max
  /\ open' = open \cup {c}
  /\ UNCHANGED <<lease, answer, shut>>

(* A connection may be closed at any time, lent or not. *)
Hangup(c) ==
  /\ c \in open
  /\ open' = open \ {c}
  /\ UNCHANGED <<lease, answer, shut>>

(* An open connection nobody has is lent, and only before the disposal. *)
Grant(q, c) ==
  /\ ~shut
  /\ c \in open
  /\ lease[q] = None
  /\ \A p \in Queries : lease[p] # c
  /\ lease' = [lease EXCEPT ![q] = c]
  /\ UNCHANGED <<open, answer, shut>>

(* The query reads its own answer, over the open connection it was lent. *)
Answer(q) ==
  /\ lease[q] \in open
  /\ answer[q] = None
  /\ answer' = [answer EXCEPT ![q] = q]
  /\ UNCHANGED <<open, lease, shut>>

Return(q) ==
  /\ lease[q] # None
  /\ lease' = [lease EXCEPT ![q] = None]
  /\ UNCHANGED <<open, answer, shut>>

Shut ==
  /\ ~shut
  /\ shut' = TRUE
  /\ UNCHANGED <<open, lease, answer>>

LNext ==
  \/ \E c \in Queries : Open(c) \/ Hangup(c)
  \/ \E q \in Queries : Answer(q) \/ Return(q)
  \/ \E q, c \in Queries : Grant(q, c)
  \/ Shut

LSpec == LInit /\ [][LNext]_lvars
==============================================================================
