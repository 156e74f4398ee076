------------------------------- MODULE SyncPool -------------------------------
(***************************************************************************)
(* The sync connection pool of the datasource (kdbSyncPool.go) with its only *)
(* client, runKdbQuerySync (kdbQuery.go), and the disposal that may run      *)
(* beside them.  Every query is a goroutine of QueryData and calls           *)
(* runKdbQuerySync once; a further goroutine of its own, the reader, writes  *)
(* the request and reads the reply.                                          *)
(*                                                                           *)
(* A section under syncPoolMu is one step, and so is each operation on a     *)
(* channel or a socket outside of it: the steps of queries, readers and the  *)
(* disposal interleave at exactly the points where the code lets them.       *)
(*                                                                           *)
(* A query dials at most once, so the connection it dials bears its name.    *)
(***************************************************************************)
EXTENDS Naturals, Sequences, FiniteSets

CONSTANTS
  Queries,     \* the calls of runKdbQuerySync
  Max,         \* SyncMaxConnections, the capacity of both channels
  TimersFire,  \* FALSE: no timeout expires (they are longer than the run)
  None         \* no connection, no answer

ASSUME QueriesAssumption == IsFiniteSet(Queries) /\ None \notin Queries
ASSUME MaxAssumption == Max \in Nat \ {0}
ASSUME TimersAssumption == TimersFire \in BOOLEAN

VARIABLES
  pc,       \* pc[q]: where runKdbQuerySync stands
  conn,     \* conn[q]: its local variable conn; the connection is named by its dialler
  reader,   \* reader[q]: where the goroutine of runKdbQueryOnConnection stands
  answer,   \* answer[q]: the query whose reply q's reader read, or None
  chans,    \* "nil" or "made": the channels syncPool and syncPoolSlots
  pool,     \* the contents of the channel syncPool, oldest first
  slots,    \* the number of tokens in the channel syncPoolSlots
  active,   \* the keys of syncPoolActive
  open,     \* the connections dialled and not closed by this side
  wire,     \* wire[c]: the requests sent over c whose replies nobody has read, in order
  dispose,  \* where closeSyncPool stands
  toClose,  \* its snapshot activeConnections, what is left of it
  drained   \* the connection its drain loop has taken, or None

qvars == <<pc, conn, reader, answer>>
pvars == <<chans, pool, slots, active>>
kvars == <<open, wire>>
dvars == <<dispose, toClose, drained>>
vars == <<pc, conn, reader, answer, chans, pool, slots, active, open, wire,
          dispose, toClose, drained>>

Conns == Queries

(* syncPoolClosed, which closeSyncPool sets first of all and nobody resets. *)
closed == dispose # "idle"

(* Where a query owns a connection, a slot, a lease (it is in syncPoolActive  *)
(* unless the disposal has emptied that map).                                 *)
LeasePCs == {"query", "await", "release", "discard"}
ConnPCs  == LeasePCs \cup {"activate", "close"}
SlotPCs  == ConnPCs \cup {"dial", "freeSlot"}
PCs      == SlotPCs \cup {"start", "channels", "poll", "wait", "done"}

Init ==
  /\ pc = [q \in Queries |-> "start"]
  /\ conn = [q \in Queries |-> None]
  /\ reader = [q \in Queries |-> "none"]
  /\ answer = [q \in Queries |-> None]
  /\ chans = "nil"
  /\ pool = <<>>
  /\ slots = 0
  /\ active = {}
  /\ open = {}
  /\ wire = [c \in Conns |-> <<>>]
  /\ dispose = "idle"
  /\ toClose = {}
  /\ drained = None

Goto(q, from, to) ==
  /\ pc[q] = from
  /\ pc' = [pc EXCEPT ![q] = to]

(* syncPool holds no idle connection; a token fits into syncPoolSlots, an    *)
(* idle connection into syncPool.                                            *)
PoolEmpty == pool = <<>>
OneSlotTooMany == slots =< Max
SlotFree == slots < Max
PoolFree == Len(pool) < Max

(* releaseSyncPoolSlotUnlocked: a receive that does nothing when the channel is empty. *)
FreeSlot == slots' = IF slots > 0 THEN slots - 1 ELSE slots

-----------------------------------------------------------------------------
(* acquireSyncConnection *)

(* ensureSyncPool: the pool is made on first use, unless it is already closed. *)
EnsureSyncPool(q) ==
  /\ \/ closed /\ Goto(q, "start", "done") /\ UNCHANGED chans
     \/ ~closed /\ Goto(q, "start", "channels") /\ chans' = "made"
  /\ UNCHANGED <<conn, reader, answer, pool, slots, active, kvars, dvars>>

SyncPoolChannels(q) ==
  /\ \/ (closed \/ chans = "nil") /\ Goto(q, "channels", "done")
     \/ ~closed /\ chans = "made" /\ Goto(q, "channels", "poll")
  /\ UNCHANGED <<conn, reader, answer, pvars, kvars, dvars>>

(* conn := <-pool *)
TakeIdle(q, from) ==
  /\ ~PoolEmpty
  /\ Goto(q, from, "activate")
  /\ conn' = [conn EXCEPT ![q] = Head(pool)]
  /\ pool' = Tail(pool)
  /\ UNCHANGED <<reader, answer, chans, slots, active, kvars, dvars>>

(* The first select: an idle connection if there is one, or on to the second. *)
Poll(q) ==
  \/ TakeIdle(q, "poll")
  \/ /\ PoolEmpty
     /\ Goto(q, "poll", "wait")
     /\ UNCHANGED <<conn, reader, answer, pvars, kvars, dvars>>

(* The second select, its three cases. *)
WaitIdle(q) == TakeIdle(q, "wait")

WaitSlot(q) ==
  /\ SlotFree
  /\ Goto(q, "wait", "dial")
  /\ slots' = slots + 1
  /\ UNCHANGED <<conn, reader, answer, chans, pool, active, kvars, dvars>>

WaitTimeout(q) ==
  /\ TimersFire
  /\ Goto(q, "wait", "done")
  /\ UNCHANGED <<conn, reader, answer, pvars, kvars, dvars>>

(* newConnection *)
Dial(q) ==
  /\ Goto(q, "dial", "activate")
  /\ conn' = [conn EXCEPT ![q] = q]
  /\ open' = open \cup {q}
  /\ UNCHANGED <<reader, answer, pvars, wire, dvars>>

(* Bugs: the error of a failed dial is ignored; a failed dial keeps its slot. *)
DialFailsUnnoticed(q) ==
  /\ Goto(q, "dial", "activate")
  /\ UNCHANGED <<conn, reader, answer, pvars, kvars, dvars>>

DialFailsKeepingSlot(q) ==
  /\ Goto(q, "dial", "done")
  /\ UNCHANGED <<conn, reader, answer, pvars, kvars, dvars>>

DialFails(q) ==
  /\ Goto(q, "dial", "freeSlot")
  /\ UNCHANGED <<conn, reader, answer, pvars, kvars, dvars>>

(* Bug: the check of syncPoolClosed is forgotten. *)
ActivateUnchecked(q) ==
  /\ Goto(q, "activate", "query")
  /\ active' = active \cup {conn[q]}
  /\ UNCHANGED <<conn, reader, answer, chans, pool, slots, kvars, dvars>>

(* activateSyncConnection: closes the connection and frees its slot when the *)
(* pool was closed since the query took or dialled it.                       *)
ActivateSyncConnection(q) ==
  /\ \/ /\ closed
        /\ Goto(q, "activate", "done")
        /\ open' = open \ {conn[q]}
        /\ FreeSlot
        /\ UNCHANGED active
     \/ /\ ~closed
        /\ Goto(q, "activate", "query")
        /\ active' = active \cup {conn[q]}
        /\ UNCHANGED <<open, slots>>
  /\ UNCHANGED <<conn, reader, answer, chans, pool, wire, dvars>>

-----------------------------------------------------------------------------
(* runKdbQueryOnConnection and its goroutine *)

StartReader(q) ==
  /\ Goto(q, "query", "await")
  /\ reader' = [reader EXCEPT ![q] = "write"]
  /\ UNCHANGED <<conn, answer, pvars, kvars, dvars>>

WriteMessage(q) ==
  /\ reader[q] = "write"
  /\ conn[q] \in open
  /\ reader' = [reader EXCEPT ![q] = "read"]
  /\ wire' = [wire EXCEPT ![conn[q]] = Append(@, q)]
  /\ UNCHANGED <<pc, conn, answer, pvars, open, dvars>>

(* kdb+ answers the requests of a connection in order: the reader gets the   *)
(* oldest reply, whose message type nobody looks at.                         *)
ReadMessage(q) ==
  /\ reader[q] = "read"
  /\ conn[q] \in open
  /\ wire[conn[q]] # <<>>
  /\ reader' = [reader EXCEPT ![q] = "got"]
  /\ answer' = [answer EXCEPT ![q] = Head(wire[conn[q]])]
  /\ wire' = [wire EXCEPT ![conn[q]] = Tail(@)]
  /\ UNCHANGED <<pc, conn, pvars, open, dvars>>

(* Writing or reading fails: always possible, and certain once this side has *)
(* closed the connection.                                                    *)
ReaderFails(q) ==
  /\ reader[q] \in {"write", "read"}
  /\ reader' = [reader EXCEPT ![q] = "failed"]
  /\ UNCHANGED <<pc, conn, answer, pvars, kvars, dvars>>

AwaitAnswer(q) ==
  /\ \/ reader[q] = "got" /\ Goto(q, "await", "release")
     \/ reader[q] = "failed" /\ Goto(q, "await", "discard")
  /\ UNCHANGED <<conn, reader, answer, pvars, kvars, dvars>>

(* Bugs: no timeout on the answer; a timed-out query that leaves its          *)
(* connection open, for reuse.                                                *)
AwaitForever(q) == FALSE

AwaitTimeoutReuses(q) ==
  /\ TimersFire
  /\ Goto(q, "await", "release")
  /\ UNCHANGED <<conn, reader, answer, pvars, kvars, dvars>>

(* The timer may win even when the answer is there: select picks at random. *)
AwaitTimeout(q) ==
  /\ TimersFire
  /\ Goto(q, "await", "discard")
  /\ open' = open \ {conn[q]}
  /\ UNCHANGED <<conn, reader, answer, pvars, wire, dvars>>

-----------------------------------------------------------------------------
(* releaseSyncConnection and discardSyncConnection *)

(* Bugs: the connection of a pool already closed goes back to it; a returned *)
(* connection is closed as well.                                             *)
ReleaseUnchecked(q) ==
  /\ Goto(q, "release", "done")
  /\ active' = active \ {conn[q]}
  /\ pool' = Append(pool, conn[q])
  /\ UNCHANGED <<conn, reader, answer, chans, slots, kvars, dvars>>

ReleaseAndClose(q) ==
  /\ Goto(q, "release", "close")
  /\ active' = active \ {conn[q]}
  /\ pool' = IF closed THEN pool ELSE Append(pool, conn[q])
  /\ UNCHANGED <<conn, reader, answer, chans, slots, kvars, dvars>>

ReleaseSyncConnection(q) ==
  /\ active' = active \ {conn[q]}
  /\ \/ /\ closed \/ chans = "nil" \/ ~PoolFree
        /\ Goto(q, "release", "close")
        /\ UNCHANGED pool
     \/ /\ ~closed /\ chans = "made" /\ PoolFree
        /\ Goto(q, "release", "done")
        /\ pool' = Append(pool, conn[q])
  /\ UNCHANGED <<conn, reader, answer, chans, slots, kvars, dvars>>

DiscardSyncConnection(q) ==
  /\ Goto(q, "discard", "close")
  /\ active' = active \ {conn[q]}
  /\ UNCHANGED <<conn, reader, answer, chans, pool, slots, kvars, dvars>>

(* The end of both: conn.Close(), then releaseSyncPoolSlot. *)
CloseConn(q) ==
  /\ Goto(q, "close", "freeSlot")
  /\ open' = open \ {conn[q]}
  /\ UNCHANGED <<conn, reader, answer, pvars, wire, dvars>>

ReleaseSyncPoolSlot(q) ==
  /\ Goto(q, "freeSlot", "done")
  /\ FreeSlot
  /\ UNCHANGED <<conn, reader, answer, chans, pool, active, kvars, dvars>>

-----------------------------------------------------------------------------
(* closeSyncPool, called by Dispose *)

DisposeBegin ==
  /\ ~closed
  /\ toClose' = active
  /\ active' = {}
  /\ dispose' = "closeActive"
  /\ UNCHANGED <<qvars, chans, pool, slots, kvars, drained>>

(* The lent connections are closed, in the order the map gives; their slots  *)
(* stay with the queries that use them.                                      *)
DisposeCloseActive ==
  /\ dispose = "closeActive"
  /\ \/ /\ \E c \in toClose : toClose' = toClose \ {c} /\ open' = open \ {c}
        /\ UNCHANGED dispose
     \/ /\ toClose = {}
        /\ dispose' = "drain"
        /\ UNCHANGED <<toClose, open>>
  /\ UNCHANGED <<qvars, pvars, wire, drained>>

(* The idle ones are taken from the channel, and give their slots back. *)
DrainTake ==
  /\ dispose = "drain"
  /\ \/ /\ ~PoolEmpty
        /\ drained' = Head(pool)
        /\ pool' = Tail(pool)
        /\ dispose' = "drainClose"
     \/ /\ PoolEmpty
        /\ dispose' = "done"
        /\ UNCHANGED <<drained, pool>>
  /\ UNCHANGED <<qvars, chans, slots, active, kvars, toClose>>

DrainClose ==
  /\ dispose = "drainClose"
  /\ open' = open \ {drained}
  /\ dispose' = "drainSlot"
  /\ UNCHANGED <<qvars, pvars, wire, toClose, drained>>

DrainSlot ==
  /\ dispose = "drainSlot"
  /\ FreeSlot
  /\ drained' = None
  /\ dispose' = "drain"
  /\ UNCHANGED <<qvars, chans, pool, active, kvars, toClose>>

-----------------------------------------------------------------------------
QueryStep(q) ==
  \/ EnsureSyncPool(q) \/ SyncPoolChannels(q) \/ Poll(q)
  \/ WaitIdle(q) \/ WaitSlot(q) \/ WaitTimeout(q)
  \/ Dial(q) \/ DialFails(q) \/ ActivateSyncConnection(q)
  \/ StartReader(q) \/ AwaitAnswer(q) \/ AwaitTimeout(q)
  \/ ReleaseSyncConnection(q) \/ DiscardSyncConnection(q)
  \/ CloseConn(q) \/ ReleaseSyncPoolSlot(q)

ReaderStep(q) == WriteMessage(q) \/ ReadMessage(q) \/ ReaderFails(q)

DisposeStep == DisposeCloseActive \/ DrainTake \/ DrainClose \/ DrainSlot

(* Nothing is left to do: the one state in which the system may rest. *)
Terminated ==
  /\ \A q \in Queries : pc[q] = "done" /\ reader[q] \notin {"write", "read"}
  /\ dispose = "done"
  /\ UNCHANGED vars

Next ==
  \/ \E q \in Queries : QueryStep(q) \/ ReaderStep(q)
  \/ DisposeBegin
  \/ DisposeStep
  \/ Terminated

Spec == Init /\ [][Next]_vars

(* The Go scheduler runs every goroutine that can run, a dial returns, and a *)
(* read or write over a connection this side has closed fails.  Nobody has   *)
(* to dispose the datasource, but a disposal once begun goes on.  Nothing is *)
(* asked of kdb+: it may never answer.                                       *)
FairSpec ==
  /\ Spec
  /\ \A q \in Queries : /\ WF_vars(QueryStep(q))
                        /\ WF_vars(conn[q] \notin open /\ ReaderFails(q))
  /\ WF_vars(DisposeStep)

(* A read also ends because kdb+ answers or the connection fails. *)
PatientSpec == FairSpec /\ \A q \in Queries : WF_vars(ReaderStep(q))
-----------------------------------------------------------------------------
CallTypeOK ==
  /\ pc \in [Queries -> PCs]
  /\ conn \in [Queries -> Conns \cup {None}]
  /\ \A q \in Queries : pc[q] \in ConnPCs => conn[q] \in Conns

TypeOK ==
  /\ CallTypeOK
  /\ reader \in [Queries -> {"none", "write", "read", "got", "failed"}]
  /\ answer \in [Queries -> Queries \cup {None}]
  /\ chans \in {"nil", "made"}
  /\ pool \in Seq(Conns)
  /\ slots \in Nat
  /\ active \subseteq Conns
  /\ open \subseteq Conns
  /\ wire \in [Conns -> Seq(Queries)]
  /\ dispose \in {"idle", "closeActive", "drain", "drainClose", "drainSlot", "done"}
  /\ toClose \subseteq Conns
  /\ drained \in Conns \cup {None}

(* Who owns a slot: queries, one per connection idle, one per connection drained. *)
SlotHolders == {q \in Queries : pc[q] \in SlotPCs}
ConnHolders == {q \in Queries : pc[q] \in ConnPCs}
IdleConns == {pool[i] : i \in 1..Len(pool)}
DrainSlots == IF dispose \in {"drainClose", "drainSlot"} THEN 1 ELSE 0

(* Every token in syncPoolSlots is owned once: no path of acquiring,         *)
(* releasing, discarding, failing or disposing leaks a token or returns one  *)
(* twice, which the receive with a default in releaseSyncPoolSlotUnlocked    *)
(* would hide.  Capacity and channel are never exceeded, so the default      *)
(* branch of releaseSyncConnection is never taken for want of room.          *)
SlotAccounting ==
  /\ slots = Len(pool) + Cardinality(SlotHolders) + DrainSlots
  /\ slots =< Max
  /\ \A q \in Queries : pc[q] \in LeasePCs => PoolFree

(* No more connections to kdb+ are open than SyncMaxConnections allows, even *)
(* for a moment: conn.Close precedes the release of the slot on every path.  *)
OpenBound == Cardinality(open) =< Max

(* No connection is used by two queries, or idle and in use, or twice idle.  *)
Exclusive ==
  /\ \A p, q \in ConnHolders : conn[p] = conn[q] => p = q
  /\ \A i, j \in 1..Len(pool) : pool[i] = pool[j] => i = j
  /\ \A q \in ConnHolders : conn[q] \notin IdleConns

(* A query reads its own answer or none: the late answer to a query that     *)
(* timed out, failed or was disposed never reaches the next user of the      *)
(* connection.                                                               *)
OwnAnswer == \A q \in Queries : answer[q] \in {q, None}

(* While the datasource lives, an idle connection is open and owes nothing.  *)
IdleIsClean ==
  ~closed => \A c \in IdleConns : c \in open /\ wire[c] = <<>>

(* After closeSyncPool has set its flag no query is handed a connection any  *)
(* more, not even one it had already taken or dialled, and none goes back.   *)
NoLeaseAfterDispose ==
  [][closed => /\ \A q \in Queries : pc'[q] \in LeasePCs => pc[q] \in LeasePCs
               /\ Len(pool') =< Len(pool)]_vars

(* What a query holds while it is lent its connection; the state of ConnLease. *)
Leases == [q \in Queries |-> IF pc[q] \in LeasePCs THEN conn[q] ELSE None]

Lease == INSTANCE ConnLease WITH lease <- Leases, shut <- closed

(* The pool, its client and the disposal implement the bounded exclusive     *)
(* lease of connections.                                                     *)
LeaseSpec == Lease!LSpec

(* Every call of runKdbQuerySync returns: with timers whatever kdb+ does;    *)
(* without them because no waiter starves for a slot or a connection that    *)
(* some path has lost.                                                       *)
EveryQueryReturns == \A q \in Queries : <>(pc[q] = "done")

(* Disposed, the datasource ends up with every connection closed, every slot *)
(* free and no goroutine blocked in a read.                                  *)
DisposedQuiesces ==
  closed ~> [](/\ open = {} /\ slots = 0 /\ pool = <<>>
               /\ \A q \in Queries : reader[q] \notin {"write", "read"})
===============================================================================
