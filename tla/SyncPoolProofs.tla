---------------------------- MODULE SyncPoolProofs ----------------------------
(***************************************************************************)
(* Proofs about SyncPool, for every set of queries and every pool size.      *)
(***************************************************************************)
EXTENDS SyncPool, FiniteSetTheorems, SequenceTheorems, TLAPS

(***************************************************************************)
(* Taking from and adding to a channel, as the sequences see it.             *)
(***************************************************************************)
LEMMA TakeProperties ==
  ASSUME NEW S, NEW s \in Seq(S), s # <<>>
  PROVE  /\ Head(s) \in S
         /\ Head(s) = s[1]
         /\ Tail(s) \in Seq(S)
         /\ Len(s) \in Nat \ {0}
         /\ Len(Tail(s)) = Len(s) - 1
         /\ \A i \in 1..Len(Tail(s)) : Tail(s)[i] = s[i+1]
BY HeadTailProperties, EmptySeq

LEMMA PutProperties ==
  ASSUME NEW S, NEW s \in Seq(S), NEW e \in S
  PROVE  /\ Append(s, e) \in Seq(S)
         /\ Len(Append(s, e)) = Len(s) + 1
         /\ Append(s, e)[Len(s) + 1] = e
         /\ \A i \in 1..Len(s) : Append(s, e)[i] = s[i]
BY AppendProperties

(***************************************************************************)
(* Type correctness.                                                         *)
(***************************************************************************)
USE QueriesAssumption, MaxAssumption, TimersAssumption

LEMMA TypeInit == Init => TypeOK
<1>1. [c \in Queries |-> <<>>] \in [Queries -> Seq(Queries)]
  BY EmptySeq
<1>2. Init => pool \in Seq(Conns) /\ wire \in [Conns -> Seq(Queries)]
  BY <1>1, EmptySeq DEF Init, Conns
<1>3. Init => CallTypeOK
  BY DEF Init, CallTypeOK, PCs, SlotPCs, ConnPCs, LeasePCs, Conns
<1>4. Init => /\ reader \in [Queries -> {"none", "write", "read", "got", "failed"}]
              /\ answer \in [Queries -> Queries \cup {None}]
              /\ chans \in {"nil", "made"} /\ slots \in Nat /\ active \subseteq Conns
              /\ open \subseteq Conns
              /\ dispose \in {"idle", "closeActive", "drain", "drainClose", "drainSlot", "done"}
              /\ toClose \subseteq Conns /\ drained \in Conns \cup {None}
  BY DEF Init, Conns
<1> QED
  BY <1>2, <1>3, <1>4 DEF TypeOK

LEMMA CallTypeNext == TypeOK /\ [Next]_vars => CallTypeOK'
<1> SUFFICES ASSUME TypeOK
             PROVE  [Next]_vars => CallTypeOK'
  OBVIOUS
<1>t. ~PoolEmpty => Head(pool) \in Queries
  BY TakeProperties DEF TypeOK, Conns, PoolEmpty
<1> USE DEF TypeOK, CallTypeOK, PCs, SlotPCs, ConnPCs, LeasePCs, Conns, Goto, vars, closed,
            qvars, pvars, kvars, dvars
<1>1. ASSUME NEW q \in Queries, EnsureSyncPool(q) PROVE CallTypeOK'
  BY <1>1 DEF EnsureSyncPool
<1>2. ASSUME NEW q \in Queries, SyncPoolChannels(q) PROVE CallTypeOK'
  BY <1>2 DEF SyncPoolChannels
<1>3. ASSUME NEW q \in Queries, Poll(q) PROVE CallTypeOK'
  <2>1. CASE TakeIdle(q, "poll")
    BY <1>t, <2>1 DEF TakeIdle
  <2>2. CASE ~TakeIdle(q, "poll")
    BY <1>3, <2>2 DEF Poll
  <2> QED
    BY ONLY <2>1, <2>2
<1>4. ASSUME NEW q \in Queries, WaitIdle(q) PROVE CallTypeOK'
  BY <1>4, <1>t DEF WaitIdle, TakeIdle
<1>5. ASSUME NEW q \in Queries, WaitSlot(q) PROVE CallTypeOK'
  BY <1>5 DEF WaitSlot
<1>6. ASSUME NEW q \in Queries, WaitTimeout(q) PROVE CallTypeOK'
  BY <1>6 DEF WaitTimeout
<1>7. ASSUME NEW q \in Queries, Dial(q) PROVE CallTypeOK'
  BY <1>7 DEF Dial
<1>8. ASSUME NEW q \in Queries, DialFails(q) PROVE CallTypeOK'
  BY <1>8 DEF DialFails
<1>9. ASSUME NEW q \in Queries, ActivateSyncConnection(q) PROVE CallTypeOK'
  BY <1>9 DEF ActivateSyncConnection, FreeSlot
<1>10. ASSUME NEW q \in Queries, StartReader(q) PROVE CallTypeOK'
  BY <1>10 DEF StartReader
<1>11. ASSUME NEW q \in Queries, AwaitAnswer(q) PROVE CallTypeOK'
  BY <1>11 DEF AwaitAnswer
<1>12. ASSUME NEW q \in Queries, AwaitTimeout(q) PROVE CallTypeOK'
  BY <1>12 DEF AwaitTimeout
<1>13. ASSUME NEW q \in Queries, ReleaseSyncConnection(q) PROVE CallTypeOK'
  BY <1>13 DEF ReleaseSyncConnection
<1>14. ASSUME NEW q \in Queries, DiscardSyncConnection(q) PROVE CallTypeOK'
  BY <1>14 DEF DiscardSyncConnection
<1>15. ASSUME NEW q \in Queries, CloseConn(q) PROVE CallTypeOK'
  BY <1>15 DEF CloseConn
<1>16. ASSUME NEW q \in Queries, ReleaseSyncPoolSlot(q) PROVE CallTypeOK'
  BY <1>16 DEF ReleaseSyncPoolSlot, FreeSlot
<1>17. ASSUME NEW q \in Queries, WriteMessage(q) PROVE CallTypeOK'
  BY <1>17 DEF WriteMessage
<1>18. ASSUME NEW q \in Queries, ReadMessage(q) PROVE CallTypeOK'
  BY <1>18 DEF ReadMessage
<1>19. ASSUME NEW q \in Queries, ReaderFails(q) PROVE CallTypeOK'
  BY <1>19 DEF ReaderFails
<1>20. CASE DisposeBegin
  BY <1>20 DEF DisposeBegin
<1>21. CASE DisposeCloseActive
  BY <1>21 DEF DisposeCloseActive
<1>22. CASE DrainTake
  BY <1>22 DEF DrainTake
<1>23. CASE DrainClose
  BY <1>23 DEF DrainClose
<1>24. CASE DrainSlot
  BY <1>24 DEF DrainSlot, FreeSlot
<1>25. CASE UNCHANGED vars
  BY <1>25 DEF vars
<1> QED
  BY <1>1, <1>2, <1>3, <1>4, <1>5, <1>6, <1>7, <1>8, <1>9, <1>10, <1>11,
     <1>12, <1>13, <1>14, <1>15, <1>16, <1>17, <1>18, <1>19, <1>20, <1>21,
     <1>22, <1>23, <1>24, <1>25
  DEF Next, QueryStep, ReaderStep, DisposeStep, Terminated

LEMMA TypeNext == TypeOK /\ [Next]_vars => TypeOK'
<1> SUFFICES ASSUME TypeOK, CallTypeOK'
             PROVE  [Next]_vars => TypeOK'
  BY CallTypeNext
<1>t. ~PoolEmpty => Head(pool) \in Queries /\ Tail(pool) \in Seq(Queries)
  BY TakeProperties DEF TypeOK, Conns, PoolEmpty
<1>p. \A c \in Queries : Append(pool, c) \in Seq(Queries)
  BY PutProperties DEF TypeOK, Conns
<1>w. \A c, q \in Queries : Append(wire[c], q) \in Seq(Queries)
  BY PutProperties DEF TypeOK, Conns
<1>r. \A c \in Queries : wire[c] # <<>> =>
        Head(wire[c]) \in Queries /\ Tail(wire[c]) \in Seq(Queries)
  BY TakeProperties DEF TypeOK, Conns
<1> USE DEF TypeOK, CallTypeOK, ConnPCs, LeasePCs, Conns, Goto, vars, closed, qvars, pvars, kvars, dvars
<1>1. ASSUME NEW q \in Queries, EnsureSyncPool(q) PROVE TypeOK'
  BY <1>1 DEF EnsureSyncPool
<1>2. ASSUME NEW q \in Queries, SyncPoolChannels(q) PROVE TypeOK'
  BY <1>2 DEF SyncPoolChannels
<1>3. ASSUME NEW q \in Queries, Poll(q) PROVE TypeOK'
  BY <1>3, <1>t DEF Poll, TakeIdle
<1>4. ASSUME NEW q \in Queries, WaitIdle(q) PROVE TypeOK'
  BY <1>4, <1>t DEF WaitIdle, TakeIdle
<1>5. ASSUME NEW q \in Queries, WaitSlot(q) PROVE TypeOK'
  BY <1>5 DEF WaitSlot
<1>6. ASSUME NEW q \in Queries, WaitTimeout(q) PROVE TypeOK'
  BY <1>6 DEF WaitTimeout
<1>7. ASSUME NEW q \in Queries, Dial(q) PROVE TypeOK'
  BY <1>7 DEF Dial
<1>8. ASSUME NEW q \in Queries, DialFails(q) PROVE TypeOK'
  BY <1>8 DEF DialFails
<1>9. ASSUME NEW q \in Queries, ActivateSyncConnection(q) PROVE TypeOK'
  <2>1. CASE closed
    BY <1>9, <2>1 DEF ActivateSyncConnection, FreeSlot
  <2>2. CASE ~closed
    BY <1>9, <2>2 DEF ActivateSyncConnection, FreeSlot
  <2> QED
    BY <1>9, <2>1, <2>2
<1>10. ASSUME NEW q \in Queries, StartReader(q) PROVE TypeOK'
  BY <1>10 DEF StartReader
<1>11. ASSUME NEW q \in Queries, AwaitAnswer(q) PROVE TypeOK'
  BY <1>11 DEF AwaitAnswer
<1>12. ASSUME NEW q \in Queries, AwaitTimeout(q) PROVE TypeOK'
  BY <1>12 DEF AwaitTimeout
<1>13. ASSUME NEW q \in Queries, ReleaseSyncConnection(q) PROVE TypeOK'
  <2>1. conn[q] \in Conns
    BY <1>13 DEF ReleaseSyncConnection
  <2>2. pool' = pool \/ pool' = Append(pool, conn[q])
    BY <1>13 DEF ReleaseSyncConnection
  <2>3. pool' \in Seq(Conns)
    BY <1>p, <2>1, <2>2
  <2> QED
    BY <1>13, <2>3 DEF ReleaseSyncConnection
<1>14. ASSUME NEW q \in Queries, DiscardSyncConnection(q) PROVE TypeOK'
  BY <1>14 DEF DiscardSyncConnection
<1>15. ASSUME NEW q \in Queries, CloseConn(q) PROVE TypeOK'
  BY <1>15 DEF CloseConn
<1>16. ASSUME NEW q \in Queries, ReleaseSyncPoolSlot(q) PROVE TypeOK'
  BY <1>16 DEF ReleaseSyncPoolSlot, FreeSlot
<1>17. ASSUME NEW q \in Queries, WriteMessage(q) PROVE TypeOK'
  BY <1>17, <1>w DEF WriteMessage
<1>18. ASSUME NEW q \in Queries, ReadMessage(q) PROVE TypeOK'
  BY <1>18, <1>r DEF ReadMessage
<1>19. ASSUME NEW q \in Queries, ReaderFails(q) PROVE TypeOK'
  BY <1>19 DEF ReaderFails
<1>20. CASE DisposeBegin
  BY <1>20 DEF DisposeBegin
<1>21. CASE DisposeCloseActive
  BY <1>21 DEF DisposeCloseActive
<1>22. CASE DrainTake
  BY <1>22, <1>t DEF DrainTake
<1>23. CASE DrainClose
  BY <1>23 DEF DrainClose
<1>24. CASE DrainSlot
  BY <1>24 DEF DrainSlot, FreeSlot
<1>25. CASE UNCHANGED vars
  BY <1>25 DEF vars
<1> QED
  BY <1>1, <1>2, <1>3, <1>4, <1>5, <1>6, <1>7, <1>8, <1>9, <1>10, <1>11,
     <1>12, <1>13, <1>14, <1>15, <1>16, <1>17, <1>18, <1>19, <1>20, <1>21,
     <1>22, <1>23, <1>24, <1>25
  DEF Next, QueryStep, ReaderStep, DisposeStep, Terminated

(* TypeOK is an invariant. *)
THEOREM TypeCorrect == Spec => []TypeOK
BY TypeInit, TypeNext, PTL DEF Spec

(***************************************************************************)
(* The inductive invariant.  The properties of SyncPool speak of what the    *)
(* queries hold; that a step keeps them rests on five facts about how the    *)
(* connections come and go.                                                  *)
(***************************************************************************)
EarlyPCs == {"start", "channels", "poll", "wait", "dial"}

(* A connection exists once the query that gives it its name has dialled it. *)
Names ==
  /\ \A q \in Queries : pc[q] \in EarlyPCs => conn[q] = None
  /\ \A q \in Queries : conn[q] # None => conn[conn[q]] = conn[q]
  /\ \A c \in open \cup IdleConns : conn[c] = c

(* The idle connections of the channel are distinct. *)
Distinct == \A i, j \in 1..Len(pool) : pool[i] = pool[j] => i = j

(* A connection in use has one user and is not idle. *)
OneUser ==
  /\ \A p, q \in Queries : /\ pc[p] \in ConnPCs
                           /\ pc[q] \in ConnPCs
                           /\ conn[p] = conn[q]
                           => p = q
  /\ \A q \in Queries : pc[q] \in ConnPCs => conn[q] \notin IdleConns

(* Each open connection is idle, in use, or about to be closed by the disposal. *)
Owned ==
  \A c \in open : \/ c \in IdleConns
                  \/ \E q \in Queries : pc[q] \in ConnPCs /\ conn[q] = c
                  \/ dispose = "drainClose" /\ drained = c

(* Until the disposal begins, whatever is idle or about to be used is open. *)
Alive ==
  /\ ~closed => toClose = {}
  /\ ~closed => \A c \in IdleConns : c \in open
  /\ ~closed => \A q \in Queries :
       pc[q] \in {"activate", "query", "await", "release"} => conn[q] \in open

(* Who reads: a goroutine that may still touch an open connection belongs to  *)
(* the query that waits for it, and has read nothing.                         *)
Readers ==
  /\ \A q \in Queries : pc[q] \in EarlyPCs \cup {"activate", "query"} => reader[q] = "none"
  /\ \A q \in Queries :
       reader[q] \in {"write", "read"} /\ conn[q] \in open => pc[q] = "await"
  /\ \A q \in Queries : reader[q] \in {"none", "write", "read"} => answer[q] = None

(* What is under way: nothing over a connection that is idle, new or just     *)
(* answered, and only its own request while a query waits for the answer.     *)
NoMessage == <<>>
OneMessage(q) == <<q>>

Wires ==
  /\ \A c \in Queries : conn[c] # c => wire[c] = NoMessage
  /\ \A c \in IdleConns : wire[c] = NoMessage
  /\ \A q \in Queries :
       pc[q] \in {"activate", "query", "release"} => wire[conn[q]] = NoMessage
  /\ \A q \in Queries :
       pc[q] = "await" /\ reader[q] \in {"write", "got"} => wire[conn[q]] = NoMessage
  /\ \A q \in Queries :
       pc[q] = "await" /\ reader[q] = "read" => wire[conn[q]] = OneMessage(q)

-----------------------------------------------------------------------------
(* What taking an idle connection and returning one do to the set of them.   *)

LEMMA IdleIsConns == ASSUME TypeOK PROVE IdleConns \subseteq Conns
<1>1. \A i \in 1..Len(pool) : pool[i] \in Conns
  BY LenProperties DEF TypeOK
<1> QED
  BY <1>1 DEF IdleConns

LEMMA TakeStep ==
  ASSUME TypeOK, Distinct, ~PoolEmpty, pool' = Tail(pool)
  PROVE  /\ Head(pool) \in IdleConns
         /\ IdleConns' = IdleConns \ {Head(pool)}
         /\ Distinct'
         /\ Len(pool') = Len(pool) - 1
         /\ Len(pool) \in Nat \ {0}
<1>1. /\ Head(pool) = pool[1]
      /\ Len(pool) \in Nat \ {0}
      /\ Len(pool') = Len(pool) - 1
      /\ \A i \in 1..Len(pool') : pool'[i] = pool[i+1]
  BY TakeProperties DEF TypeOK, PoolEmpty
<1>2. Head(pool) \in IdleConns
  BY <1>1 DEF IdleConns
<1>3. IdleConns' \subseteq IdleConns \ {Head(pool)}
  <2> SUFFICES ASSUME NEW i \in 1..Len(pool')
               PROVE  pool'[i] \in IdleConns \ {Head(pool)}
    BY DEF IdleConns
  <2>1. i+1 \in 1..Len(pool) /\ 1 \in 1..Len(pool) /\ i+1 # 1
    BY <1>1
  <2>2. pool[i+1] # pool[1]
    BY <2>1 DEF Distinct
  <2> QED
    BY <1>1, <2>1, <2>2 DEF IdleConns
<1>4. IdleConns \ {Head(pool)} \subseteq IdleConns'
  <2> SUFFICES ASSUME NEW i \in 1..Len(pool), pool[i] # Head(pool)
               PROVE  pool[i] \in IdleConns'
    BY DEF IdleConns
  <2>1. i-1 \in 1..Len(pool') /\ (i-1)+1 = i
    BY <1>1
  <2>2. pool'[i-1] = pool[i]
    BY <1>1, <2>1
  <2> QED
    BY <2>1, <2>2 DEF IdleConns
<1>5. Distinct'
  <2> SUFFICES ASSUME NEW i \in 1..Len(pool'), NEW j \in 1..Len(pool'),
                      pool'[i] = pool'[j]
               PROVE  i = j
    BY DEF Distinct
  <2>1. i+1 \in 1..Len(pool) /\ j+1 \in 1..Len(pool) /\ pool[i+1] = pool[j+1]
    BY <1>1
  <2>2. i+1 = j+1
    BY <2>1 DEF Distinct
  <2> QED
    BY <2>2, <1>1
<1> QED
  BY <1>1, <1>2, <1>3, <1>4, <1>5

LEMMA PutStep ==
  ASSUME TypeOK, Distinct, NEW c \in Conns, c \notin IdleConns, pool' = Append(pool, c)
  PROVE  /\ IdleConns' = IdleConns \cup {c}
         /\ Distinct'
         /\ Len(pool') = Len(pool) + 1
         /\ Len(pool) \in Nat
<1>1. /\ Len(pool) \in Nat
      /\ Len(pool') = Len(pool) + 1
      /\ pool'[Len(pool) + 1] = c
      /\ \A i \in 1..Len(pool) : pool'[i] = pool[i]
  BY PutProperties, LenProperties DEF TypeOK
<1>2. \A i \in 1..Len(pool') : i \in 1..Len(pool) \/ i = Len(pool) + 1
  BY <1>1
<1>3. \A i \in 1..Len(pool) : i \in 1..Len(pool') /\ pool[i] # c
  BY <1>1 DEF IdleConns
<1>4. Len(pool) + 1 \in 1..Len(pool')
  BY <1>1
<1>5. IdleConns' = IdleConns \cup {c}
  BY <1>1, <1>2, <1>3, <1>4 DEF IdleConns
<1>6. Distinct'
  BY <1>1, <1>2, <1>3, <1>4 DEF Distinct
<1> QED
  BY <1>1, <1>5, <1>6

LEMMA IdleStays ==
  ASSUME UNCHANGED pool
  PROVE  IdleConns' = IdleConns /\ (Distinct => Distinct')
BY DEF IdleConns, Distinct

LEMMA NamesNext == TypeOK /\ Names /\ Distinct /\ OneUser /\ [Next]_vars => Names'
<1> SUFFICES ASSUME TypeOK, Names, Distinct, OneUser
             PROVE  [Next]_vars => Names'
  OBVIOUS
<1>ty. /\ pc \in [Queries -> PCs]
       /\ conn \in [Queries -> Queries \cup {None}]
       /\ \A q \in Queries : pc[q] \in ConnPCs => conn[q] \in Queries
       /\ open \subseteq Queries
       /\ IdleConns \subseteq Queries
  BY IdleIsConns DEF TypeOK, CallTypeOK, Conns
<1> USE DEF Names, EarlyPCs, PCs, SlotPCs, ConnPCs, LeasePCs, Conns, Goto,
            qvars, pvars, kvars, dvars
<1>1. ASSUME NEW q \in Queries, EnsureSyncPool(q) PROVE Names'
  BY <1>1, <1>ty, IdleStays DEF EnsureSyncPool
<1>2. ASSUME NEW q \in Queries, SyncPoolChannels(q) PROVE Names'
  BY <1>2, <1>ty, IdleStays DEF SyncPoolChannels
<1>3. ASSUME NEW q \in Queries, Poll(q) PROVE Names'
  <2>1. CASE TakeIdle(q, "poll")
    BY <1>ty, <2>1, TakeStep DEF TakeIdle
  <2>2. CASE ~TakeIdle(q, "poll")
    BY <1>ty, IdleStays, <1>3, <2>2 DEF Poll
  <2> QED
    BY ONLY <2>1, <2>2
<1>4. ASSUME NEW q \in Queries, WaitIdle(q) PROVE Names'
  <2>1. CASE TakeIdle(q, "wait")
    BY <1>ty, <2>1, TakeStep DEF TakeIdle
  <2>2. CASE ~TakeIdle(q, "wait")
    BY <1>ty, IdleStays, <1>4, <2>2 DEF WaitIdle
  <2> QED
    BY ONLY <2>1, <2>2
<1>5. ASSUME NEW q \in Queries, WaitSlot(q) PROVE Names'
  BY <1>5, <1>ty, IdleStays DEF WaitSlot
<1>6. ASSUME NEW q \in Queries, WaitTimeout(q) PROVE Names'
  BY <1>6, <1>ty, IdleStays DEF WaitTimeout
<1>7. ASSUME NEW q \in Queries, Dial(q) PROVE Names'
  BY <1>7, <1>ty, IdleStays DEF Dial
<1>8. ASSUME NEW q \in Queries, DialFails(q) PROVE Names'
  BY <1>8, <1>ty, IdleStays DEF DialFails
<1>9. ASSUME NEW q \in Queries, ActivateSyncConnection(q) PROVE Names'
  BY <1>9, <1>ty, IdleStays DEF ActivateSyncConnection, FreeSlot
<1>10. ASSUME NEW q \in Queries, StartReader(q) PROVE Names'
  BY <1>10, <1>ty, IdleStays DEF StartReader
<1>11. ASSUME NEW q \in Queries, AwaitAnswer(q) PROVE Names'
  BY <1>11, <1>ty, IdleStays DEF AwaitAnswer
<1>12. ASSUME NEW q \in Queries, AwaitTimeout(q) PROVE Names'
  BY <1>12, <1>ty, IdleStays DEF AwaitTimeout
<1>13. ASSUME NEW q \in Queries, ReleaseSyncConnection(q) PROVE Names'
  <2>1. conn[q] \in Queries /\ conn[q] \notin IdleConns
    BY <1>ty, <1>13 DEF ReleaseSyncConnection, OneUser
  <2>2. CASE pool' = pool
    BY <1>ty, IdleStays, <1>13, <2>2 DEF ReleaseSyncConnection
  <2>3. CASE pool' = Append(pool, conn[q])
    BY <1>ty, PutStep, <1>13, <2>1, <2>3 DEF ReleaseSyncConnection
  <2> QED
    BY <1>13, <2>2, <2>3 DEF ReleaseSyncConnection
<1>14. ASSUME NEW q \in Queries, DiscardSyncConnection(q) PROVE Names'
  BY <1>14, <1>ty, IdleStays DEF DiscardSyncConnection
<1>15. ASSUME NEW q \in Queries, CloseConn(q) PROVE Names'
  BY <1>15, <1>ty, IdleStays DEF CloseConn
<1>16. ASSUME NEW q \in Queries, ReleaseSyncPoolSlot(q) PROVE Names'
  BY <1>16, <1>ty, IdleStays DEF ReleaseSyncPoolSlot, FreeSlot
<1>17. ASSUME NEW q \in Queries, WriteMessage(q) PROVE Names'
  BY <1>17, <1>ty, IdleStays DEF WriteMessage
<1>18. ASSUME NEW q \in Queries, ReadMessage(q) PROVE Names'
  BY <1>18, <1>ty, IdleStays DEF ReadMessage
<1>19. ASSUME NEW q \in Queries, ReaderFails(q) PROVE Names'
  BY <1>19, <1>ty, IdleStays DEF ReaderFails
<1>20. CASE DisposeBegin
  BY <1>20, <1>ty, IdleStays DEF DisposeBegin
<1>21. CASE DisposeCloseActive
  BY <1>21, <1>ty, IdleStays DEF DisposeCloseActive
<1>22. CASE DrainTake
  <2>1. CASE ~PoolEmpty
    BY <1>ty, TakeStep, <1>22, <2>1 DEF DrainTake
  <2>2. CASE PoolEmpty
    BY <1>ty, IdleStays, <1>22, <2>2 DEF DrainTake
  <2> QED
    BY ONLY <2>1, <2>2
<1>23. CASE DrainClose
  BY <1>23, <1>ty, IdleStays DEF DrainClose
<1>24. CASE DrainSlot
  BY <1>24, <1>ty, IdleStays DEF DrainSlot, FreeSlot
<1>25. CASE UNCHANGED vars
  BY <1>25, <1>ty, IdleStays DEF vars
<1> QED
  BY <1>1, <1>2, <1>3, <1>4, <1>5, <1>6, <1>7, <1>8, <1>9, <1>10, <1>11,
     <1>12, <1>13, <1>14, <1>15, <1>16, <1>17, <1>18, <1>19, <1>20, <1>21,
     <1>22, <1>23, <1>24, <1>25
  DEF Next, QueryStep, ReaderStep, DisposeStep, Terminated

LEMMA OneUserNext ==
  TypeOK /\ Names /\ Distinct /\ OneUser /\ [Next]_vars => Distinct' /\ OneUser'
<1> SUFFICES ASSUME TypeOK, Names, Distinct, OneUser
             PROVE  [Next]_vars => Distinct' /\ OneUser'
  OBVIOUS
<1>ty. /\ pc \in [Queries -> PCs]
       /\ conn \in [Queries -> Queries \cup {None}]
       /\ \A q \in Queries : pc[q] \in ConnPCs => conn[q] \in Queries
       /\ open \subseteq Queries
       /\ IdleConns \subseteq Queries
  BY IdleIsConns DEF TypeOK, CallTypeOK, Conns
<1> USE DEF OneUser, Names, EarlyPCs, PCs, SlotPCs, ConnPCs, LeasePCs, Conns, Goto,
            qvars, pvars, kvars, dvars
<1>k. ASSUME NEW q \in Queries, NEW from, TakeIdle(q, from) PROVE Distinct' /\ OneUser'
  <2>1. /\ Head(pool) \in IdleConns
        /\ IdleConns' = IdleConns \ {Head(pool)}
        /\ Distinct'
    BY <1>k, TakeStep DEF TakeIdle
  <2>2. /\ pc[q] = from
        /\ pc' = [pc EXCEPT ![q] = "activate"]
        /\ conn' = [conn EXCEPT ![q] = Head(pool)]
        /\ UNCHANGED <<reader, answer, open, wire, dispose, toClose, drained>>
    BY <1>k DEF TakeIdle
  <2> QED
    BY <1>ty, <2>1, <2>2
<1>1. ASSUME NEW q \in Queries, EnsureSyncPool(q) PROVE Distinct' /\ OneUser'
  BY <1>1, <1>ty, IdleStays DEF EnsureSyncPool
<1>2. ASSUME NEW q \in Queries, SyncPoolChannels(q) PROVE Distinct' /\ OneUser'
  BY <1>2, <1>ty, IdleStays DEF SyncPoolChannels
<1>3. ASSUME NEW q \in Queries, Poll(q) PROVE Distinct' /\ OneUser'
  <2>1. CASE TakeIdle(q, "poll")
    BY <1>k, <2>1
  <2>2. CASE ~TakeIdle(q, "poll")
    BY <1>ty, IdleStays, <1>3, <2>2 DEF Poll
  <2> QED
    BY ONLY <2>1, <2>2
<1>4. ASSUME NEW q \in Queries, WaitIdle(q) PROVE Distinct' /\ OneUser'
  BY <1>k, <1>4 DEF WaitIdle
<1>5. ASSUME NEW q \in Queries, WaitSlot(q) PROVE Distinct' /\ OneUser'
  BY <1>5, <1>ty, IdleStays DEF WaitSlot
<1>6. ASSUME NEW q \in Queries, WaitTimeout(q) PROVE Distinct' /\ OneUser'
  BY <1>6, <1>ty, IdleStays DEF WaitTimeout
<1>7. ASSUME NEW q \in Queries, Dial(q) PROVE Distinct' /\ OneUser'
  BY <1>7, <1>ty, IdleStays DEF Dial
<1>8. ASSUME NEW q \in Queries, DialFails(q) PROVE Distinct' /\ OneUser'
  BY <1>8, <1>ty, IdleStays DEF DialFails
<1>9. ASSUME NEW q \in Queries, ActivateSyncConnection(q) PROVE Distinct' /\ OneUser'
  BY <1>9, <1>ty, IdleStays DEF ActivateSyncConnection, FreeSlot
<1>10. ASSUME NEW q \in Queries, StartReader(q) PROVE Distinct' /\ OneUser'
  BY <1>10, <1>ty, IdleStays DEF StartReader
<1>11. ASSUME NEW q \in Queries, AwaitAnswer(q) PROVE Distinct' /\ OneUser'
  BY <1>11, <1>ty, IdleStays DEF AwaitAnswer
<1>12. ASSUME NEW q \in Queries, AwaitTimeout(q) PROVE Distinct' /\ OneUser'
  BY <1>12, <1>ty, IdleStays DEF AwaitTimeout
<1>13. ASSUME NEW q \in Queries, ReleaseSyncConnection(q) PROVE Distinct' /\ OneUser'
  <2>1. conn[q] \in Queries /\ conn[q] \notin IdleConns
    BY <1>ty, <1>13 DEF ReleaseSyncConnection, OneUser
  <2>2. CASE pool' = pool
    BY <1>ty, IdleStays, <1>13, <2>2 DEF ReleaseSyncConnection
  <2>3. CASE pool' = Append(pool, conn[q])
    <3>1. pc' = [pc EXCEPT ![q] = "done"]
      BY <1>ty, <1>13, <2>3, PutProperties, LenProperties DEF ReleaseSyncConnection, TypeOK
    <3> QED
      BY <1>ty, PutStep, <1>13, <2>1, <2>3, <3>1 DEF ReleaseSyncConnection
  <2> QED
    BY <1>13, <2>2, <2>3 DEF ReleaseSyncConnection
<1>14. ASSUME NEW q \in Queries, DiscardSyncConnection(q) PROVE Distinct' /\ OneUser'
  BY <1>14, <1>ty, IdleStays DEF DiscardSyncConnection
<1>15. ASSUME NEW q \in Queries, CloseConn(q) PROVE Distinct' /\ OneUser'
  BY <1>15, <1>ty, IdleStays DEF CloseConn
<1>16. ASSUME NEW q \in Queries, ReleaseSyncPoolSlot(q) PROVE Distinct' /\ OneUser'
  BY <1>16, <1>ty, IdleStays DEF ReleaseSyncPoolSlot, FreeSlot
<1>17. ASSUME NEW q \in Queries, WriteMessage(q) PROVE Distinct' /\ OneUser'
  BY <1>17, <1>ty, IdleStays DEF WriteMessage
<1>18. ASSUME NEW q \in Queries, ReadMessage(q) PROVE Distinct' /\ OneUser'
  BY <1>18, <1>ty, IdleStays DEF ReadMessage
<1>19. ASSUME NEW q \in Queries, ReaderFails(q) PROVE Distinct' /\ OneUser'
  BY <1>19, <1>ty, IdleStays DEF ReaderFails
<1>20. CASE DisposeBegin
  BY <1>20, <1>ty, IdleStays DEF DisposeBegin
<1>21. CASE DisposeCloseActive
  BY <1>21, <1>ty, IdleStays DEF DisposeCloseActive
<1>22. CASE DrainTake
  <2>1. CASE ~PoolEmpty
    BY <1>ty, TakeStep, <1>22, <2>1 DEF DrainTake
  <2>2. CASE PoolEmpty
    BY <1>ty, IdleStays, <1>22, <2>2 DEF DrainTake
  <2> QED
    BY ONLY <2>1, <2>2
<1>23. CASE DrainClose
  BY <1>23, <1>ty, IdleStays DEF DrainClose
<1>24. CASE DrainSlot
  BY <1>24, <1>ty, IdleStays DEF DrainSlot, FreeSlot
<1>25. CASE UNCHANGED vars
  BY <1>25, <1>ty, IdleStays DEF vars
<1> QED
  BY <1>1, <1>2, <1>3, <1>4, <1>5, <1>6, <1>7, <1>8, <1>9, <1>10, <1>11,
     <1>12, <1>13, <1>14, <1>15, <1>16, <1>17, <1>18, <1>19, <1>20, <1>21,
     <1>22, <1>23, <1>24, <1>25
  DEF Next, QueryStep, ReaderStep, DisposeStep, Terminated

LEMMA OwnedNext ==
  TypeOK /\ Names /\ Distinct /\ OneUser /\ Owned /\ [Next]_vars => Owned'
<1> SUFFICES ASSUME TypeOK, Names, Distinct, OneUser, Owned
             PROVE  [Next]_vars => Owned'
  OBVIOUS
<1>ty. /\ pc \in [Queries -> PCs]
       /\ conn \in [Queries -> Queries \cup {None}]
       /\ \A q \in Queries : pc[q] \in ConnPCs => conn[q] \in Queries
       /\ open \subseteq Queries
       /\ IdleConns \subseteq Queries
  BY IdleIsConns DEF TypeOK, CallTypeOK, Conns
<1> USE DEF Owned, closed, PCs, SlotPCs, ConnPCs, LeasePCs, Conns, Goto,
            qvars, pvars, kvars, dvars
<1>k. ASSUME NEW q \in Queries, NEW from \in {"poll", "wait"}, TakeIdle(q, from)
              PROVE  Owned'
  <2>1. /\ Head(pool) \in IdleConns
        /\ IdleConns' = IdleConns \ {Head(pool)}
        /\ Distinct'
    BY <1>k, TakeStep DEF TakeIdle
  <2>2. /\ pc[q] = from
        /\ pc' = [pc EXCEPT ![q] = "activate"]
        /\ conn' = [conn EXCEPT ![q] = Head(pool)]
        /\ UNCHANGED <<reader, answer, open, wire, dispose, toClose, drained>>
    BY <1>k DEF TakeIdle
  <2> QED
    BY <1>ty, <2>1, <2>2
<1>1. ASSUME NEW q \in Queries, EnsureSyncPool(q) PROVE Owned'
  BY <1>1, <1>ty, IdleStays DEF EnsureSyncPool
<1>2. ASSUME NEW q \in Queries, SyncPoolChannels(q) PROVE Owned'
  BY <1>2, <1>ty, IdleStays DEF SyncPoolChannels
<1>3. ASSUME NEW q \in Queries, Poll(q) PROVE Owned'
  <2>1. CASE TakeIdle(q, "poll")
    BY <1>k, <2>1
  <2>2. CASE ~TakeIdle(q, "poll")
    <3>1. /\ pc[q] = "poll"
          /\ pc' = [pc EXCEPT ![q] = "wait"]
          /\ UNCHANGED <<conn, pool, open, dispose, drained>>
      BY <1>3, <2>2 DEF Poll
    <3> QED
      BY <1>ty, IdleStays, <3>1
  <2> QED
    BY ONLY <2>1, <2>2
<1>4. ASSUME NEW q \in Queries, WaitIdle(q) PROVE Owned'
  BY <1>k, <1>4 DEF WaitIdle
<1>5. ASSUME NEW q \in Queries, WaitSlot(q) PROVE Owned'
  BY <1>5, <1>ty, IdleStays DEF WaitSlot
<1>6. ASSUME NEW q \in Queries, WaitTimeout(q) PROVE Owned'
  BY <1>6, <1>ty, IdleStays DEF WaitTimeout
<1>7. ASSUME NEW q \in Queries, Dial(q) PROVE Owned'
  BY <1>7, <1>ty, IdleStays DEF Dial
<1>8. ASSUME NEW q \in Queries, DialFails(q) PROVE Owned'
  BY <1>8, <1>ty, IdleStays DEF DialFails
<1>9. ASSUME NEW q \in Queries, ActivateSyncConnection(q) PROVE Owned'
  BY <1>9, <1>ty, IdleStays DEF ActivateSyncConnection, FreeSlot
<1>10. ASSUME NEW q \in Queries, StartReader(q) PROVE Owned'
  BY <1>10, <1>ty, IdleStays DEF StartReader
<1>11. ASSUME NEW q \in Queries, AwaitAnswer(q) PROVE Owned'
  BY <1>11, <1>ty, IdleStays DEF AwaitAnswer
<1>12. ASSUME NEW q \in Queries, AwaitTimeout(q) PROVE Owned'
  BY <1>12, <1>ty, IdleStays DEF AwaitTimeout
<1>13. ASSUME NEW q \in Queries, ReleaseSyncConnection(q) PROVE Owned'
  <2>1. conn[q] \in Queries /\ conn[q] \notin IdleConns
    BY <1>ty, <1>13 DEF ReleaseSyncConnection, OneUser
  <2>2. CASE pool' = pool
    <3>1. pc' = [pc EXCEPT ![q] = "close"]
      BY <1>ty, <1>13, <2>2, PutProperties, LenProperties DEF ReleaseSyncConnection, TypeOK
    <3> QED
      BY <1>ty, IdleStays, <1>13, <2>2, <3>1 DEF ReleaseSyncConnection
  <2>3. CASE pool' = Append(pool, conn[q])
    BY <1>ty, PutStep, <1>13, <2>1, <2>3 DEF ReleaseSyncConnection
  <2> QED
    BY <1>13, <2>2, <2>3 DEF ReleaseSyncConnection
<1>14. ASSUME NEW q \in Queries, DiscardSyncConnection(q) PROVE Owned'
  BY <1>14, <1>ty, IdleStays DEF DiscardSyncConnection
<1>15. ASSUME NEW q \in Queries, CloseConn(q) PROVE Owned'
  BY <1>15, <1>ty, IdleStays DEF CloseConn
<1>16. ASSUME NEW q \in Queries, ReleaseSyncPoolSlot(q) PROVE Owned'
  BY <1>16, <1>ty, IdleStays DEF ReleaseSyncPoolSlot, FreeSlot
<1>17. ASSUME NEW q \in Queries, WriteMessage(q) PROVE Owned'
  BY <1>17, <1>ty, IdleStays DEF WriteMessage
<1>18. ASSUME NEW q \in Queries, ReadMessage(q) PROVE Owned'
  BY <1>18, <1>ty, IdleStays DEF ReadMessage
<1>19. ASSUME NEW q \in Queries, ReaderFails(q) PROVE Owned'
  BY <1>19, <1>ty, IdleStays DEF ReaderFails
<1>20. CASE DisposeBegin
  BY <1>20, <1>ty, IdleStays DEF DisposeBegin
<1>21. CASE DisposeCloseActive
  BY <1>21, <1>ty, IdleStays DEF DisposeCloseActive
<1>22. CASE DrainTake
  <2>1. CASE ~PoolEmpty
    BY <1>ty, TakeStep, <1>22, <2>1 DEF DrainTake
  <2>2. CASE PoolEmpty
    BY <1>ty, IdleStays, <1>22, <2>2 DEF DrainTake
  <2> QED
    BY ONLY <2>1, <2>2
<1>23. CASE DrainClose
  BY <1>23, <1>ty, IdleStays DEF DrainClose
<1>24. CASE DrainSlot
  BY <1>24, <1>ty, IdleStays DEF DrainSlot, FreeSlot
<1>25. CASE UNCHANGED vars
  BY <1>25, <1>ty, IdleStays DEF vars
<1> HIDE DEF Owned
<1> QED
  BY ONLY <1>1, <1>2, <1>3, <1>4, <1>5, <1>6, <1>7, <1>8, <1>9, <1>10, <1>11,
     <1>12, <1>13, <1>14, <1>15, <1>16, <1>17, <1>18, <1>19, <1>20,
     <1>21, <1>22, <1>23, <1>24, <1>25
  DEF Next, QueryStep, ReaderStep, DisposeStep, Terminated

LEMMA AliveNext ==
  TypeOK /\ Names /\ Distinct /\ OneUser /\ Alive /\ [Next]_vars => Alive'
<1> SUFFICES ASSUME TypeOK, Names, Distinct, OneUser, Alive
             PROVE  [Next]_vars => Alive'
  OBVIOUS
<1>ty. /\ pc \in [Queries -> PCs]
       /\ conn \in [Queries -> Queries \cup {None}]
       /\ \A q \in Queries : pc[q] \in ConnPCs => conn[q] \in Queries
       /\ open \subseteq Queries
       /\ IdleConns \subseteq Queries
  BY IdleIsConns DEF TypeOK, CallTypeOK, Conns
<1> USE DEF Alive, OneUser, Names, EarlyPCs, closed, PCs, SlotPCs, ConnPCs, LeasePCs, Conns, Goto,
            qvars, pvars, kvars, dvars
<1>k. ASSUME NEW q \in Queries, NEW from, TakeIdle(q, from) PROVE Alive'
  <2>1. /\ Head(pool) \in IdleConns
        /\ IdleConns' = IdleConns \ {Head(pool)}
        /\ Distinct'
    BY <1>k, TakeStep DEF TakeIdle
  <2>2. /\ pc[q] = from
        /\ pc' = [pc EXCEPT ![q] = "activate"]
        /\ conn' = [conn EXCEPT ![q] = Head(pool)]
        /\ UNCHANGED <<reader, answer, open, wire, dispose, toClose, drained>>
    BY <1>k DEF TakeIdle
  <2> QED
    BY <1>ty, <2>1, <2>2
<1>1. ASSUME NEW q \in Queries, EnsureSyncPool(q) PROVE Alive'
  BY <1>1, <1>ty, IdleStays DEF EnsureSyncPool
<1>2. ASSUME NEW q \in Queries, SyncPoolChannels(q) PROVE Alive'
  BY <1>2, <1>ty, IdleStays DEF SyncPoolChannels
<1>3. ASSUME NEW q \in Queries, Poll(q) PROVE Alive'
  <2>1. CASE TakeIdle(q, "poll")
    BY <1>k, <2>1
  <2>2. CASE ~TakeIdle(q, "poll")
    <3>1. /\ pc[q] = "poll"
          /\ pc' = [pc EXCEPT ![q] = "wait"]
          /\ UNCHANGED <<conn, reader, answer, pvars, kvars, dvars>>
      BY <1>3, <2>2 DEF Poll
    <3> QED
      BY <1>ty, IdleStays, <3>1
  <2> QED
    BY ONLY <2>1, <2>2
<1>4. ASSUME NEW q \in Queries, WaitIdle(q) PROVE Alive'
  BY <1>k, <1>4 DEF WaitIdle
<1>5. ASSUME NEW q \in Queries, WaitSlot(q) PROVE Alive'
  BY <1>5, <1>ty, IdleStays DEF WaitSlot
<1>6. ASSUME NEW q \in Queries, WaitTimeout(q) PROVE Alive'
  BY <1>6, <1>ty, IdleStays DEF WaitTimeout
<1>7. ASSUME NEW q \in Queries, Dial(q) PROVE Alive'
  BY <1>7, <1>ty, IdleStays DEF Dial
<1>8. ASSUME NEW q \in Queries, DialFails(q) PROVE Alive'
  BY <1>8, <1>ty, IdleStays DEF DialFails
<1>9. ASSUME NEW q \in Queries, ActivateSyncConnection(q) PROVE Alive'
  BY <1>9, <1>ty, IdleStays DEF ActivateSyncConnection, FreeSlot
<1>10. ASSUME NEW q \in Queries, StartReader(q) PROVE Alive'
  BY <1>10, <1>ty, IdleStays DEF StartReader
<1>11. ASSUME NEW q \in Queries, AwaitAnswer(q) PROVE Alive'
  BY <1>11, <1>ty, IdleStays DEF AwaitAnswer
<1>12. ASSUME NEW q \in Queries, AwaitTimeout(q) PROVE Alive'
  BY <1>12, <1>ty, IdleStays DEF AwaitTimeout
<1>13. ASSUME NEW q \in Queries, ReleaseSyncConnection(q) PROVE Alive'
  <2>1. conn[q] \in Queries /\ conn[q] \notin IdleConns
    BY <1>ty, <1>13 DEF ReleaseSyncConnection, OneUser
  <2>2. CASE pool' = pool
    <3>1. pc' = [pc EXCEPT ![q] = "close"]
      BY <1>ty, <1>13, <2>2, PutProperties, LenProperties DEF ReleaseSyncConnection, TypeOK
    <3> QED
      BY <1>ty, IdleStays, <1>13, <2>2, <3>1 DEF ReleaseSyncConnection
  <2>3. CASE pool' = Append(pool, conn[q])
    BY <1>ty, PutStep, <1>13, <2>1, <2>3 DEF ReleaseSyncConnection
  <2> QED
    BY <1>13, <2>2, <2>3 DEF ReleaseSyncConnection
<1>14. ASSUME NEW q \in Queries, DiscardSyncConnection(q) PROVE Alive'
  BY <1>14, <1>ty, IdleStays DEF DiscardSyncConnection
<1>15. ASSUME NEW q \in Queries, CloseConn(q) PROVE Alive'
  BY <1>15, <1>ty, IdleStays DEF CloseConn
<1>16. ASSUME NEW q \in Queries, ReleaseSyncPoolSlot(q) PROVE Alive'
  BY <1>16, <1>ty, IdleStays DEF ReleaseSyncPoolSlot, FreeSlot
<1>17. ASSUME NEW q \in Queries, WriteMessage(q) PROVE Alive'
  BY <1>17, <1>ty, IdleStays DEF WriteMessage
<1>18. ASSUME NEW q \in Queries, ReadMessage(q) PROVE Alive'
  BY <1>18, <1>ty, IdleStays DEF ReadMessage
<1>19. ASSUME NEW q \in Queries, ReaderFails(q) PROVE Alive'
  BY <1>19, <1>ty, IdleStays DEF ReaderFails
<1>20. CASE DisposeBegin
  BY <1>20, <1>ty, IdleStays DEF DisposeBegin
<1>21. CASE DisposeCloseActive
  BY <1>21, <1>ty, IdleStays DEF DisposeCloseActive
<1>22. CASE DrainTake
  <2>1. CASE ~PoolEmpty
    BY <1>ty, TakeStep, <1>22, <2>1 DEF DrainTake
  <2>2. CASE PoolEmpty
    BY <1>ty, IdleStays, <1>22, <2>2 DEF DrainTake
  <2> QED
    BY ONLY <2>1, <2>2
<1>23. CASE DrainClose
  BY <1>23, <1>ty, IdleStays DEF DrainClose
<1>24. CASE DrainSlot
  BY <1>24, <1>ty, IdleStays DEF DrainSlot, FreeSlot
<1>25. CASE UNCHANGED vars
  BY <1>25, <1>ty, IdleStays DEF vars
<1> QED
  BY ONLY <1>1, <1>2, <1>3, <1>4, <1>5, <1>6, <1>7, <1>8, <1>9, <1>10, <1>11,
     <1>12, <1>13, <1>14, <1>15, <1>16, <1>17, <1>18, <1>19, <1>20,
     <1>21, <1>22, <1>23, <1>24, <1>25
  DEF Next, QueryStep, ReaderStep, DisposeStep, Terminated

LEMMA MessageProperties ==
  ASSUME NEW q \in Queries
  PROVE  /\ Append(NoMessage, q) = OneMessage(q)
         /\ Head(OneMessage(q)) = q
         /\ Tail(OneMessage(q)) = NoMessage
BY DEF NoMessage, OneMessage

LEMMA ReadersNext ==
  TypeOK /\ Names /\ Distinct /\ Readers /\ [Next]_vars => Readers'
<1> SUFFICES ASSUME TypeOK, Names, Distinct, Readers
             PROVE  [Next]_vars => Readers'
  OBVIOUS
<1>ty. /\ pc \in [Queries -> PCs]
       /\ conn \in [Queries -> Queries \cup {None}]
       /\ \A q \in Queries : pc[q] \in ConnPCs => conn[q] \in Queries
       /\ open \subseteq Queries
       /\ IdleConns \subseteq Queries
       /\ reader \in [Queries -> {"none", "write", "read", "got", "failed"}]
       /\ answer \in [Queries -> Queries \cup {None}]
       /\ wire \in [Queries -> Seq(Queries)]
  BY IdleIsConns DEF TypeOK, CallTypeOK, Conns
<1> USE DEF Readers, Names, EarlyPCs, PCs, SlotPCs, ConnPCs, LeasePCs, Conns, Goto,
            qvars, pvars, kvars, dvars
<1>k. ASSUME NEW q \in Queries, NEW from \in {"poll", "wait"}, TakeIdle(q, from)
              PROVE  Readers'
  <2>1. /\ Head(pool) \in IdleConns
        /\ IdleConns' = IdleConns \ {Head(pool)}
        /\ Distinct'
    BY <1>k, TakeStep DEF TakeIdle
  <2>2. /\ pc[q] = from
        /\ pc' = [pc EXCEPT ![q] = "activate"]
        /\ conn' = [conn EXCEPT ![q] = Head(pool)]
        /\ UNCHANGED <<reader, answer, open, wire, dispose, toClose, drained>>
    BY <1>k DEF TakeIdle
  <2> QED
    BY <1>ty, <2>1, <2>2
<1>1. ASSUME NEW q \in Queries, EnsureSyncPool(q) PROVE Readers'
  BY <1>1, <1>ty DEF EnsureSyncPool
<1>2. ASSUME NEW q \in Queries, SyncPoolChannels(q) PROVE Readers'
  BY <1>2, <1>ty DEF SyncPoolChannels
<1>3. ASSUME NEW q \in Queries, Poll(q) PROVE Readers'
  <2>1. CASE TakeIdle(q, "poll")
    BY <1>k, <2>1
  <2>2. CASE ~TakeIdle(q, "poll")
    <3>1. /\ pc[q] = "poll"
          /\ pc' = [pc EXCEPT ![q] = "wait"]
          /\ UNCHANGED <<conn, reader, answer, pvars, kvars, dvars>>
      BY <1>3, <2>2 DEF Poll
    <3> QED
      BY <1>ty, IdleStays, <3>1
  <2> QED
    BY ONLY <2>1, <2>2
<1>4. ASSUME NEW q \in Queries, WaitIdle(q) PROVE Readers'
  BY <1>k, <1>4 DEF WaitIdle
<1>5. ASSUME NEW q \in Queries, WaitSlot(q) PROVE Readers'
  BY <1>5, <1>ty DEF WaitSlot
<1>6. ASSUME NEW q \in Queries, WaitTimeout(q) PROVE Readers'
  BY <1>6, <1>ty DEF WaitTimeout
<1>7. ASSUME NEW q \in Queries, Dial(q) PROVE Readers'
  BY <1>7, <1>ty DEF Dial
<1>8. ASSUME NEW q \in Queries, DialFails(q) PROVE Readers'
  BY <1>8, <1>ty DEF DialFails
<1>9. ASSUME NEW q \in Queries, ActivateSyncConnection(q) PROVE Readers'
  BY <1>9, <1>ty DEF ActivateSyncConnection, FreeSlot
<1>10. ASSUME NEW q \in Queries, StartReader(q) PROVE Readers'
  BY <1>10, <1>ty DEF StartReader
<1>11. ASSUME NEW q \in Queries, AwaitAnswer(q) PROVE Readers'
  BY <1>11, <1>ty DEF AwaitAnswer
<1>12. ASSUME NEW q \in Queries, AwaitTimeout(q) PROVE Readers'
  BY <1>12, <1>ty DEF AwaitTimeout
<1>13. ASSUME NEW q \in Queries, ReleaseSyncConnection(q) PROVE Readers'
  BY <1>13, <1>ty DEF ReleaseSyncConnection, PoolFree
<1>14. ASSUME NEW q \in Queries, DiscardSyncConnection(q) PROVE Readers'
  BY <1>14, <1>ty DEF DiscardSyncConnection
<1>15. ASSUME NEW q \in Queries, CloseConn(q) PROVE Readers'
  BY <1>15, <1>ty DEF CloseConn
<1>16. ASSUME NEW q \in Queries, ReleaseSyncPoolSlot(q) PROVE Readers'
  BY <1>16, <1>ty DEF ReleaseSyncPoolSlot, FreeSlot
<1>17. ASSUME NEW q \in Queries, WriteMessage(q) PROVE Readers'
  BY <1>17, <1>ty DEF WriteMessage
<1>18. ASSUME NEW q \in Queries, ReadMessage(q) PROVE Readers'
  BY <1>18, <1>ty DEF ReadMessage
<1>19. ASSUME NEW q \in Queries, ReaderFails(q) PROVE Readers'
  BY <1>19, <1>ty DEF ReaderFails
<1>20. CASE DisposeBegin
  BY <1>20, <1>ty DEF DisposeBegin
<1>21. CASE DisposeCloseActive
  BY <1>21, <1>ty DEF DisposeCloseActive
<1>22. CASE DrainTake
  BY <1>22, <1>ty DEF DrainTake
<1>23. CASE DrainClose
  BY <1>23, <1>ty DEF DrainClose
<1>24. CASE DrainSlot
  BY <1>24, <1>ty DEF DrainSlot, FreeSlot
<1>25. CASE UNCHANGED vars
  BY <1>25, <1>ty DEF vars
<1> HIDE DEF Readers
<1> QED
  BY ONLY <1>1, <1>2, <1>3, <1>4, <1>5, <1>6, <1>7, <1>8, <1>9, <1>10, <1>11,
     <1>12, <1>13, <1>14, <1>15, <1>16, <1>17, <1>18, <1>19, <1>20,
     <1>21, <1>22, <1>23, <1>24, <1>25
  DEF Next, QueryStep, ReaderStep, DisposeStep, Terminated

LEMMA WiresNext ==
  TypeOK /\ Names /\ Distinct /\ OneUser /\ Readers /\ Wires /\ [Next]_vars => Wires'
<1> SUFFICES ASSUME TypeOK, Names, Distinct, OneUser, Readers, Wires
             PROVE  [Next]_vars => Wires'
  OBVIOUS
<1>ty. /\ pc \in [Queries -> PCs]
       /\ conn \in [Queries -> Queries \cup {None}]
       /\ \A q \in Queries : pc[q] \in ConnPCs => conn[q] \in Queries
       /\ open \subseteq Queries
       /\ IdleConns \subseteq Queries
       /\ reader \in [Queries -> {"none", "write", "read", "got", "failed"}]
       /\ answer \in [Queries -> Queries \cup {None}]
       /\ wire \in [Queries -> Seq(Queries)]
  BY IdleIsConns DEF TypeOK, CallTypeOK, Conns
<1> USE DEF Wires, Readers, OneUser, Names, EarlyPCs, PCs, SlotPCs, ConnPCs, LeasePCs, Conns, Goto,
            qvars, pvars, kvars, dvars
<1>k. ASSUME NEW q \in Queries, NEW from \in {"poll", "wait"}, TakeIdle(q, from)
              PROVE  Wires'
  <2>1. /\ Head(pool) \in IdleConns
        /\ IdleConns' = IdleConns \ {Head(pool)}
        /\ Distinct'
    BY <1>k, TakeStep DEF TakeIdle
  <2>2. /\ pc[q] = from
        /\ pc' = [pc EXCEPT ![q] = "activate"]
        /\ conn' = [conn EXCEPT ![q] = Head(pool)]
        /\ UNCHANGED <<reader, answer, open, wire, dispose, toClose, drained>>
    BY <1>k DEF TakeIdle
  <2> QED
    BY <1>ty, <2>1, <2>2
<1>1. ASSUME NEW q \in Queries, EnsureSyncPool(q) PROVE Wires'
  BY <1>1, <1>ty, IdleStays DEF EnsureSyncPool
<1>2. ASSUME NEW q \in Queries, SyncPoolChannels(q) PROVE Wires'
  BY <1>2, <1>ty, IdleStays DEF SyncPoolChannels
<1>3. ASSUME NEW q \in Queries, Poll(q) PROVE Wires'
  <2>1. CASE TakeIdle(q, "poll")
    BY <1>k, <2>1
  <2>2. CASE ~TakeIdle(q, "poll")
    <3>1. /\ pc[q] = "poll"
          /\ pc' = [pc EXCEPT ![q] = "wait"]
          /\ UNCHANGED <<conn, reader, answer, pvars, kvars, dvars>>
      BY <1>3, <2>2 DEF Poll
    <3> QED
      BY <1>ty, IdleStays, <3>1
  <2> QED
    BY ONLY <2>1, <2>2
<1>4. ASSUME NEW q \in Queries, WaitIdle(q) PROVE Wires'
  BY <1>k, <1>4 DEF WaitIdle
<1>5. ASSUME NEW q \in Queries, WaitSlot(q) PROVE Wires'
  BY <1>5, <1>ty, IdleStays DEF WaitSlot
<1>6. ASSUME NEW q \in Queries, WaitTimeout(q) PROVE Wires'
  BY <1>6, <1>ty, IdleStays DEF WaitTimeout
<1>7. ASSUME NEW q \in Queries, Dial(q) PROVE Wires'
  BY <1>7, <1>ty, IdleStays DEF Dial
<1>8. ASSUME NEW q \in Queries, DialFails(q) PROVE Wires'
  BY <1>8, <1>ty, IdleStays DEF DialFails
<1>9. ASSUME NEW q \in Queries, ActivateSyncConnection(q) PROVE Wires'
  BY <1>9, <1>ty, IdleStays DEF ActivateSyncConnection, FreeSlot
<1>10. ASSUME NEW q \in Queries, StartReader(q) PROVE Wires'
  BY <1>10, <1>ty, IdleStays DEF StartReader
<1>11. ASSUME NEW q \in Queries, AwaitAnswer(q) PROVE Wires'
  BY <1>11, <1>ty, IdleStays DEF AwaitAnswer
<1>12. ASSUME NEW q \in Queries, AwaitTimeout(q) PROVE Wires'
  BY <1>12, <1>ty, IdleStays DEF AwaitTimeout
<1>13. ASSUME NEW q \in Queries, ReleaseSyncConnection(q) PROVE Wires'
  <2>1. conn[q] \in Queries /\ conn[q] \notin IdleConns
    BY <1>ty, <1>13 DEF ReleaseSyncConnection, OneUser
  <2>2. CASE pool' = pool
    BY <1>ty, IdleStays, <1>13, <2>2 DEF ReleaseSyncConnection
  <2>3. CASE pool' = Append(pool, conn[q])
    BY <1>ty, PutStep, <1>13, <2>1, <2>3 DEF ReleaseSyncConnection
  <2> QED
    BY <1>13, <2>2, <2>3 DEF ReleaseSyncConnection
<1>14. ASSUME NEW q \in Queries, DiscardSyncConnection(q) PROVE Wires'
  BY <1>14, <1>ty, IdleStays DEF DiscardSyncConnection
<1>15. ASSUME NEW q \in Queries, CloseConn(q) PROVE Wires'
  BY <1>15, <1>ty, IdleStays DEF CloseConn
<1>16. ASSUME NEW q \in Queries, ReleaseSyncPoolSlot(q) PROVE Wires'
  BY <1>16, <1>ty, IdleStays DEF ReleaseSyncPoolSlot, FreeSlot
<1>17. ASSUME NEW q \in Queries, WriteMessage(q) PROVE Wires'
  <2>1. pc[q] = "await" /\ conn[q] \in Queries /\ conn[conn[q]] = conn[q]
    BY <1>ty, <1>17 DEF WriteMessage
  <2>2. /\ conn[q] \notin IdleConns
        /\ \A p \in Queries : pc[p] \in ConnPCs /\ p # q => conn[p] # conn[q]
    BY <1>ty, <2>1
  <2>3. wire[conn[q]] = NoMessage
    BY <2>1, <1>17 DEF WriteMessage
  <2>4. /\ wire' = [wire EXCEPT ![conn[q]] = OneMessage(q)]
        /\ reader' = [reader EXCEPT ![q] = "read"]
        /\ UNCHANGED <<pc, conn, pool>>
    BY <2>3, MessageProperties, <1>17 DEF WriteMessage
  <2>5. /\ wire'[conn[q]] = OneMessage(q)
        /\ \A c \in Queries : c # conn[q] => wire'[c] = wire[c]
        /\ reader'[q] = "read"
        /\ \A p \in Queries : p # q => reader'[p] = reader[p]
    BY <1>ty, <2>1, <2>4
  <2> QED
    BY <1>ty, IdleStays, <2>1, <2>2, <2>4, <2>5
<1>18. ASSUME NEW q \in Queries, ReadMessage(q) PROVE Wires'
  <2>1. pc[q] = "await" /\ conn[q] \in Queries /\ conn[conn[q]] = conn[q]
    BY <1>ty, <1>18 DEF ReadMessage
  <2>2. /\ conn[q] \notin IdleConns
        /\ \A p \in Queries : pc[p] \in ConnPCs /\ p # q => conn[p] # conn[q]
    BY <1>ty, <2>1
  <2>3. wire[conn[q]] = OneMessage(q)
    BY <2>1, <1>18 DEF ReadMessage
  <2>4. /\ wire' = [wire EXCEPT ![conn[q]] = NoMessage]
        /\ reader' = [reader EXCEPT ![q] = "got"]
        /\ UNCHANGED <<pc, conn, pool>>
    BY <2>3, MessageProperties, <1>18 DEF ReadMessage
  <2>5. /\ wire'[conn[q]] = NoMessage
        /\ \A c \in Queries : c # conn[q] => wire'[c] = wire[c]
        /\ reader'[q] = "got"
        /\ \A p \in Queries : p # q => reader'[p] = reader[p]
    BY <1>ty, <2>1, <2>4
  <2> QED
    BY <1>ty, IdleStays, <2>1, <2>2, <2>4, <2>5
<1>19. ASSUME NEW q \in Queries, ReaderFails(q) PROVE Wires'
  BY <1>19, <1>ty, IdleStays DEF ReaderFails
<1>20. CASE DisposeBegin
  BY <1>20, <1>ty, IdleStays DEF DisposeBegin
<1>21. CASE DisposeCloseActive
  BY <1>21, <1>ty, IdleStays DEF DisposeCloseActive
<1>22. CASE DrainTake
  <2>1. CASE ~PoolEmpty
    BY <1>ty, TakeStep, <1>22, <2>1 DEF DrainTake
  <2>2. CASE PoolEmpty
    BY <1>ty, IdleStays, <1>22, <2>2 DEF DrainTake
  <2> QED
    BY ONLY <2>1, <2>2
<1>23. CASE DrainClose
  BY <1>23, <1>ty, IdleStays DEF DrainClose
<1>24. CASE DrainSlot
  BY <1>24, <1>ty, IdleStays DEF DrainSlot, FreeSlot
<1>25. CASE UNCHANGED vars
  BY <1>25, <1>ty, IdleStays DEF vars
<1> HIDE DEF Wires
<1> QED
  BY ONLY <1>1, <1>2, <1>3, <1>4, <1>5, <1>6, <1>7, <1>8, <1>9, <1>10, <1>11,
     <1>12, <1>13, <1>14, <1>15, <1>16, <1>17, <1>18, <1>19, <1>20,
     <1>21, <1>22, <1>23, <1>24, <1>25
  DEF Next, QueryStep, ReaderStep, DisposeStep, Terminated

LEMMA OwnAnswerNext ==
  TypeOK /\ Readers /\ Wires /\ OwnAnswer /\ [Next]_vars => OwnAnswer'
<1> SUFFICES ASSUME TypeOK, Readers, Wires, OwnAnswer
             PROVE  [Next]_vars => OwnAnswer'
  OBVIOUS
<1>1. ASSUME NEW q \in Queries, ReadMessage(q) PROVE OwnAnswer'
  <2>1. pc[q] = "await" /\ reader[q] = "read"
    BY <1>1 DEF ReadMessage, Readers
  <2>2. wire[conn[q]] = OneMessage(q)
    BY <2>1 DEF Wires
  <2>3. answer' = [answer EXCEPT ![q] = q]
    BY <1>1, <2>2, MessageProperties DEF ReadMessage
  <2> QED
    BY <2>3 DEF OwnAnswer, TypeOK
<1>2. ASSUME UNCHANGED answer PROVE OwnAnswer'
  BY <1>2 DEF OwnAnswer
<1>3. [Next]_vars => (\E q \in Queries : ReadMessage(q)) \/ UNCHANGED answer
  BY DEF Next, QueryStep, ReaderStep, DisposeStep, Terminated, vars, qvars,
         EnsureSyncPool, SyncPoolChannels, Poll, WaitIdle, WaitSlot,
         WaitTimeout, Dial, DialFails, ActivateSyncConnection,
         StartReader, AwaitAnswer, AwaitTimeout, ReleaseSyncConnection,
         DiscardSyncConnection, CloseConn, ReleaseSyncPoolSlot,
         WriteMessage, ReaderFails, DisposeBegin, DisposeCloseActive,
         DrainTake, DrainClose, DrainSlot, TakeIdle
<1> QED
  BY <1>1, <1>2, <1>3

-----------------------------------------------------------------------------
(* The slots.  A query enters the set of slot holders where it sends its     *)
(* token and leaves it where it takes one back.                              *)
Accounting ==
  /\ slots = Len(pool) + Cardinality(SlotHolders) + DrainSlots
  /\ slots =< Max

LEMMA HoldersFinite ==
  /\ SlotHolders \subseteq Queries
  /\ IsFiniteSet(SlotHolders)
  /\ Cardinality(SlotHolders) \in Nat
BY FS_Subset, FS_CardinalityType DEF SlotHolders

LEMMA HoldersStay ==
  ASSUME TypeOK, NEW q \in Queries, NEW to, pc' = [pc EXCEPT ![q] = to],
         pc[q] \in SlotPCs <=> to \in SlotPCs
  PROVE  SlotHolders' = SlotHolders
BY DEF TypeOK, CallTypeOK, SlotHolders

LEMMA HoldersEnter ==
  ASSUME TypeOK, NEW q \in Queries, NEW to, pc' = [pc EXCEPT ![q] = to],
         pc[q] \notin SlotPCs, to \in SlotPCs
  PROVE  Cardinality(SlotHolders') = Cardinality(SlotHolders) + 1
<1>1. SlotHolders' = SlotHolders \cup {q} /\ q \notin SlotHolders
  BY DEF TypeOK, CallTypeOK, SlotHolders
<1> QED
  BY <1>1, HoldersFinite, FS_AddElement

LEMMA HoldersLeave ==
  ASSUME TypeOK, NEW q \in Queries, NEW to, pc' = [pc EXCEPT ![q] = to],
         pc[q] \in SlotPCs, to \notin SlotPCs
  PROVE  Cardinality(SlotHolders') = Cardinality(SlotHolders) - 1
<1>1. SlotHolders' = SlotHolders \ {q} /\ q \in SlotHolders
  BY DEF TypeOK, CallTypeOK, SlotHolders
<1> QED
  BY <1>1, HoldersFinite, FS_RemoveElement

LEMMA HoldersCount ==
  ASSUME NEW q \in Queries, pc[q] \in SlotPCs
  PROVE  Cardinality(SlotHolders) >= 1
<1>1. SlotHolders # {}
  BY DEF SlotHolders
<1> QED
  BY <1>1, HoldersFinite, FS_EmptySet

LEMMA AccountingNext ==
  TypeOK /\ Accounting /\ [Next]_vars => Accounting'
<1> SUFFICES ASSUME TypeOK, Accounting
             PROVE  [Next]_vars => Accounting'
  OBVIOUS
<1>ty. /\ Cardinality(SlotHolders) \in Nat
       /\ Len(pool) \in Nat
       /\ slots \in Nat
  BY HoldersFinite, LenProperties DEF TypeOK
<1>s. ASSUME UNCHANGED pc PROVE SlotHolders' = SlotHolders
  BY <1>s DEF SlotHolders
<1> USE DEF Accounting, DrainSlots, SlotPCs, ConnPCs, LeasePCs, closed, Goto,
            qvars, pvars, kvars, dvars
<1>k. ASSUME NEW q \in Queries, NEW from \in {"poll", "wait"}, TakeIdle(q, from)
      PROVE  Accounting'
  <2>1. Len(pool') = Len(pool) - 1
    BY <1>k, TakeProperties DEF TakeIdle, PoolEmpty, TypeOK
  <2>2. Cardinality(SlotHolders') = Cardinality(SlotHolders) + 1
    BY <1>k, HoldersEnter DEF TakeIdle
  <2>3. UNCHANGED <<slots, dispose>>
    BY <1>k DEF TakeIdle
  <2> QED
    BY ONLY <1>ty, <2>1, <2>2, <2>3, Accounting DEF Accounting, DrainSlots
<1>1. ASSUME NEW q \in Queries, EnsureSyncPool(q) PROVE Accounting'
  <2>1. SlotHolders' = SlotHolders
    <3>1. PICK to \in {"channels", "done"} : pc[q] = "start" /\ pc' = [pc EXCEPT ![q] = to]
      BY <1>1 DEF EnsureSyncPool
    <3> QED
      BY <3>1, HoldersStay
  <2> QED
    BY <1>1, <1>ty, <2>1 DEF EnsureSyncPool
<1>2. ASSUME NEW q \in Queries, SyncPoolChannels(q) PROVE Accounting'
  <2>1. SlotHolders' = SlotHolders
    <3>1. PICK to \in {"poll", "done"} : pc[q] = "channels" /\ pc' = [pc EXCEPT ![q] = to]
      BY <1>2 DEF SyncPoolChannels
    <3> QED
      BY <3>1, HoldersStay
  <2> QED
    BY <1>2, <1>ty, <2>1 DEF SyncPoolChannels
<1>3. ASSUME NEW q \in Queries, Poll(q) PROVE Accounting'
  <2>1. CASE TakeIdle(q, "poll")
    BY <1>k, <2>1
  <2>2. CASE ~TakeIdle(q, "poll")
    <3>1. /\ pc[q] = "poll"
          /\ pc' = [pc EXCEPT ![q] = "wait"]
          /\ UNCHANGED <<pool, slots, dispose>>
      BY <1>3, <2>2 DEF Poll
    <3>2. SlotHolders' = SlotHolders
      BY <3>1, HoldersStay
    <3> QED
      BY <1>ty, <3>1, <3>2
  <2> QED
    BY ONLY <2>1, <2>2
<1>4. ASSUME NEW q \in Queries, WaitIdle(q) PROVE Accounting'
  BY <1>k, <1>4 DEF WaitIdle
<1>5. ASSUME NEW q \in Queries, WaitSlot(q) PROVE Accounting'
  <2>1. Cardinality(SlotHolders') = Cardinality(SlotHolders) + 1
    BY <1>5, HoldersEnter DEF WaitSlot
  <2> QED
    BY <1>5, <1>ty, <2>1 DEF WaitSlot, SlotFree
<1>6. ASSUME NEW q \in Queries, WaitTimeout(q) PROVE Accounting'
  <2>1. SlotHolders' = SlotHolders
    BY <1>6, HoldersStay DEF WaitTimeout
  <2> QED
    BY <1>6, <1>ty, <2>1 DEF WaitTimeout
<1>7. ASSUME NEW q \in Queries, Dial(q) PROVE Accounting'
  <2>1. SlotHolders' = SlotHolders
    BY <1>7, HoldersStay DEF Dial
  <2> QED
    BY <1>7, <1>ty, <2>1 DEF Dial
<1>8. ASSUME NEW q \in Queries, DialFails(q) PROVE Accounting'
  <2>1. SlotHolders' = SlotHolders
    BY <1>8, HoldersStay DEF DialFails
  <2> QED
    BY <1>8, <1>ty, <2>1 DEF DialFails
<1>9. ASSUME NEW q \in Queries, ActivateSyncConnection(q) PROVE Accounting'
  <2>1. CASE closed
    <3>1. /\ pc[q] = "activate"
          /\ pc' = [pc EXCEPT ![q] = "done"]
          /\ FreeSlot
          /\ UNCHANGED <<pool, dispose>>
      BY <1>9, <2>1 DEF ActivateSyncConnection
    <3>2. Cardinality(SlotHolders') = Cardinality(SlotHolders) - 1
      BY <3>1, HoldersLeave
    <3>3. Cardinality(SlotHolders) >= 1
      BY <3>1, HoldersCount
    <3> QED
      BY <1>ty, <3>1, <3>2, <3>3 DEF FreeSlot
  <2>2. CASE ~closed
    <3>1. /\ pc[q] = "activate"
          /\ pc' = [pc EXCEPT ![q] = "query"]
          /\ UNCHANGED <<slots, pool, dispose>>
      BY <1>9, <2>2 DEF ActivateSyncConnection
    <3>2. SlotHolders' = SlotHolders
      BY <3>1, HoldersStay
    <3> QED
      BY <1>ty, <3>1, <3>2
  <2> QED
    BY ONLY <2>1, <2>2
<1>10. ASSUME NEW q \in Queries, StartReader(q) PROVE Accounting'
  <2>1. SlotHolders' = SlotHolders
    BY <1>10, HoldersStay DEF StartReader
  <2> QED
    BY <1>10, <1>ty, <2>1 DEF StartReader
<1>11. ASSUME NEW q \in Queries, AwaitAnswer(q) PROVE Accounting'
  <2>1. SlotHolders' = SlotHolders
    <3>1. PICK to \in {"release", "discard"} : pc[q] = "await" /\ pc' = [pc EXCEPT ![q] = to]
      BY <1>11 DEF AwaitAnswer
    <3> QED
      BY <3>1, HoldersStay
  <2> QED
    BY <1>11, <1>ty, <2>1 DEF AwaitAnswer
<1>12. ASSUME NEW q \in Queries, AwaitTimeout(q) PROVE Accounting'
  <2>1. SlotHolders' = SlotHolders
    BY <1>12, HoldersStay DEF AwaitTimeout
  <2> QED
    BY <1>12, <1>ty, <2>1 DEF AwaitTimeout
<1>13. ASSUME NEW q \in Queries, ReleaseSyncConnection(q) PROVE Accounting'
  <2>1. pc[q] = "release" /\ UNCHANGED <<slots, dispose>>
    BY <1>13 DEF ReleaseSyncConnection
  <2>2. CASE pc' = [pc EXCEPT ![q] = "close"] /\ UNCHANGED pool
    <3>1. SlotHolders' = SlotHolders
      BY <2>1, <2>2, HoldersStay
    <3> QED
      BY <1>ty, <2>1, <2>2, <3>1
  <2>3. CASE pc' = [pc EXCEPT ![q] = "done"] /\ pool' = Append(pool, conn[q])
    <3>1. Cardinality(SlotHolders') = Cardinality(SlotHolders) - 1
      BY <2>1, <2>3, HoldersLeave
    <3>2. conn[q] \in Conns
      BY <2>1 DEF TypeOK, CallTypeOK
    <3>3. Len(pool') = Len(pool) + 1
      BY <2>3, <3>2, PutProperties DEF TypeOK
    <3> QED
      BY <1>ty, <2>1, <3>1, <3>3
  <2> QED
    BY <1>13, <2>2, <2>3 DEF ReleaseSyncConnection
<1>14. ASSUME NEW q \in Queries, DiscardSyncConnection(q) PROVE Accounting'
  <2>1. SlotHolders' = SlotHolders
    BY <1>14, HoldersStay DEF DiscardSyncConnection
  <2> QED
    BY <1>14, <1>ty, <2>1 DEF DiscardSyncConnection
<1>15. ASSUME NEW q \in Queries, CloseConn(q) PROVE Accounting'
  <2>1. SlotHolders' = SlotHolders
    BY <1>15, HoldersStay DEF CloseConn
  <2> QED
    BY <1>15, <1>ty, <2>1 DEF CloseConn
<1>16. ASSUME NEW q \in Queries, ReleaseSyncPoolSlot(q) PROVE Accounting'
  <2>1. Cardinality(SlotHolders') = Cardinality(SlotHolders) - 1
    BY <1>16, HoldersLeave DEF ReleaseSyncPoolSlot
  <2>2. Cardinality(SlotHolders) >= 1
    BY <1>16, HoldersCount DEF ReleaseSyncPoolSlot
  <2> QED
    BY <1>16, <1>ty, <2>1, <2>2 DEF ReleaseSyncPoolSlot, FreeSlot
<1>17. ASSUME NEW q \in Queries, WriteMessage(q) PROVE Accounting'
  BY <1>17, <1>ty, <1>s DEF WriteMessage
<1>18. ASSUME NEW q \in Queries, ReadMessage(q) PROVE Accounting'
  BY <1>18, <1>ty, <1>s DEF ReadMessage
<1>19. ASSUME NEW q \in Queries, ReaderFails(q) PROVE Accounting'
  BY <1>19, <1>ty, <1>s DEF ReaderFails
<1>20. CASE DisposeBegin
  BY <1>20, <1>ty, <1>s DEF DisposeBegin
<1>21. CASE DisposeCloseActive
  BY <1>21, <1>ty, <1>s DEF DisposeCloseActive
<1>22. CASE DrainTake
  <2>1. CASE PoolEmpty
    BY <1>ty, <1>s, <1>22, <2>1 DEF DrainTake
  <2>2. CASE ~PoolEmpty
    <3>1. Len(pool') = Len(pool) - 1
      BY <1>22, <2>2, TakeProperties DEF DrainTake, PoolEmpty, TypeOK
    <3> QED
      BY <1>ty, <1>s, <1>22, <2>2, <3>1 DEF DrainTake
  <2> QED
    BY ONLY <2>1, <2>2
<1>23. CASE DrainClose
  BY <1>23, <1>ty, <1>s DEF DrainClose
<1>24. CASE DrainSlot
  BY <1>24, <1>ty, <1>s DEF DrainSlot, FreeSlot
<1>25. CASE UNCHANGED vars
  BY <1>25, <1>ty, <1>s DEF vars
<1> HIDE DEF Accounting
<1> QED
  BY ONLY <1>1, <1>2, <1>3, <1>4, <1>5, <1>6, <1>7, <1>8, <1>9, <1>10, <1>11,
     <1>12, <1>13, <1>14, <1>15, <1>16, <1>17, <1>18, <1>19, <1>20,
     <1>21, <1>22, <1>23, <1>24, <1>25
  DEF Next, QueryStep, ReaderStep, DisposeStep, Terminated

-----------------------------------------------------------------------------
(* Connections are counted through their owners: a surjection from positions *)
(* of the channel, one from the queries that hold a connection.              *)
Used == {conn[q] : q \in ConnHolders}
Drained == IF dispose = "drainClose" THEN {drained} ELSE {}

LEMMA HoldersOrder ==
  /\ ConnHolders \subseteq SlotHolders
  /\ IsFiniteSet(ConnHolders)
  /\ Cardinality(ConnHolders) \in Nat
  /\ Cardinality(ConnHolders) =< Cardinality(SlotHolders)
<1>1. ConnHolders \subseteq SlotHolders
  BY DEF ConnHolders, SlotHolders, SlotPCs
<1> QED
  BY <1>1, HoldersFinite, FS_Subset, FS_CardinalityType

LEMMA UnionBound ==
  ASSUME NEW S, NEW T, IsFiniteSet(S), IsFiniteSet(T)
  PROVE  /\ IsFiniteSet(S \cup T)
         /\ Cardinality(S \cup T) =< Cardinality(S) + Cardinality(T)
<1>1. IsFiniteSet(S \cap T)
  BY FS_Subset
<1>2. /\ Cardinality(S) \in Nat
      /\ Cardinality(T) \in Nat
      /\ Cardinality(S \cap T) \in Nat
  BY <1>1, FS_CardinalityType
<1>3. /\ IsFiniteSet(S \cup T)
      /\ Cardinality(S \cup T) = Cardinality(S) + Cardinality(T) - Cardinality(S \cap T)
  BY FS_Union
<1> QED
  BY <1>2, <1>3

LEMMA OpenCount ==
  ASSUME TypeOK, Owned
  PROVE  /\ Cardinality(open) \in Nat
         /\ Cardinality(open) =< Len(pool) + Cardinality(ConnHolders) + DrainSlots
<1>0. Len(pool) \in Nat
  BY LenProperties DEF TypeOK
<1>1. IsFiniteSet(IdleConns) /\ Cardinality(IdleConns) =< Len(pool)
  <2> DEFINE f == [i \in 1..Len(pool) |-> pool[i]]
  <2>1. f \in Surjection(1..Len(pool), IdleConns)
    BY DEF IdleConns, Surjection
  <2>2. IsFiniteSet(1..Len(pool)) /\ Cardinality(1..Len(pool)) = Len(pool)
    <3>1. 1 \in Int /\ Len(pool) \in Int
      BY <1>0
    <3>2. /\ IsFiniteSet(1..Len(pool))
          /\ Cardinality(1..Len(pool)) = IF 1 > Len(pool) THEN 0 ELSE Len(pool) - 1 + 1
      BY <3>1, FS_Interval
    <3> QED
      BY <1>0, <3>2
  <2> QED
    BY <2>1, <2>2, FS_Surjection
<1>2. IsFiniteSet(Used) /\ Cardinality(Used) =< Cardinality(ConnHolders)
  <2> DEFINE f == [q \in ConnHolders |-> conn[q]]
  <2>1. f \in Surjection(ConnHolders, Used)
    BY DEF Used, Surjection
  <2> QED
    BY <2>1, HoldersOrder, FS_Surjection
<1>3. IsFiniteSet(Drained) /\ Cardinality(Drained) =< DrainSlots
  BY FS_EmptySet, FS_Singleton DEF Drained, DrainSlots
<1>4. open \subseteq (IdleConns \cup Used) \cup Drained
  BY DEF Owned, Used, Drained, ConnHolders
<1>5. /\ IsFiniteSet(IdleConns \cup Used)
      /\ Cardinality(IdleConns \cup Used) =< Cardinality(IdleConns) + Cardinality(Used)
  BY <1>1, <1>2, UnionBound
<1>6. /\ IsFiniteSet((IdleConns \cup Used) \cup Drained)
      /\ Cardinality((IdleConns \cup Used) \cup Drained)
            =< Cardinality(IdleConns \cup Used) + Cardinality(Drained)
  BY <1>3, <1>5, UnionBound
<1>7. IsFiniteSet(open) /\ Cardinality(open) =< Cardinality((IdleConns \cup Used) \cup Drained)
  BY <1>4, <1>6, FS_Subset
<1>8. /\ Cardinality(IdleConns) \in Nat
      /\ Cardinality(Used) \in Nat
      /\ Cardinality(Drained) \in Nat
      /\ Cardinality(IdleConns \cup Used) \in Nat
      /\ Cardinality((IdleConns \cup Used) \cup Drained) \in Nat
      /\ Cardinality(open) \in Nat
  BY <1>1, <1>2, <1>3, <1>5, <1>6, <1>7, FS_CardinalityType
<1>9. DrainSlots \in Nat
  BY DEF DrainSlots
<1> QED
  BY <1>0, <1>1, <1>2, <1>3, <1>5, <1>6, <1>7, <1>8, <1>9, HoldersOrder

-----------------------------------------------------------------------------
IInv ==
  /\ TypeOK
  /\ Names
  /\ Distinct
  /\ OneUser
  /\ Owned
  /\ Alive
  /\ Readers
  /\ Wires
  /\ OwnAnswer
  /\ Accounting

LEMMA IInvInit == Init => IInv
<1> SUFFICES ASSUME Init
             PROVE  IInv
  OBVIOUS
<1>1. Len(pool) = 0 /\ IdleConns = {}
  BY DEF Init, IdleConns
<1>2. SlotHolders = {} /\ Cardinality(SlotHolders) = 0
  BY FS_EmptySet DEF Init, SlotHolders, SlotPCs, ConnPCs, LeasePCs
<1>3. Names /\ OneUser
  BY <1>1 DEF Init, Names, OneUser, EarlyPCs, ConnPCs, LeasePCs
<1>4. Distinct /\ Owned /\ Alive
  BY <1>1 DEF Init, Distinct, Owned, Alive, closed
<1>5. Readers /\ Wires /\ OwnAnswer
  BY <1>1 DEF Init, Readers, Wires, OwnAnswer, EarlyPCs, NoMessage, Conns
<1>6. Accounting
  BY <1>1, <1>2 DEF Init, Accounting, DrainSlots
<1> QED
  BY <1>3, <1>4, <1>5, <1>6, TypeInit DEF IInv

LEMMA IInvNext == IInv /\ [Next]_vars => IInv'
BY TypeNext, NamesNext, OneUserNext, OwnedNext, AliveNext, ReadersNext, WiresNext,
   OwnAnswerNext, AccountingNext DEF IInv

THEOREM Inductive == Spec => []IInv
BY IInvInit, IInvNext, PTL DEF Spec

(* No path of acquiring, releasing, discarding, failing or disposing loses a *)
(* token of syncPoolSlots or returns one twice, and the channels have room.  *)
THEOREM SlotsAccounted == Spec => []SlotAccounting
<1>1. IInv => SlotAccounting
  <2> SUFFICES ASSUME IInv
               PROVE  SlotAccounting
    OBVIOUS
  <2>1. Accounting /\ Len(pool) \in Nat /\ slots \in Nat
    BY LenProperties DEF IInv, TypeOK
  <2>2. ASSUME NEW q \in Queries, pc[q] \in LeasePCs
        PROVE  PoolFree
    <3>1. Cardinality(SlotHolders) >= 1
      BY <2>2, HoldersCount DEF SlotPCs, ConnPCs
    <3> QED
      BY <2>1, <3>1, HoldersFinite DEF Accounting, DrainSlots, PoolFree
  <2> QED
    BY <2>1, <2>2 DEF Accounting, SlotAccounting
<1> QED
  BY <1>1, Inductive, PTL

(* At no time are more than SyncMaxConnections connections open.             *)
THEOREM OpenBounded == Spec => []OpenBound
<1>1. IInv => OpenBound
  <2> SUFFICES ASSUME IInv
               PROVE  OpenBound
    OBVIOUS
  <2>1. Accounting /\ Len(pool) \in Nat /\ DrainSlots \in Nat
    BY LenProperties DEF IInv, TypeOK, DrainSlots
  <2>2. /\ Cardinality(open) \in Nat
        /\ Cardinality(open) =< Len(pool) + Cardinality(ConnHolders) + DrainSlots
    BY OpenCount DEF IInv
  <2> QED
    BY <2>1, <2>2, HoldersOrder, HoldersFinite DEF Accounting, OpenBound
<1> QED
  BY <1>1, Inductive, PTL

(* No connection has two users, or is idle and in use, or twice idle.        *)
THEOREM ExclusiveUse == Spec => []Exclusive
<1>1. IInv => Exclusive
  BY DEF IInv, Distinct, OneUser, Exclusive, ConnHolders
<1> QED
  BY <1>1, Inductive, PTL

(* A query reads its own answer or none.                                     *)
THEOREM OwnAnswers == Spec => []OwnAnswer
<1>1. IInv => OwnAnswer
  BY DEF IInv
<1> QED
  BY <1>1, Inductive, PTL

(* Before the disposal an idle connection is open and owes no reply.         *)
THEOREM IdleClean == Spec => []IdleIsClean
<1>1. IInv => IdleIsClean
  BY DEF IInv, Alive, Wires, NoMessage, IdleIsClean
<1> QED
  BY <1>1, Inductive, PTL


-----------------------------------------------------------------------------
(* SyncPool implements ConnLease, and hands out nothing once it is disposed. *)

(* Once closeSyncPool has set its flag, no query gets a connection and none  *)
(* goes back into the channel.                                               *)
THEOREM NothingLentAfterDispose == Spec => NoLeaseAfterDispose
<1> DEFINE Barred == closed => /\ \A q \in Queries : pc'[q] \in LeasePCs => pc[q] \in LeasePCs
                               /\ Len(pool') =< Len(pool)
<1>1. TypeOK /\ [Next]_vars => Barred
  <2> SUFFICES ASSUME TypeOK
               PROVE  [Next]_vars => Barred
    OBVIOUS
  <2>ty. Len(pool) \in Nat /\ pc \in [Queries -> PCs]
    BY LenProperties DEF TypeOK, CallTypeOK
  <2> USE DEF closed, LeasePCs, Goto, qvars, pvars, kvars, dvars
  <2>k. ASSUME NEW q \in Queries, NEW from \in {"poll", "wait"}, TakeIdle(q, from)
        PROVE  Barred
    <3>1. Len(pool') =< Len(pool)
      BY <2>k, TakeProperties DEF TakeIdle, PoolEmpty, TypeOK
    <3> QED
      BY <2>k, <2>ty, <3>1 DEF TakeIdle
  <2>1. ASSUME NEW q \in Queries, EnsureSyncPool(q) PROVE Barred
    BY <2>1, <2>ty DEF EnsureSyncPool
  <2>2. ASSUME NEW q \in Queries, SyncPoolChannels(q) PROVE Barred
    BY <2>2, <2>ty DEF SyncPoolChannels
  <2>3. ASSUME NEW q \in Queries, Poll(q) PROVE Barred
    <3>1. CASE TakeIdle(q, "poll")
      BY <2>k, <3>1
    <3>2. CASE ~TakeIdle(q, "poll")
      BY <2>3, <2>ty, <3>2 DEF Poll
    <3> QED
      BY ONLY <3>1, <3>2
  <2>4. ASSUME NEW q \in Queries, WaitIdle(q) PROVE Barred
    BY <2>k, <2>4 DEF WaitIdle
  <2>5. ASSUME NEW q \in Queries, WaitSlot(q) PROVE Barred
    BY <2>5, <2>ty DEF WaitSlot
  <2>6. ASSUME NEW q \in Queries, WaitTimeout(q) PROVE Barred
    BY <2>6, <2>ty DEF WaitTimeout
  <2>7. ASSUME NEW q \in Queries, Dial(q) PROVE Barred
    BY <2>7, <2>ty DEF Dial
  <2>8. ASSUME NEW q \in Queries, DialFails(q) PROVE Barred
    BY <2>8, <2>ty DEF DialFails
  <2>9. ASSUME NEW q \in Queries, ActivateSyncConnection(q) PROVE Barred
    BY <2>9, <2>ty DEF ActivateSyncConnection, FreeSlot
  <2>10. ASSUME NEW q \in Queries, StartReader(q) PROVE Barred
    BY <2>10, <2>ty DEF StartReader
  <2>11. ASSUME NEW q \in Queries, AwaitAnswer(q) PROVE Barred
    BY <2>11, <2>ty DEF AwaitAnswer
  <2>12. ASSUME NEW q \in Queries, AwaitTimeout(q) PROVE Barred
    BY <2>12, <2>ty DEF AwaitTimeout
  <2>13. ASSUME NEW q \in Queries, ReleaseSyncConnection(q) PROVE Barred
    BY <2>13, <2>ty DEF ReleaseSyncConnection
  <2>14. ASSUME NEW q \in Queries, DiscardSyncConnection(q) PROVE Barred
    BY <2>14, <2>ty DEF DiscardSyncConnection
  <2>15. ASSUME NEW q \in Queries, CloseConn(q) PROVE Barred
    BY <2>15, <2>ty DEF CloseConn
  <2>16. ASSUME NEW q \in Queries, ReleaseSyncPoolSlot(q) PROVE Barred
    BY <2>16, <2>ty DEF ReleaseSyncPoolSlot, FreeSlot
  <2>17. ASSUME NEW q \in Queries, WriteMessage(q) PROVE Barred
    BY <2>17, <2>ty DEF WriteMessage
  <2>18. ASSUME NEW q \in Queries, ReadMessage(q) PROVE Barred
    BY <2>18, <2>ty DEF ReadMessage
  <2>19. ASSUME NEW q \in Queries, ReaderFails(q) PROVE Barred
    BY <2>19, <2>ty DEF ReaderFails
  <2>20. CASE DisposeBegin
    BY <2>20, <2>ty DEF DisposeBegin
  <2>21. CASE DisposeCloseActive
    BY <2>21, <2>ty DEF DisposeCloseActive
  <2>22. CASE DrainTake
    <3>1. CASE ~PoolEmpty
      <4>1. Len(pool') =< Len(pool)
        BY <2>22, <3>1, TakeProperties DEF DrainTake, PoolEmpty, TypeOK
      <4> QED
        BY <2>22, <2>ty, <3>1, <4>1 DEF DrainTake
    <3>2. CASE PoolEmpty
      BY <2>22, <2>ty, <3>2 DEF DrainTake
    <3> QED
      BY ONLY <3>1, <3>2
  <2>23. CASE DrainClose
    BY <2>23, <2>ty DEF DrainClose
  <2>24. CASE DrainSlot
    BY <2>24, <2>ty DEF DrainSlot, FreeSlot
  <2>25. CASE UNCHANGED vars
    BY <2>25, <2>ty DEF vars
  <2> HIDE DEF Barred
  <2> QED
    BY ONLY <2>1, <2>2, <2>3, <2>4, <2>5, <2>6, <2>7, <2>8, <2>9, <2>10, <2>11,
       <2>12, <2>13, <2>14, <2>15, <2>16, <2>17, <2>18, <2>19, <2>20,
       <2>21, <2>22, <2>23, <2>24, <2>25
    DEF Next, QueryStep, ReaderStep, DisposeStep, Terminated
<1> QED
  BY <1>1, TypeCorrect, PTL DEF Spec, NoLeaseAfterDispose

-----------------------------------------------------------------------------
(* The refinement.  A step of the pool closes a connection, does one step of *)
(* ConnLease, or is not visible in it.                                       *)
LeaseStep == [Lease!LNext]_(Lease!lvars)

LEMMA LeasesStay ==
  ASSUME TypeOK, NEW q \in Queries, NEW to, pc' = [pc EXCEPT ![q] = to], UNCHANGED conn,
         pc[q] \in LeasePCs <=> to \in LeasePCs
  PROVE  Leases' = Leases
<1>1. \A p \in Queries : pc'[p] \in LeasePCs <=> pc[p] \in LeasePCs
  BY DEF TypeOK, CallTypeOK
<1> QED
  BY <1>1 DEF Leases

LEMMA Unseen ==
  ASSUME Leases' = Leases, UNCHANGED <<open, answer>>, closed' = closed
  PROVE  LeaseStep
BY DEF LeaseStep, Lease!lvars

LEMMA Closes ==
  ASSUME NEW c \in Queries, open' = open \ {c},
         Leases' = Leases, UNCHANGED answer, closed' = closed
  PROVE  LeaseStep
<1>1. CASE c \in open
  BY <1>1 DEF LeaseStep, Lease!LNext, Lease!Hangup
<1>2. CASE c \notin open
  <2>1. open' = open
    BY <1>2
  <2> QED
    BY <2>1, Unseen
<1> QED
  BY <1>1, <1>2

(* The instance has a Cardinality of its own, with the same definition.      *)
LEMMA SameCardinality == Lease!Cardinality(open) = Cardinality(open)
BY DEF Cardinality, Lease!Cardinality

LEMMA LeaseInit == Init => Lease!LInit
BY DEF Init, Lease!LInit, Leases, closed, LeasePCs

LEMMA LeaseNext == IInv /\ [Next]_vars => LeaseStep
<1> SUFFICES ASSUME IInv
             PROVE  [Next]_vars => LeaseStep
  OBVIOUS
<1>ty. /\ TypeOK
       /\ pc \in [Queries -> PCs]
       /\ conn \in [Queries -> Queries \cup {None}]
       /\ answer \in [Queries -> Queries \cup {None}]
       /\ \A q \in Queries : pc[q] \in ConnPCs => conn[q] \in Queries
       /\ None \notin Queries
  BY QueriesAssumption DEF IInv, TypeOK, CallTypeOK, Conns
<1>s. ASSUME UNCHANGED <<pc, conn>> PROVE Leases' = Leases
  BY <1>s DEF Leases
<1>d. ASSUME UNCHANGED dispose PROVE closed' = closed
  BY <1>d DEF closed
<1> USE DEF LeasePCs, ConnPCs, Goto, qvars, pvars, kvars, dvars
<1>k. ASSUME NEW q \in Queries, NEW from \in {"poll", "wait"}, TakeIdle(q, from)
      PROVE  LeaseStep
  <2>1. /\ pc[q] = from
        /\ pc' = [pc EXCEPT ![q] = "activate"]
        /\ conn' = [conn EXCEPT ![q] = Head(pool)]
        /\ UNCHANGED <<open, answer, dispose>>
    BY <1>k DEF TakeIdle
  <2>2. Leases' = Leases
    BY <1>ty, <2>1 DEF Leases
  <2> QED
    BY <1>d, <2>1, <2>2, Unseen
<1>1. ASSUME NEW q \in Queries, EnsureSyncPool(q) PROVE LeaseStep
  <2>1. PICK to \in {"channels", "done"} :
          /\ pc[q] = "start" /\ pc' = [pc EXCEPT ![q] = to]
          /\ UNCHANGED <<conn, open, answer, dispose>>
    BY <1>1 DEF EnsureSyncPool
  <2>2. Leases' = Leases
    BY <1>ty, <2>1, LeasesStay
  <2> QED
    BY <1>d, <2>1, <2>2, Unseen
<1>2. ASSUME NEW q \in Queries, SyncPoolChannels(q) PROVE LeaseStep
  <2>1. PICK to \in {"poll", "done"} :
          /\ pc[q] = "channels" /\ pc' = [pc EXCEPT ![q] = to]
          /\ UNCHANGED <<conn, open, answer, dispose>>
    BY <1>2 DEF SyncPoolChannels
  <2>2. Leases' = Leases
    BY <1>ty, <2>1, LeasesStay
  <2> QED
    BY <1>d, <2>1, <2>2, Unseen
<1>3. ASSUME NEW q \in Queries, Poll(q) PROVE LeaseStep
  <2>1. CASE TakeIdle(q, "poll")
    BY <1>k, <2>1
  <2>2. CASE ~TakeIdle(q, "poll")
    <3>1. /\ pc[q] = "poll" /\ pc' = [pc EXCEPT ![q] = "wait"]
          /\ UNCHANGED <<conn, open, answer, dispose>>
      BY <1>3, <2>2 DEF Poll
    <3>2. Leases' = Leases
      BY <1>ty, <3>1, LeasesStay
    <3> QED
      BY <1>d, <3>1, <3>2, Unseen
  <2> QED
    BY ONLY <2>1, <2>2
<1>4. ASSUME NEW q \in Queries, WaitIdle(q) PROVE LeaseStep
  BY <1>k, <1>4 DEF WaitIdle
<1>5. ASSUME NEW q \in Queries, WaitSlot(q) PROVE LeaseStep
  <2>1. /\ pc[q] = "wait" /\ pc' = [pc EXCEPT ![q] = "dial"]
        /\ UNCHANGED <<conn, open, answer, dispose>>
    BY <1>5 DEF WaitSlot
  <2>2. Leases' = Leases
    BY <1>ty, <2>1, LeasesStay
  <2> QED
    BY <1>d, <2>1, <2>2, Unseen
<1>6. ASSUME NEW q \in Queries, WaitTimeout(q) PROVE LeaseStep
  <2>1. /\ pc[q] = "wait" /\ pc' = [pc EXCEPT ![q] = "done"]
        /\ UNCHANGED <<conn, open, answer, dispose>>
    BY <1>6 DEF WaitTimeout
  <2>2. Leases' = Leases
    BY <1>ty, <2>1, LeasesStay
  <2> QED
    BY <1>d, <2>1, <2>2, Unseen
<1>7. ASSUME NEW q \in Queries, Dial(q) PROVE LeaseStep
  <2>1. /\ pc[q] = "dial" /\ pc' = [pc EXCEPT ![q] = "activate"]
        /\ conn' = [conn EXCEPT ![q] = q]
        /\ open' = open \cup {q}
        /\ UNCHANGED <<answer, dispose>>
    BY <1>7 DEF Dial
  <2>2. Leases' = Leases
    BY <1>ty, <2>1 DEF Leases
  <2>3. q \notin open
    <3>1. conn[q] # q
      BY <1>ty, <2>1 DEF IInv, Names, EarlyPCs
    <3> QED
      BY <3>1 DEF IInv, Names
  <2>4. Cardinality(open) < Max
    <3>1. ConnHolders \subseteq SlotHolders \ {q} /\ q \in SlotHolders
      BY <2>1 DEF ConnHolders, SlotHolders, SlotPCs
    <3>2. /\ IsFiniteSet(SlotHolders \ {q})
          /\ Cardinality(SlotHolders \ {q}) = Cardinality(SlotHolders) - 1
      BY <3>1, HoldersFinite, FS_RemoveElement
    <3>3. Cardinality(ConnHolders) =< Cardinality(SlotHolders \ {q})
      BY <3>1, <3>2, FS_Subset
    <3>4. /\ Cardinality(open) \in Nat
          /\ Cardinality(open) =< Len(pool) + Cardinality(ConnHolders) + DrainSlots
      BY OpenCount DEF IInv
    <3>5. Accounting /\ Len(pool) \in Nat /\ DrainSlots \in Nat
      BY LenProperties DEF IInv, TypeOK, DrainSlots
    <3> QED
      BY <3>2, <3>3, <3>4, <3>5, HoldersOrder, HoldersFinite, MaxAssumption DEF Accounting
  <2>5. closed' = closed
    BY <1>d, <2>1
  <2>6. Lease!Open(q)
    <3>1. q \notin open /\ Cardinality(open) < Max /\ open' = open \cup {q}
      BY <2>1, <2>3, <2>4
    <3>2. Leases' = Leases /\ answer' = answer /\ closed' = closed
      BY <2>1, <2>2, <2>5
    <3> QED
      BY ONLY <3>1, <3>2, SameCardinality DEF Lease!Open
  <2> QED
    BY <2>6 DEF LeaseStep, Lease!LNext
<1>8. ASSUME NEW q \in Queries, DialFails(q) PROVE LeaseStep
  <2>1. /\ pc[q] = "dial" /\ pc' = [pc EXCEPT ![q] = "freeSlot"]
        /\ UNCHANGED <<conn, open, answer, dispose>>
    BY <1>8 DEF DialFails
  <2>2. Leases' = Leases
    BY <1>ty, <2>1, LeasesStay
  <2> QED
    BY <1>d, <2>1, <2>2, Unseen
<1>9. ASSUME NEW q \in Queries, ActivateSyncConnection(q) PROVE LeaseStep
  <2>1. pc[q] = "activate" /\ conn[q] \in Queries
    BY <1>ty, <1>9 DEF ActivateSyncConnection
  <2>2. CASE closed
    <3>1. /\ pc' = [pc EXCEPT ![q] = "done"]
          /\ open' = open \ {conn[q]}
          /\ UNCHANGED <<conn, answer, dispose>>
      BY <1>9, <2>2 DEF ActivateSyncConnection
    <3>2. Leases' = Leases
      BY <1>ty, <2>1, <3>1, LeasesStay
    <3> QED
      BY <1>d, <2>1, <3>1, <3>2, Closes
  <2>3. CASE ~closed
    <3>1. /\ pc' = [pc EXCEPT ![q] = "query"]
          /\ UNCHANGED <<conn, open, answer, dispose>>
      BY <1>9, <2>3 DEF ActivateSyncConnection
    <3>2. Leases' = [Leases EXCEPT ![q] = conn[q]] /\ Leases[q] = None
      BY <1>ty, <2>1, <3>1 DEF Leases
    <3>3. conn[q] \in open
      BY <2>1, <2>3 DEF IInv, Alive
    <3>4. \A r \in Queries : Leases[r] # conn[q]
      BY <1>ty, <2>1 DEF IInv, OneUser, Leases
    <3>5. Lease!Grant(q, conn[q])
      BY <1>d, <2>3, <3>1, <3>2, <3>3, <3>4 DEF Lease!Grant
    <3> QED
      BY <2>1, <3>5 DEF LeaseStep, Lease!LNext
  <2> QED
    BY ONLY <2>2, <2>3
<1>10. ASSUME NEW q \in Queries, StartReader(q) PROVE LeaseStep
  <2>1. /\ pc[q] = "query" /\ pc' = [pc EXCEPT ![q] = "await"]
        /\ UNCHANGED <<conn, open, answer, dispose>>
    BY <1>10 DEF StartReader
  <2>2. Leases' = Leases
    BY <1>ty, <2>1, LeasesStay
  <2> QED
    BY <1>d, <2>1, <2>2, Unseen
<1>11. ASSUME NEW q \in Queries, AwaitAnswer(q) PROVE LeaseStep
  <2>1. PICK to \in {"release", "discard"} :
          /\ pc[q] = "await" /\ pc' = [pc EXCEPT ![q] = to]
          /\ UNCHANGED <<conn, open, answer, dispose>>
    BY <1>11 DEF AwaitAnswer
  <2>2. Leases' = Leases
    BY <1>ty, <2>1, LeasesStay
  <2> QED
    BY <1>d, <2>1, <2>2, Unseen
<1>12. ASSUME NEW q \in Queries, AwaitTimeout(q) PROVE LeaseStep
  <2>1. /\ pc[q] = "await" /\ pc' = [pc EXCEPT ![q] = "discard"]
        /\ open' = open \ {conn[q]}
        /\ UNCHANGED <<conn, answer, dispose>>
    BY <1>12 DEF AwaitTimeout
  <2>2. Leases' = Leases /\ conn[q] \in Queries
    BY <1>ty, <2>1, LeasesStay
  <2> QED
    BY <1>d, <2>1, <2>2, Closes
<1>13. ASSUME NEW q \in Queries, ReleaseSyncConnection(q) PROVE LeaseStep
  <2>1. PICK to \in {"close", "done"} :
          /\ pc[q] = "release" /\ pc' = [pc EXCEPT ![q] = to]
          /\ UNCHANGED <<conn, open, answer, dispose>>
    BY <1>13 DEF ReleaseSyncConnection
  <2>2. Leases' = [Leases EXCEPT ![q] = None] /\ Leases[q] # None
    BY <1>ty, <2>1 DEF Leases
  <2>3. Lease!Return(q)
    BY <1>d, <2>1, <2>2 DEF Lease!Return
  <2> QED
    BY <2>3 DEF LeaseStep, Lease!LNext
<1>14. ASSUME NEW q \in Queries, DiscardSyncConnection(q) PROVE LeaseStep
  <2>1. /\ pc[q] = "discard" /\ pc' = [pc EXCEPT ![q] = "close"]
        /\ UNCHANGED <<conn, open, answer, dispose>>
    BY <1>14 DEF DiscardSyncConnection
  <2>2. Leases' = [Leases EXCEPT ![q] = None] /\ Leases[q] # None
    BY <1>ty, <2>1 DEF Leases
  <2>3. Lease!Return(q)
    BY <1>d, <2>1, <2>2 DEF Lease!Return
  <2> QED
    BY <2>3 DEF LeaseStep, Lease!LNext
<1>15. ASSUME NEW q \in Queries, CloseConn(q) PROVE LeaseStep
  <2>1. /\ pc[q] = "close" /\ pc' = [pc EXCEPT ![q] = "freeSlot"]
        /\ open' = open \ {conn[q]}
        /\ UNCHANGED <<conn, answer, dispose>>
    BY <1>15 DEF CloseConn
  <2>2. Leases' = Leases /\ conn[q] \in Queries
    BY <1>ty, <2>1, LeasesStay
  <2> QED
    BY <1>d, <2>1, <2>2, Closes
<1>16. ASSUME NEW q \in Queries, ReleaseSyncPoolSlot(q) PROVE LeaseStep
  <2>1. /\ pc[q] = "freeSlot" /\ pc' = [pc EXCEPT ![q] = "done"]
        /\ UNCHANGED <<conn, open, answer, dispose>>
    BY <1>16 DEF ReleaseSyncPoolSlot
  <2>2. Leases' = Leases
    BY <1>ty, <2>1, LeasesStay
  <2> QED
    BY <1>d, <2>1, <2>2, Unseen
<1>17. ASSUME NEW q \in Queries, WriteMessage(q) PROVE LeaseStep
  BY <1>17, <1>s, <1>d, Unseen DEF WriteMessage
<1>18. ASSUME NEW q \in Queries, ReadMessage(q) PROVE LeaseStep
  <2>1. pc[q] = "await" /\ reader[q] = "read" /\ conn[q] \in open
    BY <1>18 DEF ReadMessage, IInv, Readers
  <2>2. wire[conn[q]] = OneMessage(q) /\ answer[q] = None
    BY <2>1 DEF IInv, Wires, Readers
  <2>3. answer' = [answer EXCEPT ![q] = q] /\ UNCHANGED <<pc, conn, open, dispose>>
    BY <1>18, <2>2, MessageProperties DEF ReadMessage
  <2>4. Leases' = Leases /\ Leases[q] = conn[q]
    BY <1>s, <2>1, <2>3 DEF Leases
  <2>5. Lease!Answer(q)
    BY <1>d, <2>1, <2>2, <2>3, <2>4 DEF Lease!Answer
  <2> QED
    BY <2>5 DEF LeaseStep, Lease!LNext
<1>19. ASSUME NEW q \in Queries, ReaderFails(q) PROVE LeaseStep
  BY <1>19, <1>s, <1>d, Unseen DEF ReaderFails
<1>20. CASE DisposeBegin
  <2>1. ~closed /\ closed' = TRUE /\ UNCHANGED <<pc, conn, open, answer>>
    BY <1>20 DEF DisposeBegin, closed
  <2>2. Lease!Shut
    BY <1>s, <2>1 DEF Lease!Shut
  <2> QED
    BY <2>2 DEF LeaseStep, Lease!LNext
<1>21. CASE DisposeCloseActive
  <2>1. closed' = closed /\ UNCHANGED <<pc, conn, answer>>
    BY <1>21 DEF DisposeCloseActive, closed
  <2>2. CASE UNCHANGED open
    BY <1>s, <2>1, <2>2, Unseen
  <2>3. CASE \E c \in toClose : open' = open \ {c}
    <3>1. PICK c \in Queries : open' = open \ {c}
      BY <1>ty, <2>3 DEF TypeOK, Conns
    <3> QED
      BY <1>s, <2>1, <3>1, Closes
  <2> QED
    BY <1>21, <2>2, <2>3 DEF DisposeCloseActive
<1>22. CASE DrainTake
  <2>1. closed' = closed /\ UNCHANGED <<pc, conn, open, answer>>
    BY <1>22 DEF DrainTake, closed
  <2> QED
    BY <1>s, <2>1, Unseen
<1>23. CASE DrainClose
  <2>1. /\ closed' = closed
        /\ open' = open \ {drained}
        /\ UNCHANGED <<pc, conn, answer>>
    BY <1>23 DEF DrainClose, closed
  <2>2. CASE drained \in Queries
    BY <1>s, <2>1, <2>2, Closes
  <2>3. CASE drained \notin Queries
    <3>1. open' = open
      BY <1>ty, <2>1, <2>3 DEF TypeOK, Conns
    <3> QED
      BY <1>s, <2>1, <3>1, Unseen
  <2> QED
    BY ONLY <2>2, <2>3
<1>24. CASE DrainSlot
  <2>1. closed' = closed /\ UNCHANGED <<pc, conn, open, answer>>
    BY <1>24 DEF DrainSlot, closed
  <2> QED
    BY <1>s, <2>1, Unseen
<1>25. CASE UNCHANGED vars
  BY <1>25, <1>s, <1>d, Unseen DEF vars
<1> QED
  BY ONLY <1>1, <1>2, <1>3, <1>4, <1>5, <1>6, <1>7, <1>8, <1>9, <1>10, <1>11,
     <1>12, <1>13, <1>14, <1>15, <1>16, <1>17, <1>18, <1>19, <1>20,
     <1>21, <1>22, <1>23, <1>24, <1>25
  DEF Next, QueryStep, ReaderStep, DisposeStep, Terminated

(* The pool, with its client and the disposal, implements ConnLease.         *)
THEOREM PoolImplementsLease == Spec => LeaseSpec
BY LeaseInit, LeaseNext, Inductive, PTL DEF Spec, LeaseSpec, Lease!LSpec, LeaseStep

===============================================================================
