------------------------------ MODULE SyncCache ------------------------------
(***************************************************************************)
(* The query cache of the datasource (kdbSyncCache.go): an LRU map in memory *)
(* before one of files, misses coalesced by a singleflight group, stale      *)
(* entries served while a goroutine refreshes them, and the resources that   *)
(* clear the cache (kdbResource.go).                                         *)
(*                                                                           *)
(* A process is a query that reached runSyncQueryWithCache with a cache, or  *)
(* the goroutine that refreshSyncQueryCache starts for it.  Each section     *)
(* under the mutex of the map or of the files is one step, and so are the    *)
(* entry into the group, the call of kdb+ and the end of a flight.           *)
(*                                                                           *)
(* The content of a result is the number of the kdb+ call that gave it; what *)
(* an earlier instance left on disk has the number 0.                        *)
(***************************************************************************)
EXTENDS Naturals, Sequences, FiniteSets

CONSTANTS
  Queries,     \* the calls of runSyncQueryWithCache
  Keys,        \* cache keys
  Modes,       \* the cache modes that occur: "read" (default, enabled), "refresh"
  MaxEntries,  \* QueryCacheMaxEntries
  MaxFiles,    \* QueryCacheDiskMaxEntries, or what QueryCacheDiskMaxBytes leaves room for
  TTL, Stale,  \* the policy's ttl and staleTTL, in full units of the clock
  Horizon,     \* bound on the clock
  DiskFaults,  \* files may be unreadable, or fail to be written
  MaxClears,   \* bound on the number of clear requests
  None

ASSUME CacheAssumption ==
  /\ Modes \subseteq {"read", "refresh"}
  /\ {MaxEntries, Horizon} \subseteq Nat \ {0}
  /\ {MaxFiles, TTL, Stale, MaxClears} \subseteq Nat
  /\ DiskFaults \in BOOLEAN

VARIABLES
  key, mode,   \* the key and the mode of each query
  onDisk,      \* QueryCacheDiskEnabled
  pc,          \* where each process stands
  got,         \* got[p]: the result p holds, or None (nothing yet, or an error)
  memory,      \* syncQueryCache.entries, least recently used first
  files,       \* the files of syncQueryDiskCache, oldest modification time first
  refreshing,  \* syncQueryCache.refreshing
  flight,      \* flight[k]: the process that runs the function of k's flight, or None
  calls,       \* the kdb+ calls that have returned
  now,         \* the clock
  clears,      \* the clear requests so far
  newest,      \* history: the newest result a process has stored for each key,
  since        \*   and what newest was when each query began

qvars == <<key, mode, onDisk>>
gvars == <<newest, since>>
vars == <<qvars, pc, got, memory, files, refreshing, flight, calls, now, clears, gvars>>

Procs == Queries \X {"query", "refresh"}

ASSUME NoneAssumption == None \notin Procs \cup [ver : Nat, created : Nat, stale : BOOLEAN]

Query(q) == <<q, "query">>
Refresher(q) == <<q, "refresh">>
KeyOf(p) == key[p[1]]
Reads(p) == p[2] = "query" /\ mode[p[1]] = "read"

-----------------------------------------------------------------------------
(* A store, in memory or on disk: a sequence of entries with distinct keys,  *)
(* in the order in which they were last used.                                *)
Holds(s, k) == \E i \in 1..Len(s) : s[i].key = k
EntryOf(s, k) == s[CHOOSE i \in 1..Len(s) : s[i].key = k]

(* What is left of s at the positions in I: SelectSeq without its recursion. *)
Kept(s, I) == [n \in 1..Cardinality(I) |-> s[CHOOSE i \in I : Cardinality({j \in I : j =< i}) = n]]
Without(s, k) == Kept(s, {i \in 1..Len(s) : s[i].key # k})
Used(s, k) == Append(Without(s, k), EntryOf(s, k))

(* put with the eviction that follows it: the most recent max entries stay.  *)
PutUnbounded(s, e, max) == Append(Without(s, e.key), e)
Put(s, e, max) ==
  LET t == Append(Without(s, e.key), e)
  IN  SubSeq(t, IF Len(t) > max THEN Len(t) - max + 1 ELSE 1, Len(t))

Age(e) == now - e.created
Expired(e) == Age(e) > TTL + Stale
Found(s, k) == Holds(s, k) /\ ~Expired(EntryOf(s, k))

(* What get returns. *)
Lookup(e) == [ver |-> e.ver, created |-> e.created, stale |-> Age(e) > TTL]

Init ==
  /\ key \in [Queries -> Keys]
  /\ mode \in [Queries -> Modes]
  /\ onDisk \in BOOLEAN
  /\ pc = [p \in Procs |-> IF p[2] = "query" THEN "start" ELSE "off"]
  /\ got = [p \in Procs |-> None]
  /\ memory = <<>>
  /\ \/ files = <<>>
     \/ onDisk /\ MaxFiles > 0 /\ \E k \in Keys : files = <<[key |-> k, ver |-> 0, created |-> 0]>>
  /\ refreshing = {}
  /\ flight = [k \in Keys |-> None]
  /\ calls = 0
  /\ now = 0
  /\ clears = 0
  /\ newest = [k \in Keys |-> 0]
  /\ since = [q \in Queries |-> 0]

Goto(p, from, to) ==
  /\ pc[p] = from
  /\ pc' = [pc EXCEPT ![p] = to]

-----------------------------------------------------------------------------
(* runSyncQueryWithCache.  A query in mode refresh goes straight to the      *)
(* flight; the others look first.                                            *)
Begin(q) ==
  /\ \/ mode[q] = "read" /\ Goto(Query(q), "start", "memory")
     \/ mode[q] = "refresh" /\ Goto(Query(q), "start", "do")
  /\ since' = [since EXCEPT ![q] = newest[key[q]]]
  /\ UNCHANGED <<qvars, got, memory, files, refreshing, flight, calls, now, clears, newest>>

(* cache.get: a hit counts as a use, an expired entry is deleted. *)
LookupMemory(p, from, hit, miss) ==
  LET k == KeyOf(p)
  IN  /\ \/ /\ Found(memory, k)
            /\ memory' = Used(memory, k)
            /\ got' = [got EXCEPT ![p] = Lookup(EntryOf(memory, k))]
            /\ Goto(p, from, hit)
         \/ /\ ~Found(memory, k)
            /\ memory' = Without(memory, k)
            /\ Goto(p, from, miss)
            /\ UNCHANGED got
      /\ UNCHANGED <<qvars, files, refreshing, flight, calls, now, clears, gvars>>

(* diskCache.get: a file that cannot be read is removed, and is a miss too. *)
LookupDisk(p, from, hit, miss) ==
  LET k == KeyOf(p)
  IN  /\ \/ /\ onDisk /\ Found(files, k)
            /\ files' = Used(files, k)
            /\ got' = [got EXCEPT ![p] = Lookup(EntryOf(files, k))]
            /\ Goto(p, from, hit)
         \/ /\ onDisk /\ (~Found(files, k) \/ DiskFaults)
            /\ files' = Without(files, k)
            /\ Goto(p, from, miss)
            /\ UNCHANGED got
         \/ /\ ~onDisk
            /\ Goto(p, from, miss)
            /\ UNCHANGED <<files, got>>
      /\ UNCHANGED <<qvars, memory, refreshing, flight, calls, now, clears, gvars>>

(* Bug: what was read from disk begins a new life in memory. *)
FillMemoryAnew(p, from, to) ==
  /\ Goto(p, from, to)
  /\ memory' = Put(memory, [key |-> KeyOf(p), ver |-> got[p].ver, created |-> now], MaxEntries)
  /\ UNCHANGED <<qvars, got, files, refreshing, flight, calls, now, clears, gvars>>

(* cache.putWithCreatedAt: what the disk had replaces what memory may have by now. *)
FillMemory(p, from, to) ==
  /\ Goto(p, from, to)
  /\ memory' = Put(memory, [key |-> KeyOf(p), ver |-> got[p].ver, created |-> got[p].created],
                   MaxEntries)
  /\ UNCHANGED <<qvars, got, files, refreshing, flight, calls, now, clears, gvars>>

(* Bug: a stale answer starts a refresh without looking for one under way.   *)
ServeAlwaysRefreshing(q) ==
  /\ pc[Query(q)] = "served"
  /\ IF got[Query(q)] # None /\ got[Query(q)].stale
     THEN /\ refreshing' = refreshing \cup {key[q]}
          /\ pc' = [pc EXCEPT ![Query(q)] = "done", ![Refresher(q)] = "do"]
     ELSE /\ pc' = [pc EXCEPT ![Query(q)] = "done"]
          /\ UNCHANGED refreshing
  /\ UNCHANGED <<qvars, got, memory, files, flight, calls, now, clears, gvars>>

(* The query returns, and first starts a refresh if its answer is stale and  *)
(* the key is not marked yet (startRefresh).                                 *)
Serve(q) ==
  /\ \/ /\ got[Query(q)] # None /\ got[Query(q)].stale /\ key[q] \notin refreshing
        /\ refreshing' = refreshing \cup {key[q]}
        /\ pc[Query(q)] = "served"
        /\ pc' = [pc EXCEPT ![Query(q)] = "done", ![Refresher(q)] = "do"]
     \/ /\ ~(got[Query(q)] # None /\ got[Query(q)].stale /\ key[q] \notin refreshing)
        /\ Goto(Query(q), "served", "done")
        /\ UNCHANGED refreshing
  /\ UNCHANGED <<qvars, got, memory, files, flight, calls, now, clears, gvars>>

-----------------------------------------------------------------------------
(* The flight: group.Do(cacheKey, ...) of a query or of a refresher.          *)

(* Bug: a refresher that does not go through the group. *)
DoAlone(p) ==
  /\ \/ /\ p[2] = "refresh"
        /\ Goto(p, "do", "fetch")
        /\ UNCHANGED flight
     \/ /\ p[2] = "query" /\ flight[KeyOf(p)] = None
        /\ flight' = [flight EXCEPT ![KeyOf(p)] = p]
        /\ Goto(p, "do", IF Reads(p) THEN "memory2" ELSE "fetch")
     \/ /\ p[2] = "query" /\ flight[KeyOf(p)] # None
        /\ Goto(p, "do", "wait")
        /\ UNCHANGED flight
  /\ UNCHANGED <<qvars, got, memory, files, refreshing, calls, now, clears, gvars>>

Do(p) ==
  /\ \/ /\ flight[KeyOf(p)] = None
        /\ flight' = [flight EXCEPT ![KeyOf(p)] = p]
        /\ \/ Reads(p) /\ Goto(p, "do", "memory2")
           \/ ~Reads(p) /\ Goto(p, "do", "fetch")
     \/ /\ flight[KeyOf(p)] # None
        /\ Goto(p, "do", "wait")
        /\ UNCHANGED flight
  /\ UNCHANGED <<qvars, got, memory, files, refreshing, calls, now, clears, gvars>>

(* runSyncQueryUncached: the call of kdb+ and the parsing of its result. *)
Fetch(p) ==
  /\ calls' = calls + 1
  /\ \/ /\ Goto(p, "fetch", "putMemory")
        /\ got' = [got EXCEPT ![p] = [ver |-> calls + 1, created |-> now, stale |-> FALSE]]
     \/ /\ Goto(p, "fetch", "return")
        /\ UNCHANGED got
  /\ UNCHANGED <<qvars, memory, files, refreshing, flight, now, clears, gvars>>

(* cache.put, created now. *)
PutMemory(p) ==
  LET k == KeyOf(p)
  IN  /\ Goto(p, "putMemory", "putDisk")
      /\ memory' = Put(memory, [key |-> k, ver |-> got[p].ver, created |-> now], MaxEntries)
      /\ newest' = [newest EXCEPT ![k] = IF got[p].ver > @ THEN got[p].ver ELSE @]
      /\ UNCHANGED <<qvars, got, files, refreshing, flight, calls, now, clears, since>>

(* diskCache.put; an error is logged. *)
PutDisk(p) ==
  /\ Goto(p, "putDisk", "return")
  /\ \/ /\ onDisk
        /\ files' = Put(files, [key |-> KeyOf(p), ver |-> got[p].ver, created |-> now], MaxFiles)
     \/ /\ ~onDisk \/ DiskFaults
        /\ UNCHANGED files
  /\ UNCHANGED <<qvars, got, memory, refreshing, flight, calls, now, clears, gvars>>

(* The function returns: all who wait share what it returned. *)
Waiting(k) == {w \in Procs : pc[w] = "wait" /\ KeyOf(w) = k}
After(p) == IF p[2] = "query" THEN "served" ELSE "finish"

(* Bug: a function that fails leaves its flight, and the waiters wait on.    *)
ReturnOnSuccess(p) ==
  LET k == KeyOf(p)
      all == IF got[p] = None THEN {p} ELSE {p} \cup Waiting(k)
  IN  /\ pc[p] = "return"
      /\ pc' = [x \in Procs |-> IF x \in all THEN After(x) ELSE pc[x]]
      /\ got' = [x \in Procs |-> IF x \in all THEN got[p] ELSE got[x]]
      /\ flight' = [flight EXCEPT ![k] = IF got[p] = None THEN @ ELSE None]
      /\ UNCHANGED <<qvars, memory, files, refreshing, calls, now, clears, gvars>>

Return(p) ==
  LET k == KeyOf(p)
      all == {p} \cup Waiting(k)
  IN  /\ pc[p] = "return"
      /\ pc' = [x \in Procs |-> IF x \in all THEN After(x) ELSE pc[x]]
      /\ got' = [x \in Procs |-> IF x \in all THEN got[p] ELSE got[x]]
      /\ flight' = [flight EXCEPT ![k] = None]
      /\ UNCHANGED <<qvars, memory, files, refreshing, calls, now, clears, gvars>>

(* Bug: finishRefresh is forgotten when the refresh failed. *)
FinishOnSuccess(p) ==
  /\ Goto(p, "finish", "off")
  /\ refreshing' = IF got[p] = None THEN refreshing ELSE refreshing \ {KeyOf(p)}
  /\ got' = [got EXCEPT ![p] = None]
  /\ UNCHANGED <<qvars, memory, files, flight, calls, now, clears, gvars>>

(* The goroutine ends with finishRefresh, whoever marked the key last. *)
Finish(p) ==
  /\ Goto(p, "finish", "off")
  /\ refreshing' = refreshing \ {KeyOf(p)}
  /\ got' = [got EXCEPT ![p] = None]
  /\ UNCHANGED <<qvars, memory, files, flight, calls, now, clears, gvars>>

-----------------------------------------------------------------------------
(* The resources cache/clear, cache/clear-entry and cache/clear-expired: the *)
(* memory and the files are cleared one after the other, or only one of them. *)
Unexpired(s) == Kept(s, {i \in 1..Len(s) : ~Expired(s[i])})

ClearMemory ==
  /\ clears < MaxClears
  /\ clears' = clears + 1
  /\ \/ memory' = <<>> /\ refreshing' = {}
     \/ \E k \in Keys : memory' = Without(memory, k) /\ refreshing' = refreshing \ {k}
     \/ memory' = Unexpired(memory) /\ UNCHANGED refreshing
  /\ UNCHANGED <<qvars, pc, got, files, flight, calls, now, gvars>>

ClearDisk ==
  /\ onDisk
  /\ clears < MaxClears
  /\ clears' = clears + 1
  /\ \/ files' = <<>>
     \/ \E k \in Keys : files' = Without(files, k)
     \/ files' = Unexpired(files)
  /\ UNCHANGED <<qvars, pc, got, memory, refreshing, flight, calls, now, gvars>>

Tick ==
  /\ now < Horizon
  /\ now' = now + 1
  /\ UNCHANGED <<qvars, pc, got, memory, files, refreshing, flight, calls, clears, gvars>>

-----------------------------------------------------------------------------
QueryStep(q) ==
  LET p == Query(q)
  IN  \/ LookupMemory(p, "memory", "served", "disk")
      \/ LookupDisk(p, "disk", "fill", "do")
      \/ FillMemory(p, "fill", "served")
      \/ LookupMemory(p, "memory2", "return", "disk2")
      \/ LookupDisk(p, "disk2", "fill2", "fetch")
      \/ FillMemory(p, "fill2", "return")
      \/ Serve(q)

FlightStep(p) ==
  \/ Do(p) \/ Fetch(p) \/ PutMemory(p) \/ PutDisk(p) \/ Return(p)

Terminated ==
  /\ \A p \in Procs : pc[p] \in {"done", "off"}
  /\ UNCHANGED vars

Next ==
  \/ \E q \in Queries : Begin(q) \/ QueryStep(q) \/ Finish(Refresher(q))
  \/ \E p \in Procs : FlightStep(p)
  \/ ClearMemory
  \/ ClearDisk
  \/ Tick
  \/ Terminated

Spec == Init /\ [][Next]_vars

(* Goroutines run, and a call of kdb+ returns: runKdbQuerySync has a timeout  *)
(* (EveryQueryReturns of SyncPool).  Nobody has to send a query, to clear or  *)
(* to let time pass.                                                          *)
FairSpec ==
  /\ Spec
  /\ \A q \in Queries : WF_vars(QueryStep(q)) /\ WF_vars(Finish(Refresher(q)))
  /\ \A p \in Procs : WF_vars(FlightStep(p))

-----------------------------------------------------------------------------
QueryPCs == {"start", "memory", "disk", "fill", "do", "wait", "memory2", "disk2", "fill2",
             "fetch", "putMemory", "putDisk", "return", "served", "done"}
RefresherPCs == {"off", "do", "wait", "fetch", "putMemory", "putDisk", "return", "finish"}
FlightPCs == {"memory2", "disk2", "fill2", "fetch", "putMemory", "putDisk", "return"}

StoreOK(s, max) ==
  /\ s \in Seq([key : Keys, ver : 0..calls, created : 0..now])
  /\ Len(s) =< max
  /\ \A i, j \in 1..Len(s) : s[i].key = s[j].key => i = j

TypeOK ==
  /\ key \in [Queries -> Keys] /\ mode \in [Queries -> Modes] /\ onDisk \in BOOLEAN
  /\ pc \in [Procs -> QueryPCs \cup RefresherPCs]
  /\ got \in [Procs -> {None} \cup [ver : 0..calls, created : 0..now, stale : BOOLEAN]]
  /\ StoreOK(memory, MaxEntries)
  /\ StoreOK(files, MaxFiles)
  /\ refreshing \subseteq Keys
  /\ flight \in [Keys -> Procs \cup {None}]
  /\ calls \in Nat /\ now \in 0..Horizon /\ clears \in 0..MaxClears
  /\ newest \in [Keys -> 0..calls] /\ since \in [Queries -> 0..calls]

(* kdb+ never works on one cached query twice at a time, however many panels *)
(* and refreshes ask for it, and a waiter always has a flight to wait for.   *)
OneFlight ==
  /\ \A p, r \in Procs : pc[p] \in FlightPCs /\ pc[r] \in FlightPCs /\ KeyOf(p) = KeyOf(r)
                         => p = r
  /\ \A p \in Procs : pc[p] = "wait" => \E r \in Procs : pc[r] \in FlightPCs /\ KeyOf(r) = KeyOf(p)

(* A key is marked as being refreshed only while some goroutine refreshes    *)
(* it: neither an error nor a clear leaves a mark behind, which would stop   *)
(* every later refresh of the key.                                           *)
MarkHasRefresher ==
  \A k \in refreshing : \E q \in Queries : key[q] = k /\ pc[Refresher(q)] # "off"

(* A key is refreshed once at a time, and at most once more for every clear: *)
(* a refresh that removes the mark of a later one, or one that starts after  *)
(* that, does not let refreshes pile up.                                     *)
Refreshers(k) == {q \in Queries : key[q] = k /\ pc[Refresher(q)] # "off"}
RefreshersBounded == \A k \in Keys : Cardinality(Refreshers(k)) =< clears + 1

(* A result does not live longer for being copied: what memory has from the  *)
(* disk is as old as the file.                                               *)
CopiesAgeTogether ==
  \A i \in 1..Len(memory), j \in 1..Len(files) :
    memory[i].key = files[j].key /\ memory[i].ver = files[j].ver
    => memory[i].created =< files[j].created

(* No answer is older than what was stored before the query began: true of   *)
(* the map in memory alone.                                                  *)
Answered(q) == pc[Query(q)] = "done" /\ got[Query(q)] # None
NotOlder(q) == Answered(q) => got[Query(q)].ver >= since[q]
MemoryNeverGoesBack == ~onDisk => \A q \in Queries : NotOlder(q)

(* The README's "expired cached data is returned immediately while the       *)
(* backend refreshes the cache for the next query", with the files as well.  *)
RefreshServesNextQuery == \A q \in Queries : NotOlder(q)

(* Every query that begins returns, and every refresh ends.                  *)
QueriesReturn == \A q \in Queries : pc[Query(q)] # "start" ~> pc[Query(q)] = "done"
RefreshesEnd == \A k \in Keys : k \in refreshing ~> k \notin refreshing
=============================================================================
