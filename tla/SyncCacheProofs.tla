---------------------------- MODULE SyncCacheProofs ----------------------------
(***************************************************************************)
(* For any number of queries and keys, any policy and any bounds: one flight *)
(* of a key at a time, a refresh behind every mark, copies that do not age   *)
(* differently, and a memory that does not go back.                          *)
(*                                                                           *)
(* What the proofs need of a store is the set of its entries: lookups, uses, *)
(* evictions and clears take from it, a put adds one.                        *)
(***************************************************************************)
EXTENDS SyncCache, FiniteSetTheorems, FunctionTheorems, SequenceTheorems, TLAPS

Entries(s) == {s[i] : i \in 1..Len(s)}
OneEach(s) == \A i, j \in 1..Len(s) : s[i].key = s[j].key => i = j

Entry == [key : Keys, ver : 0..calls, created : 0..now]
Results == [ver : 0..calls, created : 0..now, stale : BOOLEAN]
InFlight(p) == pc[p] \in FlightPCs
Filling(p) == pc[p] \in {"fill", "fill2"}
Storing(p) == pc[p] \in {"putMemory", "putDisk"}

(* A query's process and a refresher's are at places of their own code, and  *)
(* a refresher exists once its query has answered.                           *)
Places ==
  \A q \in Queries :
    /\ pc[Query(q)] \in QueryPCs
    /\ pc[Refresher(q)] \in RefresherPCs
    /\ pc[Refresher(q)] # "off" => pc[Query(q)] = "done"

EmptyPCs == {"off", "start", "memory", "disk", "do", "wait", "memory2", "disk2", "fetch"}

(* What a process holds goes with its place. *)
Holdings ==
  \A p \in Procs :
    /\ pc[p] \in EmptyPCs => got[p] = None
    /\ Filling(p) \/ Storing(p) => got[p] \in Results

(* The group has a flight for a key exactly while a process runs its         *)
(* function, and that process is the one it has; a waiter has joined one.    *)
FlightHeld ==
  /\ \A p \in Procs : InFlight(p) <=> flight[KeyOf(p)] = p
  /\ \A p \in Procs : pc[p] = "wait" => flight[KeyOf(p)] # None

FlightKeys == \A k \in Keys : flight[k] # None => KeyOf(flight[k]) = k

(* Refreshers of a key without the mark are at most as many as clears: one   *)
(* begins with its mark, and when one ends, the mark is gone too.            *)
Marks(k) == IF k \in refreshing THEN 1 ELSE 0
Marked ==
  \A k \in Keys : IsFiniteSet(Refreshers(k)) /\ Cardinality(Refreshers(k)) =< clears + Marks(k)

(* A result of kdb+ about to be stored is in no store yet, and nobody else   *)
(* has it; what is about to be written to disk is not there, nor on its way. *)
Unstored ==
  \A p \in Procs :
    /\ pc[p] = "putMemory" =>
         /\ \A e \in Entries(memory) \cup Entries(files) : e.ver # got[p].ver
         /\ \A r \in Procs \ {p} : got[r] # None => got[r].ver # got[p].ver
    /\ pc[p] = "putDisk" =>
         /\ \A e \in Entries(files) : e.ver # got[p].ver
         /\ \A r \in Procs \ {p} : Filling(r) \/ Storing(r) => got[r].ver # got[p].ver

(* What was read from a file is as old as the file, should it still be there. *)
FillsAge ==
  \A p \in Procs : Filling(p) =>
    \A e \in Entries(files) : e.key = KeyOf(p) /\ e.ver = got[p].ver => got[p].created =< e.created

CopiesAge ==
  \A m \in Entries(memory), f \in Entries(files) :
    m.key = f.key /\ m.ver = f.ver => m.created =< f.created

(* Without files: memory has the newest result of a key, if any; what a      *)
(* flight fetched is not older, what it has stored or found is the newest.   *)
MemoryIsNewest ==
  ~onDisk =>
    /\ \A p \in Procs : ~Filling(p)
    /\ \A e \in Entries(memory) : e.ver = newest[e.key]
    /\ \A p \in Procs : pc[p] = "putMemory" => got[p].ver >= newest[KeyOf(p)]
    /\ \A p \in Procs : pc[p] \in {"putDisk", "return"} /\ got[p] # None => got[p].ver = newest[KeyOf(p)]
    /\ \A q \in Queries : since[q] =< newest[key[q]]
    /\ \A q \in Queries : pc[Query(q)] \in {"served", "done"} /\ got[Query(q)] # None
                          => got[Query(q)].ver >= since[q]

ControlInv == TypeOK /\ Places /\ Holdings /\ FlightHeld
RefreshInv == MarkHasRefresher /\ Marked
ContentInv == Unstored /\ FillsAge /\ CopiesAge /\ MemoryIsNewest
IInv == ControlInv /\ FlightKeys /\ RefreshInv /\ ContentInv

-----------------------------------------------------------------------------
(* The operators on stores. *)

(* Keeping the entries at some positions keeps nothing else, each once. *)
LEMMA KeptFacts ==
  ASSUME NEW S, NEW s \in Seq(S), NEW I \in SUBSET (1..Len(s))
  PROVE  /\ Kept(s, I) \in Seq(S) /\ Len(Kept(s, I)) =< Len(s)
         /\ I # 1..Len(s) => Len(Kept(s, I)) < Len(s)
         /\ \A e \in Entries(Kept(s, I)) : \E i \in I : e = s[i]
         /\ OneEach(s) => OneEach(Kept(s, I))
<1>. DEFINE upTo(i) == {j \in I : j =< i}
            rank == [i \in I |-> Cardinality(upTo(i))]
            N == Cardinality(I)
            at(n) == CHOOSE i \in I : Cardinality(upTo(i)) = n
<1>0. Len(s) \in Nat /\ \A i \in I : i \in Nat /\ 1 =< i /\ i =< Len(s) OBVIOUS
<1>1. IsFiniteSet(I) /\ N \in Nat /\ N =< Len(s) /\ (I # 1..Len(s) => N < Len(s))
  <2>1. IsFiniteSet(1..Len(s)) /\ Cardinality(1..Len(s)) = Len(s) BY <1>0, FS_Interval
  <2>2. IsFiniteSet(I) /\ N =< Len(s) /\ (N = Len(s) => I = 1..Len(s)) BY <2>1, FS_Subset
  <2>3. N \in Nat BY <2>2, FS_CardinalityType
  <2>. QED BY <1>0, <2>1, <2>2, <2>3
<1>2. \A i \in I : upTo(i) \in SUBSET I /\ IsFiniteSet(upTo(i)) /\ Cardinality(upTo(i)) \in 1..N
  <2>. SUFFICES ASSUME NEW i \in I
                PROVE  upTo(i) \in SUBSET I /\ IsFiniteSet(upTo(i)) /\ Cardinality(upTo(i)) \in 1..N
    OBVIOUS
  <2>1. upTo(i) \in SUBSET I OBVIOUS
  <2>2. IsFiniteSet(upTo(i)) /\ Cardinality(upTo(i)) =< N BY <2>1, <1>1, FS_Subset
  <2>3. i \in upTo(i) BY <1>0
  <2>4. Cardinality(upTo(i)) \in Nat /\ Cardinality(upTo(i)) # 0 BY <2>2, <2>3, FS_CardinalityType, FS_EmptySet
  <2>. QED BY <2>1, <2>2, <2>4, <1>1
<1>3. \A i, j \in I : Cardinality(upTo(i)) = Cardinality(upTo(j)) => i = j
  <2>1. ASSUME NEW i \in I, NEW j \in I, i < j PROVE Cardinality(upTo(i)) # Cardinality(upTo(j))
    <3>1. upTo(i) \in SUBSET upTo(j)
      <4>1. \A k \in I : k =< i => k =< j BY <2>1, <1>0
      <4>. QED BY <4>1
    <3>2. j \in upTo(j) /\ j \notin upTo(i) BY <2>1, <1>0
    <3>. QED BY <3>1, <3>2, <1>2, FS_Subset
  <2>. QED BY <2>1, <1>0
<1>4. \A n \in 1..N : at(n) \in I /\ Cardinality(upTo(at(n))) = n
  <2>1. rank \in Injection(I, 1..N) BY <1>2, <1>3 DEF Injection, IsInjective
  <2>2. IsFiniteSet(1..N) /\ Cardinality(1..N) = N BY <1>1, FS_Interval
  <2>3. rank \in Surjection(I, 1..N) BY <2>1, <2>2, FS_Injection
  <2>4. \A n \in 1..N : \E i \in I : Cardinality(upTo(i)) = n BY <2>3 DEF Surjection
  <2>. HIDE DEF upTo, N
  <2>. QED BY <2>4
<1>5. Kept(s, I) = [n \in 1..N |-> s[at(n)]] BY DEF Kept
<1>. HIDE DEF upTo, rank, N, at
<1>6. Kept(s, I) \in Seq(S) /\ Len(Kept(s, I)) = N /\ \A n \in 1..N : Kept(s, I)[n] = s[at(n)]
  <2>0. \A i \in 1..Len(s) : s[i] \in S OBVIOUS
  <2>1. \A n \in 1..N : s[at(n)] \in S BY <2>0, <1>4
  <2>. QED BY <1>1, <1>5, <2>1
<1>7. OneEach(s) => OneEach(Kept(s, I))
  <2>. SUFFICES ASSUME OneEach(s), NEW m \in 1..N, NEW n \in 1..N, s[at(m)].key = s[at(n)].key PROVE m = n
    BY <1>6 DEF OneEach
  <2>1. at(m) \in 1..Len(s) /\ at(n) \in 1..Len(s) BY <1>4
  <2>2. at(m) = at(n) BY <2>1 DEF OneEach
  <2>. QED BY <2>2, <1>4
<1>. QED BY <1>1, <1>4, <1>6, <1>7 DEF Entries

(* Deleting a key: its entry, and no other, is gone. *)
LEMMA WithoutFacts ==
  ASSUME NEW S, NEW s \in Seq(S), NEW k, OneEach(s)
  PROVE  /\ Without(s, k) \in Seq(S) /\ OneEach(Without(s, k))
         /\ Len(Without(s, k)) =< Len(s)
         /\ Holds(s, k) => Len(Without(s, k)) < Len(s)
         /\ Entries(Without(s, k)) \subseteq Entries(s)
         /\ \A e \in Entries(Without(s, k)) : e.key # k
<1>. DEFINE I == {i \in 1..Len(s) : s[i].key # k}
<1>1. Without(s, k) = Kept(s, I) /\ I \in SUBSET (1..Len(s)) BY DEF Without
<1>2. Holds(s, k) => I # 1..Len(s) BY DEF Holds
<1>3. \A i \in I : s[i] \in Entries(s) /\ s[i].key # k BY DEF Entries
<1>. HIDE DEF I
<1>. QED BY <1>1, <1>2, <1>3, KeptFacts

LEMMA UnexpiredFacts ==
  ASSUME NEW S, NEW s \in Seq(S), OneEach(s)
  PROVE  /\ Unexpired(s) \in Seq(S) /\ OneEach(Unexpired(s))
         /\ Len(Unexpired(s)) =< Len(s)
         /\ Entries(Unexpired(s)) \subseteq Entries(s)
<1>. DEFINE I == {i \in 1..Len(s) : ~Expired(s[i])}
<1>1. Unexpired(s) = Kept(s, I) /\ I \in SUBSET (1..Len(s)) BY DEF Unexpired
<1>2. \A i \in I : s[i] \in Entries(s) BY DEF Entries
<1>. HIDE DEF I
<1>. QED BY <1>1, <1>2, KeptFacts

LEMMA EntryOfFacts ==
  ASSUME NEW S, NEW s \in Seq(S), NEW k, Holds(s, k)
  PROVE  EntryOf(s, k) \in Entries(s) /\ EntryOf(s, k) \in S /\ EntryOf(s, k).key = k
<1>. DEFINE i == CHOOSE i \in 1..Len(s) : s[i].key = k
<1>1. i \in 1..Len(s) /\ s[i].key = k BY DEF Holds
<1>2. EntryOf(s, k) = s[i] BY DEF EntryOf
<1>. HIDE DEF i
<1>. QED BY <1>1, <1>2 DEF Entries

(* Appending an entry of a key the store does not have. *)
LEMMA AppendFacts ==
  ASSUME NEW S, NEW s \in Seq(S), NEW e \in S, OneEach(s), \A x \in Entries(s) : x.key # e.key
  PROVE  /\ Append(s, e) \in Seq(S) /\ OneEach(Append(s, e))
         /\ Len(Append(s, e)) = Len(s) + 1
         /\ Entries(Append(s, e)) = Entries(s) \cup {e}
<1>1. /\ Append(s, e) \in Seq(S) /\ Len(Append(s, e)) = Len(s) + 1 /\ Len(s) \in Nat
      /\ Append(s, e)[Len(s) + 1] = e
      /\ \A i \in 1..Len(s) : Append(s, e)[i] = s[i]
  OBVIOUS
<1>2. \A i : i \in 1..Len(s) + 1 <=> i \in 1..Len(s) \/ i = Len(s) + 1 BY <1>1
<1>3. \A i \in 1..Len(s) : s[i].key # e.key BY DEF Entries
<1>. HIDE <1>2
<1>4. OneEach(Append(s, e)) BY <1>1, <1>2, <1>3 DEF OneEach
<1>5. Entries(Append(s, e)) = Entries(s) \cup {e} BY <1>1, <1>2 DEF Entries
<1>. QED BY <1>1, <1>4, <1>5

(* A use moves an entry to the end. *)
LEMMA UsedFacts ==
  ASSUME NEW S, NEW s \in Seq(S), NEW k, OneEach(s), Holds(s, k)
  PROVE  /\ Used(s, k) \in Seq(S) /\ OneEach(Used(s, k))
         /\ Len(Used(s, k)) =< Len(s)
         /\ Entries(Used(s, k)) \subseteq Entries(s)
<1>. DEFINE t == Without(s, k)
            e == EntryOf(s, k)
<1>1. t \in Seq(S) /\ OneEach(t) /\ Len(t) < Len(s) /\ Entries(t) \subseteq Entries(s)
      /\ \A x \in Entries(t) : x.key # k
  BY WithoutFacts
<1>2. e \in S /\ e \in Entries(s) /\ e.key = k BY EntryOfFacts
<1>3. Used(s, k) = Append(t, e) BY DEF Used
<1>. HIDE DEF t, e
<1>4. Append(t, e) \in Seq(S) /\ OneEach(Append(t, e)) /\ Len(Append(t, e)) = Len(t) + 1
      /\ Entries(Append(t, e)) = Entries(t) \cup {e}
  BY <1>1, <1>2, AppendFacts
<1>5. Len(t) + 1 =< Len(s) BY <1>1
<1>. QED BY <1>1, <1>2, <1>3, <1>4, <1>5

(* A put leaves at most max entries, of which one key's is the new one. *)
LEMMA PutFacts ==
  ASSUME NEW S, NEW s \in Seq(S), NEW e \in S, NEW max \in Nat, OneEach(s)
  PROVE  /\ Put(s, e, max) \in Seq(S) /\ OneEach(Put(s, e, max))
         /\ Len(Put(s, e, max)) =< max
         /\ \A x \in Entries(Put(s, e, max)) : x = e \/ (x \in Entries(s) /\ x.key # e.key)
<1>. DEFINE t == Append(Without(s, e.key), e)
            m == IF Len(t) > max THEN Len(t) - max + 1 ELSE 1
<1>1. t \in Seq(S) /\ OneEach(t) /\ \A x \in Entries(t) : x = e \/ (x \in Entries(s) /\ x.key # e.key)
  BY WithoutFacts, AppendFacts
<1>2. Put(s, e, max) = SubSeq(t, m, Len(t)) BY DEF Put
<1>. HIDE DEF t
<1>3. Len(t) \in Nat /\ m \in Nat /\ 1 =< m /\ (m > Len(t) => Len(t) = 0 \/ max = 0) BY <1>1
<1>4. /\ SubSeq(t, m, Len(t)) \in Seq(S)
      /\ Len(SubSeq(t, m, Len(t))) = IF m =< Len(t) THEN Len(t) - m + 1 ELSE 0
      /\ \A i \in 1..(Len(t) - m + 1) : SubSeq(t, m, Len(t))[i] = t[m + i - 1]
  BY <1>1, <1>3, SubSeqProperties
<1>5. Len(Put(s, e, max)) =< max BY <1>2, <1>3, <1>4
<1>. HIDE DEF m
<1>6. \A i \in 1..Len(Put(s, e, max)) : m + i - 1 \in 1..Len(t) /\ Put(s, e, max)[i] = t[m + i - 1]
  BY <1>2, <1>3, <1>4
<1>7. OneEach(Put(s, e, max))
  <2>. SUFFICES ASSUME NEW i \in 1..Len(Put(s, e, max)), NEW j \in 1..Len(Put(s, e, max)),
                       Put(s, e, max)[i].key = Put(s, e, max)[j].key
                PROVE  i = j
    BY DEF OneEach
  <2>1. m + i - 1 = m + j - 1 BY <1>1, <1>6 DEF OneEach
  <2>. QED BY <2>1, <1>3
<1>8. \A x \in Entries(Put(s, e, max)) : x \in Entries(t) BY <1>6 DEF Entries
<1>. QED BY <1>1, <1>2, <1>4, <1>5, <1>7, <1>8

-----------------------------------------------------------------------------
(* The processes, and the steps seen from the stores. *)
LEMMA ProcFacts ==
  /\ \A q \in Queries : Query(q) \in Procs /\ Refresher(q) \in Procs
  /\ \A q, r \in Queries :
       /\ Query(q) # Refresher(r)
       /\ Query(q) = Query(r) => q = r
       /\ Refresher(q) = Refresher(r) => q = r
BY DEF Procs, Query, Refresher

(* A process is a query or a refresher. *)
LEMMA ProcKinds ==
  ASSUME NEW p \in Procs
  PROVE  \E q \in Queries : p[1] = q /\ ((p = Query(q) /\ p[2] = "query") \/ (p = Refresher(q) /\ p[2] = "refresh"))
<1>1. p[1] \in Queries /\ p[2] \in {"query", "refresh"} /\ p = <<p[1], p[2]>> BY DEF Procs
<1>2. CASE p[2] = "query" BY <1>1, <1>2 DEF Query
<1>3. CASE p[2] = "refresh" BY <1>1, <1>3 DEF Refresher
<1>. QED BY <1>1, <1>2, <1>3

LEMMA ProcKeys == \A q \in Queries : KeyOf(Query(q)) = key[q] /\ KeyOf(Refresher(q)) = key[q]
BY DEF KeyOf, Query, Refresher

LEMMA KeyFacts == ASSUME TypeOK, NEW p \in Procs PROVE KeyOf(p) \in Keys
<1>1. key \in [Queries -> Keys] BY DEF TypeOK
<1>2. p[1] \in Queries BY ProcKinds
<1>. QED BY <1>1, <1>2 DEF KeyOf

LEMMA BoundFacts == MaxEntries \in Nat \ {0} /\ MaxFiles \in Nat /\ TTL \in Nat /\ Stale \in Nat /\ MaxClears \in Nat
                    /\ Horizon \in Nat
<1>1. {MaxEntries, Horizon} \subseteq Nat \ {0} /\ {MaxFiles, TTL, Stale, MaxClears} \subseteq Nat
  BY CacheAssumption DEF CacheAssumption
<1>. QED BY <1>1

LEMMA StoreFacts ==
  ASSUME NEW s, NEW max, StoreOK(s, max)
  PROVE  /\ s \in Seq(Entry) /\ OneEach(s) /\ Len(s) =< max
         /\ \A e \in Entries(s) : e \in Entry
<1>1. s \in Seq(Entry) /\ OneEach(s) /\ Len(s) =< max BY DEF StoreOK, OneEach, Entry
<1>2. \A i \in 1..Len(s) : s[i] \in Entry BY <1>1
<1>. QED BY <1>1, <1>2 DEF Entries

(* A store stays one while kdb+ answers and time passes. *)
LEMMA StoreLater ==
  ASSUME TypeOK, calls' \in Nat, calls' >= calls, now' \in Nat, now' >= now
  PROVE  /\ memory' = memory => StoreOK(memory, MaxEntries)'
         /\ files' = files => StoreOK(files, MaxFiles)'
<1>1. calls \in Nat /\ now \in Nat BY BoundFacts DEF TypeOK
<1>2. [key : Keys, ver : 0..calls, created : 0..now] \subseteq [key : Keys, ver : 0..calls', created : 0..now']
  BY <1>1
<1>3. Seq([key : Keys, ver : 0..calls, created : 0..now]) \subseteq Seq([key : Keys, ver : 0..calls', created : 0..now'])
  BY <1>2, SeqMonotonic
<1>. QED BY <1>3 DEF StoreOK, TypeOK

LEMMA LookupMemoryEffect ==
  ASSUME TypeOK, NEW p \in Procs, NEW from, NEW hit, NEW miss, LookupMemory(p, from, hit, miss)
  PROVE  /\ StoreOK(memory, MaxEntries)' /\ Entries(memory') \subseteq Entries(memory)
         /\ \/ /\ Goto(p, from, hit)
               /\ \E e \in Entries(memory) : e.key = KeyOf(p) /\ got' = [got EXCEPT ![p] = Lookup(e)]
            \/ Goto(p, from, miss) /\ got' = got
<1>1. memory \in Seq(Entry) /\ OneEach(memory) /\ Len(memory) =< MaxEntries /\ Len(memory) \in Nat
  BY StoreFacts DEF TypeOK
<1>2. UNCHANGED <<calls, now>> BY DEF LookupMemory
<1>3. CASE Found(memory, KeyOf(p)) /\ memory' = Used(memory, KeyOf(p))
           /\ got' = [got EXCEPT ![p] = Lookup(EntryOf(memory, KeyOf(p)))] /\ Goto(p, from, hit)
  <2>1. Holds(memory, KeyOf(p)) BY <1>3 DEF Found
  <2>2. EntryOf(memory, KeyOf(p)) \in Entries(memory) /\ EntryOf(memory, KeyOf(p)).key = KeyOf(p)
    BY <1>1, <2>1, EntryOfFacts
  <2>3. memory' \in Seq(Entry) /\ OneEach(memory') /\ Len(memory') =< Len(memory) /\ Entries(memory') \subseteq Entries(memory)
    BY <1>1, <1>3, <2>1, UsedFacts
  <2>4. Len(memory') =< MaxEntries BY <1>1, <2>3, BoundFacts
  <2>. QED BY <1>2, <1>3, <2>2, <2>3, <2>4 DEF StoreOK, Entry, OneEach
<1>4. CASE memory' = Without(memory, KeyOf(p)) /\ Goto(p, from, miss) /\ UNCHANGED got
  <2>3. memory' \in Seq(Entry) /\ OneEach(memory') /\ Len(memory') =< Len(memory) /\ Entries(memory') \subseteq Entries(memory)
    BY <1>1, <1>4, WithoutFacts
  <2>4. Len(memory') =< MaxEntries BY <1>1, <2>3, BoundFacts
  <2>. QED BY <1>2, <1>4, <2>3, <2>4 DEF StoreOK, Entry, OneEach
<1>. QED BY <1>3, <1>4 DEF LookupMemory

LEMMA LookupDiskEffect ==
  ASSUME TypeOK, NEW p \in Procs, NEW from, NEW hit, NEW miss, LookupDisk(p, from, hit, miss)
  PROVE  /\ StoreOK(files, MaxFiles)' /\ Entries(files') \subseteq Entries(files)
         /\ \/ /\ Goto(p, from, hit) /\ onDisk
               /\ \E e \in Entries(files) : e.key = KeyOf(p) /\ got' = [got EXCEPT ![p] = Lookup(e)]
            \/ Goto(p, from, miss) /\ got' = got
<1>1. files \in Seq(Entry) /\ OneEach(files) /\ Len(files) =< MaxFiles /\ Len(files) \in Nat
  BY StoreFacts DEF TypeOK
<1>2. UNCHANGED <<calls, now>> BY DEF LookupDisk
<1>3. CASE Found(files, KeyOf(p)) /\ files' = Used(files, KeyOf(p)) /\ onDisk
           /\ got' = [got EXCEPT ![p] = Lookup(EntryOf(files, KeyOf(p)))] /\ Goto(p, from, hit)
  <2>1. Holds(files, KeyOf(p)) BY <1>3 DEF Found
  <2>2. EntryOf(files, KeyOf(p)) \in Entries(files) /\ EntryOf(files, KeyOf(p)).key = KeyOf(p)
    BY <1>1, <2>1, EntryOfFacts
  <2>3. files' \in Seq(Entry) /\ OneEach(files') /\ Len(files') =< Len(files) /\ Entries(files') \subseteq Entries(files)
    BY <1>1, <1>3, <2>1, UsedFacts
  <2>4. Len(files') =< MaxFiles BY <1>1, <2>3, BoundFacts
  <2>. QED BY <1>2, <1>3, <2>2, <2>3, <2>4 DEF StoreOK, Entry, OneEach
<1>4. CASE files' = Without(files, KeyOf(p)) /\ Goto(p, from, miss) /\ UNCHANGED got
  <2>3. files' \in Seq(Entry) /\ OneEach(files') /\ Len(files') =< Len(files) /\ Entries(files') \subseteq Entries(files)
    BY <1>1, <1>4, WithoutFacts
  <2>4. Len(files') =< MaxFiles BY <1>1, <2>3, BoundFacts
  <2>. QED BY <1>2, <1>4, <2>3, <2>4 DEF StoreOK, Entry, OneEach
<1>5. CASE UNCHANGED <<files, got>> /\ Goto(p, from, miss)
  BY <1>1, <1>2, <1>5 DEF StoreOK, Entry, OneEach
<1>. QED BY <1>3, <1>4, <1>5 DEF LookupDisk

(* A put of an entry that fits. *)
LEMMA PutEffect ==
  ASSUME NEW s, NEW max \in Nat, StoreOK(s, max), NEW e \in Entry
  PROVE  /\ StoreOK(Put(s, e, max), max)
         /\ \A x \in Entries(Put(s, e, max)) : x = e \/ (x \in Entries(s) /\ x.key # e.key)
<1>1. s \in Seq(Entry) /\ OneEach(s) BY StoreFacts
<1>2. /\ Put(s, e, max) \in Seq(Entry) /\ OneEach(Put(s, e, max)) /\ Len(Put(s, e, max)) =< max
      /\ \A x \in Entries(Put(s, e, max)) : x = e \/ (x \in Entries(s) /\ x.key # e.key)
  BY <1>1, PutFacts
<1>. QED BY <1>2 DEF StoreOK, OneEach, Entry

-----------------------------------------------------------------------------
(* Control: the places, what goes with them, and the flights. *)

(* A process goes on, in or out of its flight. *)
LEMMA MoveKeeps ==
  ASSUME ControlInv, NEW p \in Procs, NEW from, NEW to, Goto(p, from, to), UNCHANGED <<key, flight>>,
         from \in FlightPCs <=> to \in FlightPCs, to # "wait", from \notin {"done", "off"},
         p[2] = "query" => to \in QueryPCs, p[2] = "refresh" => to \in RefresherPCs
  PROVE  pc' \in [Procs -> QueryPCs \cup RefresherPCs] /\ Places' /\ FlightHeld'
<1>1. pc \in [Procs -> QueryPCs \cup RefresherPCs] /\ pc[p] = from /\ pc' = [pc EXCEPT ![p] = to]
  BY DEF ControlInv, TypeOK, Goto
<1>2. pc'[p] = to /\ \A r \in Procs : r # p => pc'[r] = pc[r] BY <1>1
<1>3. \A r \in Procs : KeyOf(r)' = KeyOf(r) BY DEF KeyOf
<1>4. pc' \in [Procs -> QueryPCs \cup RefresherPCs] BY <1>1, ProcKinds
<1>5. Places'
  <2>. SUFFICES ASSUME NEW q \in Queries
                PROVE  /\ pc'[Query(q)] \in QueryPCs
                       /\ pc'[Refresher(q)] \in RefresherPCs
                       /\ pc'[Refresher(q)] # "off" => pc'[Query(q)] = "done"
    BY DEF Places, Query, Refresher
  <2>1. /\ pc[Query(q)] \in QueryPCs
        /\ pc[Refresher(q)] \in RefresherPCs
        /\ pc[Refresher(q)] # "off" => pc[Query(q)] = "done"
    BY DEF ControlInv, Places
  <2>2. Query(q) \in Procs /\ Refresher(q) \in Procs /\ Query(q) # Refresher(q) BY ProcFacts
  <2>3. Query(q)[2] = "query" /\ Refresher(q)[2] = "refresh" BY DEF Query, Refresher
  <2>. QED BY <1>1, <1>2, <2>1, <2>2, <2>3
<1>6. FlightHeld'
  <2>. SUFFICES ASSUME NEW r \in Procs
                PROVE  /\ pc'[r] \in FlightPCs <=> flight[KeyOf(r)] = r
                       /\ pc'[r] = "wait" => flight[KeyOf(r)] # None
    BY <1>3 DEF FlightHeld, InFlight
  <2>1. /\ pc[r] \in FlightPCs <=> flight[KeyOf(r)] = r
        /\ pc[r] = "wait" => flight[KeyOf(r)] # None
    BY DEF ControlInv, FlightHeld, InFlight
  <2>. QED BY <1>1, <1>2, <2>1
<1>. QED BY <1>4, <1>5, <1>6

(* What the others hold stays theirs. *)
LEMMA MoveHoldings ==
  ASSUME ControlInv, NEW p \in Procs, NEW from, NEW to, Goto(p, from, to),
         calls' \in Nat, calls' >= calls, now' \in Nat, now' >= now,
         got' \in [Procs -> {None} \cup Results'],
         \A r \in Procs \ {p} : got'[r] = got[r],
         to \in EmptyPCs => got'[p] = None,
         to \in {"fill", "fill2", "putMemory", "putDisk"} => got'[p] \in Results'
  PROVE  Holdings'
<1>. SUFFICES ASSUME NEW r \in Procs
              PROVE  /\ pc'[r] \in EmptyPCs => got'[r] = None
                     /\ pc'[r] \in {"fill", "fill2", "putMemory", "putDisk"} => got'[r] \in Results'
  BY DEF Holdings, Filling, Storing, EmptyPCs
<1>1. pc'[p] = to /\ \A x \in Procs : x # p => pc'[x] = pc[x] BY DEF ControlInv, TypeOK, Goto
<1>2. calls \in Nat /\ now \in Nat BY BoundFacts DEF ControlInv, TypeOK
<1>3. Results \subseteq Results' BY <1>2 DEF Results
<1>4. /\ pc[r] \in EmptyPCs => got[r] = None
      /\ pc[r] \in {"fill", "fill2", "putMemory", "putDisk"} => got[r] \in Results
  BY DEF ControlInv, Holdings, Filling, Storing
<1>. QED BY <1>1, <1>3, <1>4

LEMMA BeginControl == ASSUME ControlInv, NEW q \in Queries, Begin(q) PROVE ControlInv'
<1>. DEFINE p == Query(q)
<1>1. TypeOK /\ p \in Procs /\ p[2] = "query" /\ pc[p] = "start" /\ got[p] = None
  <2>1. p \in Procs /\ p[2] = "query" BY ProcFacts DEF Query
  <2>. QED BY <2>1 DEF ControlInv, Holdings, EmptyPCs, Begin, Goto
<1>2. PICK to \in {"memory", "do"} : Goto(p, "start", to) BY DEF Begin
<1>3. /\ UNCHANGED <<key, mode, onDisk, got, memory, files, refreshing, flight, calls, now, clears, newest>>
      /\ since' = [since EXCEPT ![q] = newest[key[q]]]
  BY DEF Begin, qvars
<1>. HIDE DEF p
<1>4. pc' \in [Procs -> QueryPCs \cup RefresherPCs] /\ Places' /\ FlightHeld'
  BY <1>1, <1>2, <1>3, MoveKeeps DEF QueryPCs, FlightPCs
<1>5. calls \in Nat /\ now \in Nat /\ calls >= calls /\ now >= now BY <1>1, BoundFacts DEF TypeOK
<1>6. Holdings'
  <2>1. got \in [Procs -> {None} \cup Results'] BY <1>1, <1>3 DEF TypeOK, Results
  <2>. QED BY <1>1, <1>2, <1>3, <1>5, <2>1, MoveHoldings
<1>7. TypeOK'
  <2>1. StoreOK(memory, MaxEntries)' /\ StoreOK(files, MaxFiles)' BY <1>1, <1>3, <1>5, StoreLater
  <2>2. since' \in [Queries -> 0..calls] BY <1>1, <1>3 DEF TypeOK
  <2>. QED BY <1>1, <1>3, <1>4, <2>1, <2>2 DEF TypeOK
<1>. QED BY <1>4, <1>6, <1>7 DEF ControlInv

(* A lookup, in memory or on disk. *)
LEMMA LookupKeeps ==
  ASSUME ControlInv, NEW p \in Procs, p[2] = "query", NEW from, NEW hit, NEW miss,
         <<from, hit, miss>> \in {<<"memory", "served", "disk">>, <<"memory2", "return", "disk2">>,
                                 <<"disk", "fill", "do">>, <<"disk2", "fill2", "fetch">>},
         UNCHANGED <<key, mode, onDisk, refreshing, flight, calls, now, clears, newest, since>>,
         StoreOK(memory, MaxEntries)', StoreOK(files, MaxFiles)',
         \/ /\ Goto(p, from, hit)
            /\ \E e \in Entries(memory) \cup Entries(files) : got' = [got EXCEPT ![p] = Lookup(e)]
         \/ Goto(p, from, miss) /\ got' = got
  PROVE  ControlInv'
<1>1. TypeOK /\ pc[p] = from /\ calls \in Nat /\ now \in Nat /\ calls >= calls /\ now >= now
  BY BoundFacts DEF ControlInv, TypeOK, Goto
<1>2. got[p] = None
  <2>1. from \in EmptyPCs BY DEF EmptyPCs
  <2>. QED BY <1>1, <2>1 DEF ControlInv, Holdings
<1>3. \A e \in Entries(memory) \cup Entries(files) : Lookup(e) \in Results
  <2>. SUFFICES ASSUME NEW e \in Entry PROVE Lookup(e) \in Results BY <1>1, StoreFacts DEF TypeOK
  <2>. QED BY DEF Lookup, Results, Entry
<1>4. PICK to \in {hit, miss} :
        /\ Goto(p, from, to)
        /\ \/ to = hit /\ \E x \in Results : got' = [got EXCEPT ![p] = x]
           \/ to = miss /\ got' = got
  BY <1>3
<1>5. pc' \in [Procs -> QueryPCs \cup RefresherPCs] /\ Places' /\ FlightHeld'
  <2>1. /\ from \in FlightPCs <=> to \in FlightPCs
        /\ to # "wait" /\ from \notin {"done", "off"} /\ to \in QueryPCs
    BY <1>4 DEF QueryPCs, FlightPCs
  <2>. QED BY <1>4, <2>1, MoveKeeps
<1>6. got \in [Procs -> {None} \cup Results] /\ Results' = Results BY <1>1 DEF TypeOK, Results
<1>7. got' \in [Procs -> {None} \cup Results] /\ \A r \in Procs \ {p} : got'[r] = got[r]
  BY <1>4, <1>6
<1>8. /\ to \in EmptyPCs => got'[p] = None
      /\ to \in {"fill", "fill2", "putMemory", "putDisk"} => got'[p] \in Results
  BY <1>2, <1>4, <1>6 DEF EmptyPCs
<1>9. Holdings' BY <1>1, <1>4, <1>6, <1>7, <1>8, MoveHoldings
<1>10. TypeOK' BY <1>1, <1>5, <1>6, <1>7 DEF TypeOK, Results
<1>. QED BY <1>5, <1>9, <1>10 DEF ControlInv

LEMMA LookupMemoryControl ==
  ASSUME ControlInv, NEW p \in Procs, p[2] = "query", NEW from, NEW hit, NEW miss,
         <<from, hit, miss>> \in {<<"memory", "served", "disk">>, <<"memory2", "return", "disk2">>},
         LookupMemory(p, from, hit, miss)
  PROVE  ControlInv'
<1>1. TypeOK /\ calls \in Nat /\ now \in Nat /\ calls >= calls /\ now >= now
  BY BoundFacts DEF ControlInv, TypeOK
<1>2. UNCHANGED <<key, mode, onDisk, files, refreshing, flight, calls, now, clears, newest, since>>
  BY DEF LookupMemory, qvars, gvars
<1>3. StoreOK(files, MaxFiles)' BY <1>1, <1>2, StoreLater
<1>. QED BY <1>1, <1>2, <1>3, LookupMemoryEffect, LookupKeeps

LEMMA LookupDiskControl ==
  ASSUME ControlInv, NEW p \in Procs, p[2] = "query", NEW from, NEW hit, NEW miss,
         <<from, hit, miss>> \in {<<"disk", "fill", "do">>, <<"disk2", "fill2", "fetch">>},
         LookupDisk(p, from, hit, miss)
  PROVE  ControlInv'
<1>1. TypeOK /\ calls \in Nat /\ now \in Nat /\ calls >= calls /\ now >= now
  BY BoundFacts DEF ControlInv, TypeOK
<1>2. UNCHANGED <<key, mode, onDisk, memory, refreshing, flight, calls, now, clears, newest, since>>
  BY DEF LookupDisk, qvars, gvars
<1>3. StoreOK(memory, MaxEntries)' BY <1>1, <1>2, StoreLater
<1>. QED BY <1>1, <1>2, <1>3, LookupDiskEffect, LookupKeeps

LEMMA FillMemoryControl ==
  ASSUME ControlInv, NEW p \in Procs, p[2] = "query", NEW from, NEW to,
         <<from, to>> \in {<<"fill", "served">>, <<"fill2", "return">>},
         FillMemory(p, from, to)
  PROVE  ControlInv'
<1>1. TypeOK /\ Goto(p, from, to) /\ pc[p] = from /\ calls \in Nat /\ now \in Nat /\ calls >= calls /\ now >= now
  BY BoundFacts DEF ControlInv, TypeOK, Goto, FillMemory
<1>2. UNCHANGED <<key, mode, onDisk, got, files, refreshing, flight, calls, now, clears, newest, since>>
  BY DEF FillMemory, qvars, gvars
<1>3. got[p] \in Results BY <1>1 DEF ControlInv, Holdings, Filling
<1>4. pc' \in [Procs -> QueryPCs \cup RefresherPCs] /\ Places' /\ FlightHeld'
  <2>1. /\ from \in FlightPCs <=> to \in FlightPCs
        /\ to # "wait" /\ from \notin {"done", "off"} /\ to \in QueryPCs
    BY DEF QueryPCs, FlightPCs
  <2>. QED BY <1>1, <1>2, <2>1, MoveKeeps
<1>5. Holdings'
  <2>1. got \in [Procs -> {None} \cup Results'] BY <1>1, <1>2 DEF TypeOK, Results
  <2>2. to \notin EmptyPCs /\ to \notin {"fill", "fill2", "putMemory", "putDisk"} BY DEF EmptyPCs
  <2>. QED BY <1>1, <1>2, <2>1, <2>2, MoveHoldings
<1>6. TypeOK'
  <2>1. StoreOK(files, MaxFiles)' BY <1>1, <1>2, StoreLater
  <2>2. [key |-> KeyOf(p), ver |-> got[p].ver, created |-> got[p].created] \in Entry
    BY <1>1, <1>3, KeyFacts DEF Results, Entry
  <2>3. StoreOK(memory', MaxEntries) BY <1>1, <2>2, PutEffect, BoundFacts DEF TypeOK, FillMemory
  <2>4. StoreOK(memory, MaxEntries)' BY <1>2, <2>3 DEF StoreOK
  <2>. QED BY <1>1, <1>2, <1>4, <2>1, <2>4 DEF TypeOK
<1>. QED BY <1>4, <1>5, <1>6 DEF ControlInv

(* A query that returns, and its refresher, if it begins. *)
LEMMA ServeControl == ASSUME ControlInv, NEW q \in Queries, Serve(q) PROVE ControlInv'
<1>. DEFINE p == Query(q)
            f == Refresher(q)
<1>1. TypeOK /\ calls \in Nat /\ now \in Nat /\ calls >= calls /\ now >= now
  BY BoundFacts DEF ControlInv, TypeOK
<1>2. p \in Procs /\ f \in Procs /\ p # f /\ p[2] = "query" /\ f[2] = "refresh" BY ProcFacts DEF Query, Refresher
<1>3. /\ UNCHANGED <<key, mode, onDisk, got, memory, files, flight, calls, now, clears, newest, since>>
      /\ pc[p] = "served"
      /\ \/ pc' = [pc EXCEPT ![p] = "done", ![f] = "do"] /\ refreshing' = refreshing \cup {key[q]}
         \/ pc' = [pc EXCEPT ![p] = "done"] /\ refreshing' = refreshing
  BY DEF Serve, qvars, gvars, Goto
<1>4. pc[f] = "off" /\ got[f] = None
  <2>1. pc[f] = "off" BY <1>3 DEF ControlInv, Places
  <2>. QED BY <2>1, <1>2 DEF ControlInv, Holdings, EmptyPCs
<1>. HIDE DEF p, f
<1>5. /\ pc' \in [Procs -> QueryPCs \cup RefresherPCs]
      /\ pc'[p] = "done" /\ pc'[f] \in {"off", "do"}
      /\ \A r \in Procs \ {p, f} : pc'[r] = pc[r]
  BY <1>1, <1>2, <1>3, <1>4 DEF TypeOK, QueryPCs, RefresherPCs
<1>6. Places'
  <2>. SUFFICES ASSUME NEW u \in Queries
                PROVE  /\ pc'[Query(u)] \in QueryPCs
                       /\ pc'[Refresher(u)] \in RefresherPCs
                       /\ pc'[Refresher(u)] # "off" => pc'[Query(u)] = "done"
    BY DEF Places, Query, Refresher
  <2>1. /\ pc[Query(u)] \in QueryPCs
        /\ pc[Refresher(u)] \in RefresherPCs
        /\ pc[Refresher(u)] # "off" => pc[Query(u)] = "done"
    BY DEF ControlInv, Places
  <2>2. CASE u = q BY <1>5, <2>2 DEF p, f, QueryPCs, RefresherPCs
  <2>3. CASE u # q
    <3>1. Query(u) \in Procs \ {p, f} /\ Refresher(u) \in Procs \ {p, f} BY <2>3, ProcFacts DEF p, f
    <3>. QED BY <1>5, <2>1, <3>1
  <2>. QED BY <2>2, <2>3
<1>7. FlightHeld'
  <2>. SUFFICES ASSUME NEW r \in Procs
                PROVE  /\ pc'[r] \in FlightPCs <=> flight[KeyOf(r)] = r
                       /\ pc'[r] = "wait" => flight[KeyOf(r)] # None
    BY <1>3 DEF FlightHeld, InFlight, KeyOf
  <2>1. /\ pc[r] \in FlightPCs <=> flight[KeyOf(r)] = r
        /\ pc[r] = "wait" => flight[KeyOf(r)] # None
    BY DEF ControlInv, FlightHeld, InFlight
  <2>. QED BY <1>3, <1>4, <1>5, <2>1 DEF FlightPCs
<1>8. Holdings'
  <2>. SUFFICES ASSUME NEW r \in Procs
                PROVE  /\ pc'[r] \in EmptyPCs => got[r] = None
                       /\ pc'[r] \in {"fill", "fill2", "putMemory", "putDisk"} => got[r] \in Results
    BY <1>3 DEF Holdings, Filling, Storing, EmptyPCs, Results
  <2>1. /\ pc[r] \in EmptyPCs => got[r] = None
        /\ pc[r] \in {"fill", "fill2", "putMemory", "putDisk"} => got[r] \in Results
    BY DEF ControlInv, Holdings, Filling, Storing
  <2>. QED BY <1>4, <1>5, <2>1 DEF EmptyPCs
<1>9. TypeOK'
  <2>1. StoreOK(memory, MaxEntries)' /\ StoreOK(files, MaxFiles)' BY <1>1, <1>3, StoreLater
  <2>2. refreshing' \subseteq Keys BY <1>1, <1>3 DEF TypeOK
  <2>. QED BY <1>1, <1>3, <1>5, <2>1, <2>2 DEF TypeOK
<1>. QED BY <1>6, <1>7, <1>8, <1>9 DEF ControlInv

(* A process enters the flight of its key, or joins it. *)
LEMMA DoControl == ASSUME ControlInv, NEW p \in Procs, Do(p) PROVE ControlInv'
<1>1. TypeOK /\ calls \in Nat /\ now \in Nat /\ calls >= calls /\ now >= now /\ KeyOf(p) \in Keys
  BY BoundFacts, KeyFacts DEF ControlInv, TypeOK
<1>2. UNCHANGED <<key, mode, onDisk, got, memory, files, refreshing, calls, now, clears, newest, since>>
  BY DEF Do, qvars, gvars
<1>3. PICK to \in {"memory2", "fetch", "wait"} :
        /\ Goto(p, "do", to)
        /\ p[2] = "refresh" => to # "memory2"
        /\ \/ to # "wait" /\ flight[KeyOf(p)] = None /\ flight' = [flight EXCEPT ![KeyOf(p)] = p]
           \/ to = "wait" /\ flight[KeyOf(p)] # None /\ flight' = flight
  BY DEF Do, Reads
<1>4. pc[p] = "do" /\ got[p] = None
  <2>1. pc[p] = "do" BY <1>3 DEF Goto
  <2>. QED BY <2>1 DEF ControlInv, Holdings, EmptyPCs
<1>5. /\ pc' \in [Procs -> QueryPCs \cup RefresherPCs]
      /\ pc'[p] = to /\ \A r \in Procs \ {p} : pc'[r] = pc[r]
  BY <1>1, <1>3 DEF TypeOK, Goto, QueryPCs, RefresherPCs
<1>6. Places'
  <2>. SUFFICES ASSUME NEW u \in Queries
                PROVE  /\ pc'[Query(u)] \in QueryPCs
                       /\ pc'[Refresher(u)] \in RefresherPCs
                       /\ pc'[Refresher(u)] # "off" => pc'[Query(u)] = "done"
    BY DEF Places, Query, Refresher
  <2>1. /\ pc[Query(u)] \in QueryPCs
        /\ pc[Refresher(u)] \in RefresherPCs
        /\ pc[Refresher(u)] # "off" => pc[Query(u)] = "done"
    BY DEF ControlInv, Places
  <2>2. Query(u) \in Procs /\ Refresher(u) \in Procs /\ Query(u) # Refresher(u) BY ProcFacts
  <2>3. Refresher(u)[2] = "refresh" BY DEF Refresher
  <2>. QED BY <1>3, <1>4, <1>5, <2>1, <2>2, <2>3 DEF QueryPCs, RefresherPCs
<1>7. FlightHeld'
  <2>. SUFFICES ASSUME NEW r \in Procs
                PROVE  /\ pc'[r] \in FlightPCs <=> flight'[KeyOf(r)] = r
                       /\ pc'[r] = "wait" => flight'[KeyOf(r)] # None
    BY <1>2 DEF FlightHeld, InFlight, KeyOf
  <2>1. /\ pc[r] \in FlightPCs <=> flight[KeyOf(r)] = r
        /\ pc[r] = "wait" => flight[KeyOf(r)] # None
    BY DEF ControlInv, FlightHeld, InFlight
  <2>2. flight \in [Keys -> Procs \cup {None}] /\ KeyOf(r) \in Keys /\ p # None /\ r # None
    BY <1>1, KeyFacts, NoneAssumption DEF TypeOK
  <2>. QED BY <1>1, <1>3, <1>4, <1>5, <2>1, <2>2 DEF FlightPCs
<1>8. Holdings'
  <2>1. got \in [Procs -> {None} \cup Results'] BY <1>1, <1>2 DEF TypeOK, Results
  <2>. QED BY <1>1, <1>2, <1>3, <1>4, <2>1, MoveHoldings
<1>9. TypeOK'
  <2>1. StoreOK(memory, MaxEntries)' /\ StoreOK(files, MaxFiles)' BY <1>1, <1>2, StoreLater
  <2>2. flight' \in [Keys -> Procs \cup {None}] BY <1>1, <1>3 DEF TypeOK
  <2>. QED BY <1>1, <1>2, <1>5, <2>1, <2>2 DEF TypeOK
<1>. QED BY <1>6, <1>7, <1>8, <1>9 DEF ControlInv

(* The call of kdb+ returns a new result, or fails. *)
LEMMA FetchControl == ASSUME ControlInv, NEW p \in Procs, Fetch(p) PROVE ControlInv'
<1>1. /\ TypeOK /\ calls \in Nat /\ now \in Nat /\ calls' = calls + 1
      /\ UNCHANGED <<key, mode, onDisk, memory, files, refreshing, flight, now, clears, newest, since>>
  BY BoundFacts DEF ControlInv, TypeOK, Fetch, qvars, gvars
<1>2. calls' \in Nat /\ calls' >= calls /\ now' \in Nat /\ now' >= now BY <1>1
<1>3. PICK to \in {"putMemory", "return"} :
        /\ Goto(p, "fetch", to)
        /\ \/ to = "putMemory" /\ got' = [got EXCEPT ![p] = [ver |-> calls + 1, created |-> now, stale |-> FALSE]]
           \/ to = "return" /\ got' = got
  BY DEF Fetch
<1>4. pc' \in [Procs -> QueryPCs \cup RefresherPCs] /\ Places' /\ FlightHeld'
  <2>1. to \in FlightPCs /\ "fetch" \in FlightPCs /\ to \in QueryPCs /\ to \in RefresherPCs
    BY DEF FlightPCs, QueryPCs, RefresherPCs
  <2>. QED BY <1>1, <1>3, <2>1, MoveKeeps
<1>. DEFINE x == [ver |-> calls + 1, created |-> now, stale |-> FALSE]
<1>0. x \in Results' BY <1>1 DEF Results
<1>5. got' \in [Procs -> {None} \cup Results'] /\ \A r \in Procs \ {p} : got'[r] = got[r]
  <2>1. Results \subseteq Results' BY <1>1, <1>2 DEF Results
  <2>3. got \in [Procs -> {None} \cup Results] BY <1>1 DEF TypeOK, Results
  <2>. QED BY <1>0, <1>3, <2>1, <2>3
<1>6. Holdings'
  <2>1. to = "putMemory" => got'[p] \in Results'
    <3>1. to = "putMemory" => got'[p] = x BY <1>1, <1>3 DEF TypeOK
    <3>. QED BY <1>0, <3>1
  <2>2. to \notin EmptyPCs /\ to \notin {"fill", "fill2", "putDisk"} BY DEF EmptyPCs
  <2>. QED BY <1>2, <1>3, <1>5, <2>1, <2>2, MoveHoldings
<1>7. TypeOK'
  <2>1. StoreOK(memory, MaxEntries)' /\ StoreOK(files, MaxFiles)' BY <1>1, <1>2, StoreLater
  <2>2. newest' \in [Keys -> 0..calls'] /\ since' \in [Queries -> 0..calls']
    <3>1. 0..calls \subseteq 0..calls' BY <1>1
    <3>. QED BY <1>1, <3>1 DEF TypeOK
  <2>3. now' \in 0..Horizon /\ clears' \in 0..MaxClears BY <1>1 DEF TypeOK
  <2>4. got' \in [Procs -> {None} \cup [ver : 0..calls, created : 0..now, stale : BOOLEAN]'] BY <1>5 DEF Results
  <2>. QED BY <1>1, <1>2, <1>4, <2>1, <2>2, <2>3, <2>4 DEF TypeOK
<1>. QED BY <1>4, <1>6, <1>7 DEF ControlInv

LEMMA PutMemoryControl == ASSUME ControlInv, NEW p \in Procs, PutMemory(p) PROVE ControlInv'
<1>. DEFINE k == KeyOf(p)
            e == [key |-> k, ver |-> got[p].ver, created |-> now]
<1>1. /\ TypeOK /\ Goto(p, "putMemory", "putDisk") /\ pc[p] = "putMemory"
      /\ calls \in Nat /\ now \in Nat /\ calls >= calls /\ now >= now
      /\ UNCHANGED <<key, mode, onDisk, got, files, refreshing, flight, calls, now, clears, since>>
      /\ memory' = Put(memory, e, MaxEntries)
      /\ newest' = [newest EXCEPT ![k] = IF got[p].ver > newest[k] THEN got[p].ver ELSE newest[k]]
  BY BoundFacts DEF ControlInv, TypeOK, PutMemory, Goto, qvars
<1>2. got[p] \in Results /\ k \in Keys BY <1>1, KeyFacts DEF ControlInv, Holdings, Storing
<1>3. pc' \in [Procs -> QueryPCs \cup RefresherPCs] /\ Places' /\ FlightHeld'
  BY <1>1, MoveKeeps DEF FlightPCs, QueryPCs, RefresherPCs
<1>4. Holdings'
  <2>1. got \in [Procs -> {None} \cup Results'] /\ Results' = Results BY <1>1 DEF TypeOK, Results
  <2>2. "putDisk" \notin EmptyPCs BY DEF EmptyPCs
  <2>. QED BY <1>1, <1>2, <2>1, <2>2, MoveHoldings
<1>5. TypeOK'
  <2>1. StoreOK(files, MaxFiles)' BY <1>1, StoreLater
  <2>2. e \in Entry BY <1>1, <1>2 DEF Results, Entry
  <2>3. StoreOK(memory', MaxEntries) BY <1>1, <2>2, PutEffect, BoundFacts DEF TypeOK
  <2>4. StoreOK(memory, MaxEntries)' BY <1>1, <2>3 DEF StoreOK
  <2>5. newest' \in [Keys -> 0..calls] BY <1>1, <1>2 DEF TypeOK, Results
  <2>. QED BY <1>1, <1>3, <2>1, <2>4, <2>5 DEF TypeOK
<1>. QED BY <1>3, <1>4, <1>5 DEF ControlInv

LEMMA PutDiskControl == ASSUME ControlInv, NEW p \in Procs, PutDisk(p) PROVE ControlInv'
<1>. DEFINE e == [key |-> KeyOf(p), ver |-> got[p].ver, created |-> now]
<1>1. /\ TypeOK /\ Goto(p, "putDisk", "return") /\ pc[p] = "putDisk"
      /\ calls \in Nat /\ now \in Nat /\ calls >= calls /\ now >= now
      /\ UNCHANGED <<key, mode, onDisk, got, memory, refreshing, flight, calls, now, clears, newest, since>>
      /\ files' \in {files, Put(files, e, MaxFiles)}
  BY BoundFacts DEF ControlInv, TypeOK, PutDisk, Goto, qvars, gvars
<1>2. got[p] \in Results /\ KeyOf(p) \in Keys BY <1>1, KeyFacts DEF ControlInv, Holdings, Storing
<1>3. pc' \in [Procs -> QueryPCs \cup RefresherPCs] /\ Places' /\ FlightHeld'
  BY <1>1, MoveKeeps DEF FlightPCs, QueryPCs, RefresherPCs
<1>4. Holdings'
  <2>1. got \in [Procs -> {None} \cup Results'] /\ Results' = Results BY <1>1 DEF TypeOK, Results
  <2>2. "return" \notin EmptyPCs BY DEF EmptyPCs
  <2>. QED BY <1>1, <1>2, <2>1, <2>2, MoveHoldings
<1>5. TypeOK'
  <2>1. StoreOK(memory, MaxEntries)' BY <1>1, StoreLater
  <2>2. e \in Entry BY <1>1, <1>2 DEF Results, Entry
  <2>3. StoreOK(files', MaxFiles) BY <1>1, <2>2, PutEffect, BoundFacts DEF TypeOK
  <2>4. StoreOK(files, MaxFiles)' BY <1>1, <2>3 DEF StoreOK
  <2>. QED BY <1>1, <1>3, <2>1, <2>4 DEF TypeOK
<1>. QED BY <1>3, <1>4, <1>5 DEF ControlInv

LEMMA FinishControl == ASSUME ControlInv, NEW q \in Queries, Finish(Refresher(q)) PROVE ControlInv'
<1>. DEFINE p == Refresher(q)
<1>1. /\ TypeOK /\ Goto(p, "finish", "off")
      /\ calls \in Nat /\ now \in Nat /\ calls >= calls /\ now >= now
      /\ UNCHANGED <<key, mode, onDisk, memory, files, flight, calls, now, clears, newest, since>>
      /\ refreshing' \subseteq refreshing
      /\ got' = [got EXCEPT ![p] = None]
  BY BoundFacts DEF ControlInv, TypeOK, Finish, qvars, gvars
<1>2. p \in Procs /\ p[2] = "refresh" BY ProcFacts DEF Refresher
<1>. HIDE DEF p
<1>3. pc' \in [Procs -> QueryPCs \cup RefresherPCs] /\ Places' /\ FlightHeld'
  BY <1>1, <1>2, MoveKeeps DEF FlightPCs, RefresherPCs
<1>4. got' \in [Procs -> {None} \cup Results] /\ Results' = Results
      /\ got'[p] = None /\ \A r \in Procs \ {p} : got'[r] = got[r]
  BY <1>1, <1>2 DEF TypeOK, Results
<1>5. Holdings' BY <1>1, <1>2, <1>4, MoveHoldings
<1>6. TypeOK'
  <2>1. StoreOK(memory, MaxEntries)' /\ StoreOK(files, MaxFiles)' BY <1>1, StoreLater
  <2>2. refreshing' \subseteq Keys BY <1>1 DEF TypeOK
  <2>. QED BY <1>1, <1>3, <1>4, <2>1, <2>2 DEF TypeOK, Results
<1>. QED BY <1>3, <1>5, <1>6 DEF ControlInv

(* A flight ends: its process and all who wait for it go on with its result. *)
LEMMA ReturnEffect ==
  ASSUME ControlInv, NEW p \in Procs, Return(p)
  PROVE  /\ \A r \in {p} \cup Waiting(KeyOf(p)) :
              /\ r \in Procs /\ KeyOf(r) = KeyOf(p) /\ pc[r] \in {"return", "wait"}
              /\ r[2] = "query" => pc'[r] = "served"
              /\ r[2] = "refresh" => pc'[r] = "finish"
              /\ got'[r] = got[p]
         /\ \A r \in Procs \ ({p} \cup Waiting(KeyOf(p))) : pc'[r] = pc[r] /\ got'[r] = got[r]
         /\ pc[p] = "return" /\ flight' = [flight EXCEPT ![KeyOf(p)] = None]
         /\ pc' \in [Procs -> QueryPCs \cup RefresherPCs]
         /\ got' \in [Procs -> {None} \cup Results]
         /\ UNCHANGED <<key, mode, onDisk, memory, files, refreshing, calls, now, clears, newest, since>>
<1>. DEFINE all == {p} \cup Waiting(KeyOf(p))
<1>1. /\ pc[p] = "return" /\ flight' = [flight EXCEPT ![KeyOf(p)] = None]
      /\ pc' = [x \in Procs |-> IF x \in all THEN After(x) ELSE pc[x]]
      /\ got' = [x \in Procs |-> IF x \in all THEN got[p] ELSE got[x]]
      /\ UNCHANGED <<key, mode, onDisk, memory, files, refreshing, calls, now, clears, newest, since>>
  BY DEF Return, qvars, gvars
<1>2. pc \in [Procs -> QueryPCs \cup RefresherPCs] /\ got \in [Procs -> {None} \cup Results]
  BY DEF ControlInv, TypeOK, Results
<1>3. \A r \in all : r \in Procs /\ KeyOf(r) = KeyOf(p) /\ pc[r] \in {"return", "wait"} BY <1>1 DEF Waiting
<1>. HIDE DEF all
<1>4. pc' \in [Procs -> QueryPCs \cup RefresherPCs]
  <2>1. \A x \in Procs : After(x) \in QueryPCs \cup RefresherPCs BY DEF After, QueryPCs, RefresherPCs
  <2>2. \A x \in Procs : (IF x \in all THEN After(x) ELSE pc[x]) \in QueryPCs \cup RefresherPCs BY <1>2, <2>1
  <2>. QED BY <1>1, <2>2
<1>5. got' \in [Procs -> {None} \cup Results] BY <1>1, <1>2
<1>6. \A r \in all : /\ r[2] = "query" => pc'[r] = "served"
                     /\ r[2] = "refresh" => pc'[r] = "finish"
                     /\ got'[r] = got[p]
  BY <1>1, <1>3 DEF After
<1>7. \A r \in Procs \ all : pc'[r] = pc[r] /\ got'[r] = got[r] BY <1>1
<1>. QED BY <1>1, <1>3, <1>4, <1>5, <1>6, <1>7 DEF all

LEMMA ReturnControl == ASSUME ControlInv, NEW p \in Procs, Return(p) PROVE ControlInv'
<1>. DEFINE all == {p} \cup Waiting(KeyOf(p))
<1>1. /\ \A r \in all :
           /\ r \in Procs /\ KeyOf(r) = KeyOf(p) /\ pc[r] \in {"return", "wait"}
           /\ r[2] = "query" => pc'[r] = "served"
           /\ r[2] = "refresh" => pc'[r] = "finish"
      /\ \A r \in Procs \ all : pc'[r] = pc[r] /\ got'[r] = got[r]
      /\ pc[p] = "return" /\ flight' = [flight EXCEPT ![KeyOf(p)] = None]
      /\ pc' \in [Procs -> QueryPCs \cup RefresherPCs]
      /\ got' \in [Procs -> {None} \cup Results]
      /\ UNCHANGED <<key, mode, onDisk, memory, files, refreshing, calls, now, clears, newest, since>>
  BY ReturnEffect
<1>2. TypeOK /\ calls \in Nat /\ now \in Nat /\ calls >= calls /\ now >= now /\ KeyOf(p) \in Keys
  BY BoundFacts, KeyFacts DEF ControlInv, TypeOK
<1>3. p \in all /\ \A r \in Procs : KeyOf(r) = KeyOf(p) /\ pc[r] = "wait" => r \in all BY DEF Waiting
<1>. HIDE DEF all
<1>4. Places'
  <2>. SUFFICES ASSUME NEW u \in Queries
                PROVE  /\ pc'[Query(u)] \in QueryPCs
                       /\ pc'[Refresher(u)] \in RefresherPCs
                       /\ pc'[Refresher(u)] # "off" => pc'[Query(u)] = "done"
    BY DEF Places, Query, Refresher
  <2>1. /\ pc[Query(u)] \in QueryPCs
        /\ pc[Refresher(u)] \in RefresherPCs
        /\ pc[Refresher(u)] # "off" => pc[Query(u)] = "done"
    BY DEF ControlInv, Places
  <2>2. Query(u) \in Procs /\ Refresher(u) \in Procs BY ProcFacts
  <2>3. Query(u)[2] = "query" /\ Refresher(u)[2] = "refresh" BY DEF Query, Refresher
  <2>. QED BY <1>1, <2>1, <2>2, <2>3 DEF QueryPCs, RefresherPCs
<1>5. FlightHeld'
  <2>. SUFFICES ASSUME NEW r \in Procs
                PROVE  /\ pc'[r] \in FlightPCs <=> flight'[KeyOf(r)] = r
                       /\ pc'[r] = "wait" => flight'[KeyOf(r)] # None
    BY <1>1 DEF FlightHeld, InFlight, KeyOf
  <2>1. /\ pc[r] \in FlightPCs <=> flight[KeyOf(r)] = r
        /\ pc[r] = "wait" => flight[KeyOf(r)] # None
        /\ flight[KeyOf(p)] = p
    BY <1>1 DEF ControlInv, FlightHeld, InFlight, FlightPCs
  <2>2. flight \in [Keys -> Procs \cup {None}] /\ KeyOf(r) \in Keys /\ r # None
    BY <1>2, KeyFacts, NoneAssumption DEF TypeOK
  <2>3. r[2] = "query" \/ r[2] = "refresh" BY ProcKinds
  <2>4. CASE r \in all BY <1>1, <1>2, <2>2, <2>3, <2>4 DEF FlightPCs
  <2>5. CASE r \notin all BY <1>1, <1>2, <1>3, <2>1, <2>2, <2>5
  <2>. QED BY <2>4, <2>5
<1>6. Holdings'
  <2>. SUFFICES ASSUME NEW r \in Procs
                PROVE  /\ pc'[r] \in EmptyPCs => got'[r] = None
                       /\ pc'[r] \in {"fill", "fill2", "putMemory", "putDisk"} => got'[r] \in Results
    BY <1>1 DEF Holdings, Filling, Storing, EmptyPCs, Results
  <2>1. /\ pc[r] \in EmptyPCs => got[r] = None
        /\ pc[r] \in {"fill", "fill2", "putMemory", "putDisk"} => got[r] \in Results
    BY DEF ControlInv, Holdings, Filling, Storing
  <2>2. r[2] = "query" \/ r[2] = "refresh" BY ProcKinds
  <2>. QED BY <1>1, <2>1, <2>2 DEF EmptyPCs
<1>7. TypeOK'
  <2>1. StoreOK(memory, MaxEntries)' /\ StoreOK(files, MaxFiles)' BY <1>1, <1>2, StoreLater
  <2>2. flight' \in [Keys -> Procs \cup {None}] BY <1>1, <1>2 DEF TypeOK
  <2>. QED BY <1>1, <1>2, <2>1, <2>2 DEF TypeOK, Results
<1>. QED BY <1>4, <1>5, <1>6, <1>7 DEF ControlInv

(* What the clears leave of a store. *)
LEMMA ClearEffect ==
  ASSUME NEW s, NEW max \in Nat, StoreOK(s, max), NEW t,
         t = <<>> \/ (\E k \in Keys : t = Without(s, k)) \/ t = Unexpired(s)
  PROVE  StoreOK(t, max) /\ Entries(t) \subseteq Entries(s)
<1>1. s \in Seq(Entry) /\ OneEach(s) /\ Len(s) =< max /\ Len(s) \in Nat BY StoreFacts
<1>2. CASE t = <<>> BY <1>2 DEF StoreOK, Entries
<1>3. CASE t # <<>>
  <2>1. t \in Seq(Entry) /\ OneEach(t) /\ Len(t) =< Len(s) /\ Entries(t) \subseteq Entries(s)
    BY <1>1, <1>3, WithoutFacts, UnexpiredFacts
  <2>2. Len(t) =< max BY <1>1, <2>1
  <2>. QED BY <2>1, <2>2 DEF StoreOK, Entry, OneEach
<1>. QED BY <1>2, <1>3

LEMMA ClearMemoryEffect ==
  ASSUME TypeOK, ClearMemory
  PROVE  /\ StoreOK(memory, MaxEntries)' /\ Entries(memory') \subseteq Entries(memory)
         /\ refreshing' \subseteq refreshing
         /\ clears' = clears + 1 /\ clears' \in 0..MaxClears
         /\ UNCHANGED <<key, mode, onDisk, pc, got, files, flight, calls, now, newest, since>>
<1>1. /\ clears' = clears + 1 /\ clears < MaxClears
      /\ UNCHANGED <<key, mode, onDisk, pc, got, files, flight, calls, now, newest, since>>
      /\ memory' = <<>> \/ (\E k \in Keys : memory' = Without(memory, k)) \/ memory' = Unexpired(memory)
      /\ refreshing' \subseteq refreshing
  BY DEF ClearMemory, qvars, gvars
<1>2. StoreOK(memory', MaxEntries) /\ Entries(memory') \subseteq Entries(memory)
  BY <1>1, ClearEffect, BoundFacts DEF TypeOK
<1>3. clears' \in 0..MaxClears BY <1>1, BoundFacts DEF TypeOK
<1>. QED BY <1>1, <1>2, <1>3 DEF StoreOK

LEMMA ClearDiskEffect ==
  ASSUME TypeOK, ClearDisk
  PROVE  /\ StoreOK(files, MaxFiles)' /\ Entries(files') \subseteq Entries(files)
         /\ clears' = clears + 1 /\ clears' \in 0..MaxClears /\ onDisk
         /\ UNCHANGED <<key, mode, onDisk, pc, got, memory, refreshing, flight, calls, now, newest, since>>
<1>1. /\ clears' = clears + 1 /\ clears < MaxClears /\ onDisk
      /\ UNCHANGED <<key, mode, onDisk, pc, got, memory, refreshing, flight, calls, now, newest, since>>
      /\ files' = <<>> \/ (\E k \in Keys : files' = Without(files, k)) \/ files' = Unexpired(files)
  BY DEF ClearDisk, qvars, gvars
<1>2. StoreOK(files', MaxFiles) /\ Entries(files') \subseteq Entries(files)
  BY <1>1, ClearEffect, BoundFacts DEF TypeOK
<1>3. clears' \in 0..MaxClears BY <1>1, BoundFacts DEF TypeOK
<1>. QED BY <1>1, <1>2, <1>3 DEF StoreOK

(* Steps of the clock and of the clears leave control as it is. *)
LEMMA StillControl ==
  ASSUME ControlInv, TypeOK', now' \in Nat, now' >= now, UNCHANGED <<key, pc, got, flight, calls>>
  PROVE  ControlInv'
<1>1. Places' /\ FlightHeld' BY DEF ControlInv, Places, FlightHeld, InFlight, KeyOf, Query, Refresher
<1>2. calls \in Nat /\ now \in Nat BY BoundFacts DEF ControlInv, TypeOK
<1>3. Results \subseteq Results' BY <1>2 DEF Results
<1>4. Holdings' BY <1>3 DEF ControlInv, Holdings, Filling, Storing, EmptyPCs
<1>. QED BY <1>1, <1>4 DEF ControlInv

LEMMA ClearControl == ASSUME ControlInv, ClearMemory \/ ClearDisk PROVE ControlInv'
<1>1. TypeOK /\ calls \in Nat /\ now \in Nat /\ calls >= calls /\ now >= now
  BY BoundFacts DEF ControlInv, TypeOK
<1>2. CASE ClearMemory
  <2>1. StoreOK(files, MaxFiles)' BY <1>1, <1>2, ClearMemoryEffect, StoreLater
  <2>2. TypeOK' BY <1>1, <1>2, <2>1, ClearMemoryEffect DEF TypeOK
  <2>. QED BY <1>1, <1>2, <2>2, ClearMemoryEffect, StillControl
<1>3. CASE ClearDisk
  <2>1. StoreOK(memory, MaxEntries)' BY <1>1, <1>3, ClearDiskEffect, StoreLater
  <2>2. TypeOK' BY <1>1, <1>3, <2>1, ClearDiskEffect DEF TypeOK
  <2>. QED BY <1>1, <1>3, <2>2, ClearDiskEffect, StillControl
<1>. QED BY <1>2, <1>3

LEMMA TickControl == ASSUME ControlInv, Tick PROVE ControlInv'
<1>1. /\ TypeOK /\ calls \in Nat /\ now \in Nat /\ now' = now + 1 /\ now < Horizon
      /\ UNCHANGED <<key, mode, onDisk, pc, got, memory, files, refreshing, flight, calls, clears, newest, since>>
  BY BoundFacts DEF ControlInv, TypeOK, Tick, qvars, gvars
<1>2. now' \in Nat /\ now' >= now /\ now' \in 0..Horizon /\ calls >= calls BY <1>1, BoundFacts
<1>3. StoreOK(memory, MaxEntries)' /\ StoreOK(files, MaxFiles)' BY <1>1, <1>2, StoreLater
<1>4. got' \in [Procs -> {None} \cup Results']
  <2>1. Results \subseteq Results' BY <1>1, <1>2 DEF Results
  <2>2. got \in [Procs -> {None} \cup Results] BY <1>1 DEF TypeOK, Results
  <2>. QED BY <1>1, <2>1, <2>2
<1>5. TypeOK' BY <1>1, <1>2, <1>3, <1>4 DEF TypeOK, Results
<1>. QED BY <1>1, <1>2, <1>5, StillControl

LEMMA InitControl == Init => ControlInv
<1>. SUFFICES ASSUME Init PROVE ControlInv OBVIOUS
<1>1. \A q \in Queries : pc[Query(q)] = "start" /\ pc[Refresher(q)] = "off"
  BY ProcFacts DEF Init, Query, Refresher
<1>2. \A p \in Procs : pc[p] \in {"start", "off"} /\ got[p] = None BY DEF Init
<1>3. TypeOK
  <2>1. \A max \in Nat : StoreOK(<<>>, max) BY DEF StoreOK
  <2>2. StoreOK(memory, MaxEntries) BY <2>1, BoundFacts DEF Init
  <2>3. StoreOK(files, MaxFiles)
    <3>1. ASSUME MaxFiles > 0, NEW k \in Keys, files = <<[key |-> k, ver |-> 0, created |-> 0]>>
          PROVE  StoreOK(files, MaxFiles)
      <4>1. [key |-> k, ver |-> 0, created |-> 0] \in [key : Keys, ver : 0..calls, created : 0..now]
        BY DEF Init
      <4>2. /\ files \in Seq([key : Keys, ver : 0..calls, created : 0..now])
            /\ Len(files) = 1 /\ \A i \in 1..Len(files) : i = 1
        BY <3>1, <4>1
      <4>. QED BY <3>1, <4>2, BoundFacts DEF StoreOK
    <3>. QED BY <2>1, <3>1, BoundFacts DEF Init
  <2>4. calls = 0 /\ now = 0 /\ clears = 0 /\ {0} \subseteq 0..calls /\ {0} \subseteq 0..Horizon /\ {0} \subseteq 0..MaxClears
    BY BoundFacts DEF Init
  <2>. QED BY <2>2, <2>3, <2>4 DEF Init, TypeOK, QueryPCs, RefresherPCs
<1>4. Places BY <1>1 DEF Places, QueryPCs, RefresherPCs
<1>5. Holdings BY <1>2 DEF Holdings, Filling, Storing
<1>6. FlightHeld
  <2>. SUFFICES ASSUME NEW p \in Procs PROVE flight[KeyOf(p)] = None /\ p # None
    BY <1>2 DEF FlightHeld, InFlight, FlightPCs
  <2>. QED BY <1>3, KeyFacts, NoneAssumption DEF Init
<1>. QED BY <1>3, <1>4, <1>5, <1>6 DEF ControlInv

LEMMA NextControl == ASSUME ControlInv, [Next]_vars PROVE ControlInv'
<1>1. ASSUME NEW q \in Queries, Begin(q) \/ Finish(Refresher(q)) PROVE ControlInv'
  BY <1>1, BeginControl, FinishControl
<1>2. ASSUME NEW q \in Queries, QueryStep(q) PROVE ControlInv'
  <2>1. Query(q) \in Procs /\ Query(q)[2] = "query" BY ProcFacts DEF Query
  <2>. QED BY <1>2, <2>1, LookupMemoryControl, LookupDiskControl, FillMemoryControl, ServeControl DEF QueryStep
<1>3. ASSUME NEW p \in Procs, FlightStep(p) PROVE ControlInv'
  BY <1>3, DoControl, FetchControl, PutMemoryControl, PutDiskControl, ReturnControl DEF FlightStep
<1>4. CASE ClearMemory \/ ClearDisk \/ Tick BY <1>4, ClearControl, TickControl
<1>5. CASE UNCHANGED vars
  <2>1. TypeOK' BY <1>5 DEF ControlInv, TypeOK, StoreOK, vars, qvars, gvars
  <2>2. now \in Nat /\ now >= now BY BoundFacts DEF ControlInv, TypeOK
  <2>. QED BY <1>5, <2>1, <2>2, StillControl DEF vars, qvars
<1>. QED BY <1>1, <1>2, <1>3, <1>4, <1>5 DEF Next, Terminated

-----------------------------------------------------------------------------
(* Refreshes: the marks and the goroutines behind them. *)
Refreshing(q) == pc[Refresher(q)] # "off"

LEMMA RefreshStays ==
  ASSUME RefreshInv, UNCHANGED <<key, refreshing, clears>>, \A q \in Queries : Refreshing(q)' <=> Refreshing(q)
  PROVE  RefreshInv'
<1>1. MarkHasRefresher' BY DEF RefreshInv, MarkHasRefresher, Refreshing, Refresher
<1>2. ASSUME NEW k \in Keys PROVE Refreshers(k)' = Refreshers(k) /\ Marks(k)' = Marks(k)
  BY DEF Refreshers, Marks, Refreshing
<1>3. Marked' BY <1>2 DEF RefreshInv, Marked
<1>. QED BY <1>1, <1>3 DEF RefreshInv

LEMMA MoveRefresh ==
  ASSUME ControlInv, RefreshInv, NEW p \in Procs, NEW from, NEW to, Goto(p, from, to),
         from # "off", to # "off", UNCHANGED <<key, refreshing, clears>>
  PROVE  RefreshInv'
<1>1. pc' = [pc EXCEPT ![p] = to] /\ pc[p] = from /\ pc \in [Procs -> QueryPCs \cup RefresherPCs]
  BY DEF Goto, ControlInv, TypeOK
<1>2. \A q \in Queries : Refreshing(q)' <=> Refreshing(q) BY <1>1, ProcFacts DEF Refreshing, Refresher
<1>. QED BY <1>2, RefreshStays

LEMMA ServeRefresh == ASSUME ControlInv, RefreshInv, NEW q \in Queries, Serve(q) PROVE RefreshInv'
<1>1. /\ UNCHANGED <<key, clears>>
      /\ \/ /\ key[q] \notin refreshing /\ refreshing' = refreshing \cup {key[q]}
            /\ pc' = [pc EXCEPT ![Query(q)] = "done", ![Refresher(q)] = "do"]
         \/ pc' = [pc EXCEPT ![Query(q)] = "done"] /\ refreshing' = refreshing
  BY DEF Serve, qvars, Goto
<1>2. Query(q) \in Procs /\ Refresher(q) \in Procs /\ pc \in [Procs -> QueryPCs \cup RefresherPCs]
  BY ProcFacts DEF ControlInv, TypeOK
<1>3. CASE refreshing' = refreshing /\ pc' = [pc EXCEPT ![Query(q)] = "done"]
  <2>1. \A u \in Queries : Refreshing(u)' <=> Refreshing(u) BY <1>2, <1>3, ProcFacts DEF Refreshing, Refresher
  <2>. QED BY <1>1, <1>3, <2>1, RefreshStays
<1>4. CASE /\ key[q] \notin refreshing /\ refreshing' = refreshing \cup {key[q]}
           /\ pc' = [pc EXCEPT ![Query(q)] = "done", ![Refresher(q)] = "do"]
  <2>1. \A u \in Queries : Refreshing(u)' <=> Refreshing(u) \/ u = q
    BY <1>2, <1>4, ProcFacts DEF Refreshing, Refresher
  <2>2. MarkHasRefresher' BY <1>1, <1>4, <2>1 DEF RefreshInv, MarkHasRefresher, Refreshing, Refresher
  <2>3. clears \in Nat BY BoundFacts DEF ControlInv, TypeOK
  <2>4. ASSUME NEW k \in Keys
        PROVE  IsFiniteSet(Refreshers(k)') /\ Cardinality(Refreshers(k)') =< clears + Marks(k)'
    <3>1. IsFiniteSet(Refreshers(k)) /\ Cardinality(Refreshers(k)) =< clears + Marks(k) BY DEF RefreshInv, Marked
    <3>2. CASE k = key[q]
      <4>1. Refreshers(k)' = Refreshers(k) \cup {q} BY <1>1, <2>1, <3>2 DEF Refreshers, Refreshing
      <4>2. Marks(k) = 0 /\ Marks(k)' = 1 BY <1>4, <3>2 DEF Marks
      <4>3. q \notin Refreshers(k) \/ Refreshers(k) \cup {q} = Refreshers(k) OBVIOUS
      <4>4. /\ IsFiniteSet(Refreshers(k) \cup {q})
            /\ Cardinality(Refreshers(k) \cup {q}) \in {Cardinality(Refreshers(k)), Cardinality(Refreshers(k)) + 1}
        BY <3>1, <4>3, FS_AddElement
      <4>5. Cardinality(Refreshers(k)) \in Nat BY <3>1, FS_CardinalityType
      <4>. QED BY <2>3, <3>1, <4>1, <4>2, <4>4, <4>5
    <3>3. CASE k # key[q]
      <4>1. Refreshers(k)' = Refreshers(k) BY <1>1, <2>1, <3>3 DEF Refreshers, Refreshing
      <4>2. Marks(k)' = Marks(k) BY <1>4, <3>3 DEF Marks
      <4>. QED BY <3>1, <4>1, <4>2
    <3>. QED BY <3>2, <3>3
  <2>5. Marked' BY <1>1, <2>4 DEF Marked
  <2>. QED BY <2>2, <2>5 DEF RefreshInv
<1>. QED BY <1>1, <1>3, <1>4

LEMMA FinishRefresh == ASSUME ControlInv, RefreshInv, NEW q \in Queries, Finish(Refresher(q)) PROVE RefreshInv'
<1>1. /\ UNCHANGED <<key, clears>> /\ refreshing' = refreshing \ {key[q]}
      /\ pc' = [pc EXCEPT ![Refresher(q)] = "off"] /\ pc[Refresher(q)] = "finish"
  BY ProcKeys DEF Finish, qvars, Goto
<1>2. Refresher(q) \in Procs /\ pc \in [Procs -> QueryPCs \cup RefresherPCs] BY ProcFacts DEF ControlInv, TypeOK
<1>3. \A u \in Queries : Refreshing(u)' <=> Refreshing(u) /\ u # q
  BY <1>1, <1>2, ProcFacts DEF Refreshing, Refresher
<1>4. Refreshing(q) BY <1>1 DEF Refreshing
<1>5. MarkHasRefresher' BY <1>1, <1>3 DEF RefreshInv, MarkHasRefresher, Refreshing, Refresher
<1>6. clears \in Nat BY BoundFacts DEF ControlInv, TypeOK
<1>7. ASSUME NEW k \in Keys
      PROVE  IsFiniteSet(Refreshers(k)') /\ Cardinality(Refreshers(k)') =< clears + Marks(k)'
  <2>1. IsFiniteSet(Refreshers(k)) /\ Cardinality(Refreshers(k)) =< clears + Marks(k) BY DEF RefreshInv, Marked
  <2>2. CASE k = key[q]
    <3>1. Refreshers(k)' = Refreshers(k) \ {q} /\ q \in Refreshers(k)
      BY <1>1, <1>3, <1>4, <2>2 DEF Refreshers, Refreshing
    <3>2. Marks(k) \in {0, 1} /\ Marks(k)' = 0 BY <1>1, <2>2 DEF Marks
    <3>3. IsFiniteSet(Refreshers(k) \ {q}) /\ Cardinality(Refreshers(k) \ {q}) = Cardinality(Refreshers(k)) - 1
      BY <2>1, <3>1, FS_RemoveElement
    <3>4. Cardinality(Refreshers(k)) \in Nat BY <2>1, FS_CardinalityType
    <3>. QED BY <1>6, <2>1, <3>1, <3>2, <3>3, <3>4
  <2>3. CASE k # key[q]
    <3>1. Refreshers(k)' = Refreshers(k) BY <1>1, <1>3, <2>3 DEF Refreshers, Refreshing
    <3>2. Marks(k)' = Marks(k) BY <1>1, <2>3 DEF Marks
    <3>. QED BY <2>1, <3>1, <3>2
  <2>. QED BY <2>2, <2>3
<1>8. Marked' BY <1>1, <1>7 DEF Marked
<1>. QED BY <1>5, <1>8 DEF RefreshInv

(* A clear may take marks away, never a goroutine. *)
LEMMA ClearRefresh == ASSUME ControlInv, RefreshInv, ClearMemory \/ ClearDisk PROVE RefreshInv'
<1>1. TypeOK /\ clears \in Nat BY BoundFacts DEF ControlInv, TypeOK
<1>2. UNCHANGED <<key, pc>> /\ refreshing' \subseteq refreshing /\ clears' = clears + 1
  BY <1>1, ClearMemoryEffect, ClearDiskEffect
<1>3. MarkHasRefresher' BY <1>2 DEF RefreshInv, MarkHasRefresher, Refresher
<1>4. ASSUME NEW k \in Keys
      PROVE  IsFiniteSet(Refreshers(k)') /\ Cardinality(Refreshers(k)') =< clears' + Marks(k)'
  <2>1. IsFiniteSet(Refreshers(k)) /\ Cardinality(Refreshers(k)) =< clears + Marks(k) BY DEF RefreshInv, Marked
  <2>2. Refreshers(k)' = Refreshers(k) BY <1>2 DEF Refreshers, Refresher
  <2>3. Marks(k) \in {0, 1} /\ Marks(k)' \in {0, 1} BY DEF Marks
  <2>4. Cardinality(Refreshers(k)) \in Nat BY <2>1, FS_CardinalityType
  <2>. QED BY <1>1, <1>2, <2>1, <2>2, <2>3, <2>4
<1>5. Marked' BY <1>4 DEF Marked
<1>. QED BY <1>3, <1>5 DEF RefreshInv

LEMMA NextRefresh == ASSUME ControlInv, RefreshInv, [Next]_vars PROVE RefreshInv'
<1>1. ASSUME NEW q \in Queries, Begin(q) PROVE RefreshInv'
  <2>1. \E to \in {"memory", "do"} : Goto(Query(q), "start", to) BY <1>1 DEF Begin
  <2>. QED BY <1>1, <2>1, MoveRefresh, ProcFacts DEF Begin, qvars
<1>2. ASSUME NEW q \in Queries, QueryStep(q) PROVE RefreshInv'
  <2>. DEFINE p == Query(q)
  <2>1. p \in Procs /\ TypeOK BY ProcFacts DEF ControlInv
  <2>. HIDE DEF p
  <2>2. ASSUME NEW from \in {"memory", "memory2"}, NEW hit \in {"served", "return"}, NEW miss \in {"disk", "disk2"},
               LookupMemory(p, from, hit, miss)
        PROVE  RefreshInv'
    <3>1. UNCHANGED <<key, refreshing, clears>> BY <2>2 DEF LookupMemory, qvars
    <3>. QED BY <2>1, <2>2, <3>1, LookupMemoryEffect, MoveRefresh
  <2>3. ASSUME NEW from \in {"disk", "disk2"}, NEW hit \in {"fill", "fill2"}, NEW miss \in {"do", "fetch"},
               LookupDisk(p, from, hit, miss)
        PROVE  RefreshInv'
    <3>1. UNCHANGED <<key, refreshing, clears>> BY <2>3 DEF LookupDisk, qvars
    <3>. QED BY <2>1, <2>3, <3>1, LookupDiskEffect, MoveRefresh
  <2>4. ASSUME NEW from \in {"fill", "fill2"}, NEW to \in {"served", "return"}, FillMemory(p, from, to)
        PROVE  RefreshInv'
    BY <2>1, <2>4, MoveRefresh DEF FillMemory, qvars
  <2>. QED BY <1>2, <2>2, <2>3, <2>4, ServeRefresh DEF QueryStep, p
<1>3. ASSUME NEW p \in Procs, Do(p) \/ Fetch(p) \/ PutMemory(p) \/ PutDisk(p) PROVE RefreshInv'
  <2>1. UNCHANGED <<key, refreshing, clears>> BY <1>3 DEF Do, Fetch, PutMemory, PutDisk, qvars
  <2>2. \E from, to \in {"do", "memory2", "fetch", "wait", "putMemory", "putDisk", "return"} : Goto(p, from, to)
    BY <1>3 DEF Do, Fetch, PutMemory, PutDisk
  <2>. QED BY <2>1, <2>2, MoveRefresh
<1>4. ASSUME NEW p \in Procs, Return(p) PROVE RefreshInv'
  <2>1. /\ UNCHANGED <<key, refreshing, clears>>
        /\ \A r \in Procs : pc'[r] = "off" <=> pc[r] = "off"
    <3>1. \A r \in Procs : r[2] \in {"query", "refresh"} BY ProcKinds
    <3>. QED BY <1>4, <3>1, ReturnEffect
  <2>2. \A q \in Queries : Refreshing(q)' <=> Refreshing(q) BY <2>1, ProcFacts DEF Refreshing, Refresher
  <2>. QED BY <2>1, <2>2, RefreshStays
<1>5. CASE Tick \/ UNCHANGED vars
  BY <1>5, RefreshStays DEF Tick, vars, qvars, Refreshing, Refresher
<1>. QED BY <1>1, <1>2, <1>3, <1>4, <1>5, FinishRefresh, ClearRefresh DEF Next, FlightStep, Terminated

LEMMA InitRefresh == Init => RefreshInv
<1>. SUFFICES ASSUME Init PROVE RefreshInv OBVIOUS
<1>1. refreshing = {} /\ clears = 0 /\ \A q \in Queries : pc[Refresher(q)] = "off"
  BY ProcFacts DEF Init, Refresher
<1>2. \A k \in Keys : Refreshers(k) = {} /\ Marks(k) = 0 BY <1>1 DEF Refreshers, Marks
<1>. QED BY <1>1, <1>2, FS_EmptySet DEF RefreshInv, MarkHasRefresher, Marked

-----------------------------------------------------------------------------
(* Contents: which results are where. *)

(* A result is not None, and has a number and a time. *)
LEMMA ResultFacts ==
  ASSUME ControlInv
  PROVE  /\ \A x \in Results : x # None /\ x.ver \in Nat /\ x.ver =< calls /\ x.created \in Nat /\ x.created =< now
         /\ \A p \in Procs : got[p] # None => got[p] \in Results
         /\ \A p \in Procs : Filling(p) \/ Storing(p) => got[p] \in Results
         /\ calls \in Nat /\ now \in Nat
<1>1. calls \in Nat /\ now \in Nat BY BoundFacts DEF ControlInv, TypeOK
<1>2. Results \subseteq [ver : Nat, created : Nat, stale : BOOLEAN] BY <1>1 DEF Results
<1>3. \A x \in Results : x # None BY <1>2, NoneAssumption
<1>4. \A x \in Results : x.ver \in Nat /\ x.ver =< calls /\ x.created \in Nat /\ x.created =< now
  BY <1>1 DEF Results
<1>5. got \in [Procs -> {None} \cup Results] BY DEF ControlInv, TypeOK, Results
<1>6. \A p \in Procs : Filling(p) \/ Storing(p) => got[p] \in Results BY DEF ControlInv, Holdings
<1>. QED BY <1>1, <1>3, <1>4, <1>5, <1>6

(* A process goes on; what it adds to a store is what it holds, and what it  *)
(* comes to hold is from a store.                                            *)
LEMMA MoveUnstored ==
  ASSUME ControlInv, Unstored, NEW p \in Procs, NEW from, NEW to, Goto(p, from, to),
         to # "putMemory",
         to = "putDisk" => from = "putMemory" /\ got' = got /\ files' = files,
         to \in {"fill", "fill2"} => \E e \in Entries(files) : got'[p].ver = e.ver,
         \A r \in Procs \ {p} : got'[r] = got[r],
         \/ got'[p] = None
         \/ got'[p] = got[p]
         \/ \E e \in Entries(memory) \cup Entries(files) : got'[p].ver = e.ver,
         \A e \in Entries(memory') : e \in Entries(memory) \/ (got[p] # None /\ e.ver = got[p].ver),
         \A e \in Entries(files') : e \in Entries(files) \/ (Storing(p) /\ got[p] # None /\ e.ver = got[p].ver)
  PROVE  Unstored'
<1>1. pc[p] = from /\ pc'[p] = to /\ \A r \in Procs \ {p} : pc'[r] = pc[r] BY DEF ControlInv, TypeOK, Goto
<1>. SUFFICES ASSUME NEW x \in Procs
              PROVE  /\ pc'[x] = "putMemory" =>
                          /\ \A e \in Entries(memory') \cup Entries(files') : e.ver # got'[x].ver
                          /\ \A r \in Procs \ {x} : got'[r] # None => got'[r].ver # got'[x].ver
                     /\ pc'[x] = "putDisk" =>
                          /\ \A e \in Entries(files') : e.ver # got'[x].ver
                          /\ \A r \in Procs \ {x} :
                               pc'[r] \in {"fill", "fill2", "putMemory", "putDisk"} => got'[r].ver # got'[x].ver
  BY DEF Unstored, Filling, Storing, Entries
<1>2. /\ pc[x] = "putMemory" =>
           /\ \A e \in Entries(memory) \cup Entries(files) : e.ver # got[x].ver
           /\ \A r \in Procs \ {x} : got[r] # None => got[r].ver # got[x].ver
      /\ pc[x] = "putDisk" =>
           /\ \A e \in Entries(files) : e.ver # got[x].ver
           /\ \A r \in Procs \ {x} :
                pc[r] \in {"fill", "fill2", "putMemory", "putDisk"} => got[r].ver # got[x].ver
  BY DEF Unstored, Filling, Storing
<1>3. CASE x # p
  <2>1. pc'[x] = pc[x] /\ got'[x] = got[x] BY <1>1, <1>3
  <2>2. ASSUME pc[x] = "putMemory"
        PROVE  /\ \A e \in Entries(memory') \cup Entries(files') : e.ver # got[x].ver
               /\ \A r \in Procs \ {x} : got'[r] # None => got'[r].ver # got[x].ver
    BY <1>2, <1>3, <2>2
  <2>3. ASSUME pc[x] = "putDisk"
        PROVE  /\ \A e \in Entries(files') : e.ver # got[x].ver
               /\ \A r \in Procs \ {x} :
                    pc'[r] \in {"fill", "fill2", "putMemory", "putDisk"} => got'[r].ver # got[x].ver
    BY <1>1, <1>2, <1>3, <2>3 DEF Storing
  <2>. QED BY <2>1, <2>2, <2>3
<1>4. CASE x = p
  <2>. SUFFICES ASSUME to = "putDisk"
                PROVE  /\ \A e \in Entries(files) : e.ver # got[p].ver
                       /\ \A r \in Procs \ {p} :
                            pc[r] \in {"fill", "fill2", "putMemory", "putDisk"} => got[r].ver # got[p].ver
    BY <1>1, <1>4
  <2>1. \A r \in Procs : pc[r] \in {"fill", "fill2", "putMemory", "putDisk"} => got[r] # None
    BY ResultFacts DEF ControlInv, Holdings, Filling, Storing
  <2>. QED BY <1>1, <1>2, <1>4, <2>1
<1>. QED BY <1>3, <1>4

(* Nothing new is held or stored, and nobody comes to fill or to store. *)
LEMMA UnstoredStays ==
  ASSUME Unstored, got' = got,
         Entries(memory') \subseteq Entries(memory), Entries(files') \subseteq Entries(files),
         \A r \in Procs : pc'[r] \in {"fill", "fill2", "putMemory", "putDisk"} => pc'[r] = pc[r]
  PROVE  Unstored'
<1>. SUFFICES ASSUME NEW x \in Procs
              PROVE  /\ pc'[x] = "putMemory" =>
                          /\ \A e \in Entries(memory') \cup Entries(files') : e.ver # got[x].ver
                          /\ \A r \in Procs \ {x} : got[r] # None => got[r].ver # got[x].ver
                     /\ pc'[x] = "putDisk" =>
                          /\ \A e \in Entries(files') : e.ver # got[x].ver
                          /\ \A r \in Procs \ {x} :
                               pc'[r] \in {"fill", "fill2", "putMemory", "putDisk"} => got[r].ver # got[x].ver
  BY DEF Unstored, Filling, Storing, Entries
<1>1. pc'[x] \in {"putMemory", "putDisk"} => pc'[x] = pc[x] OBVIOUS
<1>. QED BY <1>1 DEF Unstored, Filling, Storing

(* A fetched result has a number that nothing has yet. *)
LEMMA FetchUnstored ==
  ASSUME ControlInv, Unstored, NEW p \in Procs, Goto(p, "fetch", "putMemory"), calls' = calls + 1,
         got' = [got EXCEPT ![p] = [ver |-> calls + 1, created |-> now, stale |-> FALSE]],
         memory' = memory, files' = files
  PROVE  Unstored'
<1>1. pc[p] = "fetch" /\ pc'[p] = "putMemory" /\ \A r \in Procs \ {p} : pc'[r] = pc[r]
  BY DEF ControlInv, TypeOK, Goto
<1>2. got'[p].ver = calls + 1 /\ \A r \in Procs \ {p} : got'[r] = got[r]
  BY DEF ControlInv, TypeOK
<1>3. \A r \in Procs : got[r] # None => got[r].ver # calls + 1 BY ResultFacts
<1>4. \A e \in Entries(memory) \cup Entries(files) : e.ver # calls + 1
  <2>1. \A e \in Entries(memory) \cup Entries(files) : e \in Entry BY StoreFacts DEF ControlInv, TypeOK
  <2>2. \A e \in Entry : e.ver # calls + 1 BY ResultFacts DEF Entry
  <2>. QED BY <2>1, <2>2
<1>5. \A r \in Procs : pc[r] \in {"fill", "fill2", "putMemory", "putDisk"} => got[r] # None
  BY ResultFacts DEF Filling, Storing
<1>. SUFFICES ASSUME NEW x \in Procs
              PROVE  /\ pc'[x] = "putMemory" =>
                          /\ \A e \in Entries(memory) \cup Entries(files) : e.ver # got'[x].ver
                          /\ \A r \in Procs \ {x} : got'[r] # None => got'[r].ver # got'[x].ver
                     /\ pc'[x] = "putDisk" =>
                          /\ \A e \in Entries(files) : e.ver # got'[x].ver
                          /\ \A r \in Procs \ {x} :
                               pc'[r] \in {"fill", "fill2", "putMemory", "putDisk"} => got'[r].ver # got'[x].ver
  BY DEF Unstored, Filling, Storing, Entries
<1>6. /\ pc[x] = "putMemory" =>
           /\ \A e \in Entries(memory) \cup Entries(files) : e.ver # got[x].ver
           /\ \A r \in Procs \ {x} : got[r] # None => got[r].ver # got[x].ver
      /\ pc[x] = "putDisk" =>
           /\ \A e \in Entries(files) : e.ver # got[x].ver
           /\ \A r \in Procs \ {x} :
                pc[r] \in {"fill", "fill2", "putMemory", "putDisk"} => got[r].ver # got[x].ver
  BY DEF Unstored, Filling, Storing
<1>7. CASE x = p BY <1>1, <1>2, <1>3, <1>4, <1>7
<1>8. CASE x # p
  <2>1. pc'[x] = pc[x] /\ got'[x] = got[x] BY <1>1, <1>2, <1>8
  <2>2. pc[x] \in {"putMemory", "putDisk"} => got[x] # None BY <1>5
  <2>. QED BY <1>1, <1>2, <1>3, <1>6, <1>8, <2>1, <2>2
<1>. QED BY <1>7, <1>8

(* The result of a flight, which its waiters share, is nobody's to store. *)
LEMMA ReturnUnstored == ASSUME ControlInv, Unstored, NEW p \in Procs, Return(p) PROVE Unstored'
<1>. DEFINE all == {p} \cup Waiting(KeyOf(p))
<1>1. /\ \A r \in all : pc'[r] \in {"served", "finish"} /\ got'[r] = got[p]
      /\ \A r \in Procs \ all : pc'[r] = pc[r] /\ got'[r] = got[r]
      /\ memory' = memory /\ files' = files
  <2>1. \A r \in all : r \in Procs /\ (r[2] = "query" \/ r[2] = "refresh") BY ProcKinds, ReturnEffect
  <2>. QED BY <2>1, ReturnEffect
<1>2. p \in all OBVIOUS
<1>. HIDE DEF all
<1>. SUFFICES ASSUME NEW x \in Procs
              PROVE  /\ pc'[x] = "putMemory" =>
                          /\ \A e \in Entries(memory) \cup Entries(files) : e.ver # got'[x].ver
                          /\ \A r \in Procs \ {x} : got'[r] # None => got'[r].ver # got'[x].ver
                     /\ pc'[x] = "putDisk" =>
                          /\ \A e \in Entries(files) : e.ver # got'[x].ver
                          /\ \A r \in Procs \ {x} :
                               pc'[r] \in {"fill", "fill2", "putMemory", "putDisk"} => got'[r].ver # got'[x].ver
  BY <1>1 DEF Unstored, Filling, Storing, Entries
<1>3. /\ pc[x] = "putMemory" =>
           /\ \A e \in Entries(memory) \cup Entries(files) : e.ver # got[x].ver
           /\ \A r \in Procs \ {x} : got[r] # None => got[r].ver # got[x].ver
      /\ pc[x] = "putDisk" =>
           /\ \A e \in Entries(files) : e.ver # got[x].ver
           /\ \A r \in Procs \ {x} :
                pc[r] \in {"fill", "fill2", "putMemory", "putDisk"} => got[r].ver # got[x].ver
  BY DEF Unstored, Filling, Storing
<1>4. CASE x \in all BY <1>1, <1>4
<1>5. CASE x \notin all BY <1>1, <1>2, <1>3, <1>5
<1>. QED BY <1>4, <1>5

(* Files may go; what was read from one is as old as any that stays. *)
LEMMA FillsAgeStays ==
  ASSUME FillsAge, UNCHANGED key, Entries(files') \subseteq Entries(files),
         \A r \in Procs : pc'[r] \in {"fill", "fill2"} => pc'[r] = pc[r] /\ got'[r] = got[r]
  PROVE  FillsAge'
<1>. SUFFICES ASSUME NEW r \in Procs, pc'[r] \in {"fill", "fill2"}, NEW e \in Entries(files'),
                     e.key = KeyOf(r), e.ver = got'[r].ver
              PROVE  got'[r].created =< e.created
  BY DEF FillsAge, Filling, KeyOf, Entries
<1>. QED BY DEF FillsAge, Filling

LEMMA CopiesAgeStays ==
  ASSUME CopiesAge, Entries(memory') \subseteq Entries(memory), Entries(files') \subseteq Entries(files)
  PROVE  CopiesAge'
<1>. SUFFICES ASSUME NEW m \in Entries(memory'), NEW f \in Entries(files'), m.key = f.key, m.ver = f.ver
              PROVE  m.created =< f.created
  BY DEF CopiesAge, Entries
<1>. QED BY DEF CopiesAge

(* Without files: a process goes on, with what memory has if anything. *)
LEMMA NewestMove ==
  ASSUME ControlInv, MemoryIsNewest, NEW p \in Procs, NEW from, NEW to, Goto(p, from, to),
         UNCHANGED <<key, onDisk, newest, since>>, Entries(memory') \subseteq Entries(memory),
         \A r \in Procs \ {p} : got'[r] = got[r],
         ~onDisk => to \notin {"fill", "fill2", "putMemory", "putDisk"},
         to \in {"return", "served", "done"} /\ ~onDisk /\ got'[p] # None => got'[p].ver = newest[KeyOf(p)]
  PROVE  MemoryIsNewest'
<1>. SUFFICES ASSUME ~onDisk PROVE MemoryIsNewest' BY DEF MemoryIsNewest
<1>1. pc'[p] = to /\ \A r \in Procs \ {p} : pc'[r] = pc[r] BY DEF ControlInv, TypeOK, Goto
<1>2. /\ \A r \in Procs : pc[r] \notin {"fill", "fill2"}
      /\ \A e \in Entries(memory) : e.ver = newest[e.key]
      /\ \A r \in Procs : pc[r] = "putMemory" => got[r].ver >= newest[KeyOf(r)]
      /\ \A r \in Procs : pc[r] \in {"putDisk", "return"} /\ got[r] # None => got[r].ver = newest[KeyOf(r)]
      /\ \A q \in Queries : since[q] =< newest[key[q]]
      /\ \A q \in Queries : pc[Query(q)] \in {"served", "done"} /\ got[Query(q)] # None
                            => got[Query(q)].ver >= since[q]
  BY DEF MemoryIsNewest, Filling
<1>3. \A r \in Procs : pc'[r] \notin {"fill", "fill2"} BY <1>1, <1>2
<1>4. \A e \in Entries(memory') : e.ver = newest[e.key] BY <1>2
<1>5. \A r \in Procs : pc'[r] = "putMemory" => got'[r].ver >= newest[KeyOf(r)] BY <1>1, <1>2
<1>6. \A r \in Procs : pc'[r] \in {"putDisk", "return"} /\ got'[r] # None => got'[r].ver = newest[KeyOf(r)]
  BY <1>1, <1>2
<1>7. ASSUME NEW q \in Queries, pc'[Query(q)] \in {"served", "done"}, got'[Query(q)] # None
      PROVE  got'[Query(q)].ver >= since[q]
  <2>1. Query(q) \in Procs /\ KeyOf(Query(q)) = key[q] BY ProcFacts, ProcKeys
  <2>2. CASE Query(q) = p
    <3>1. got'[Query(q)].ver = newest[key[q]] BY <1>1, <1>7, <2>1, <2>2
    <3>2. since[q] \in Nat /\ newest[key[q]] \in Nat BY ResultFacts DEF ControlInv, TypeOK
    <3>. QED BY <1>2, <3>1, <3>2
  <2>3. CASE Query(q) # p BY <1>1, <1>2, <1>7, <2>1, <2>3
  <2>. QED BY <2>2, <2>3
<1>. QED BY <1>2, <1>3, <1>4, <1>5, <1>6, <1>7 DEF MemoryIsNewest, Filling, KeyOf, Query, Entries

-----------------------------------------------------------------------------
(* Contents, action by action. *)
LEMMA BeginContent == ASSUME ControlInv, ContentInv, NEW q \in Queries, Begin(q) PROVE ContentInv'
<1>1. /\ UNCHANGED <<key, onDisk, got, memory, files, newest>>
      /\ since' = [since EXCEPT ![q] = newest[key[q]]]
      /\ \E to \in {"memory", "do"} : Goto(Query(q), "start", to)
  BY DEF Begin, qvars
<1>2. PICK to \in {"memory", "do"} : Goto(Query(q), "start", to) BY <1>1
<1>3. pc'[Query(q)] = to /\ \A r \in Procs \ {Query(q)} : pc'[r] = pc[r]
  BY <1>2, ProcFacts DEF ControlInv, TypeOK, Goto
<1>4. Unstored' /\ FillsAge' /\ CopiesAge'
  BY <1>1, <1>3, UnstoredStays, FillsAgeStays, CopiesAgeStays DEF ContentInv
<1>5. MemoryIsNewest'
  <2>. SUFFICES ASSUME ~onDisk PROVE MemoryIsNewest' BY <1>1 DEF MemoryIsNewest
  <2>1. /\ \A r \in Procs : pc[r] \notin {"fill", "fill2"}
        /\ \A e \in Entries(memory) : e.ver = newest[e.key]
        /\ \A r \in Procs : pc[r] = "putMemory" => got[r].ver >= newest[KeyOf(r)]
        /\ \A r \in Procs : pc[r] \in {"putDisk", "return"} /\ got[r] # None => got[r].ver = newest[KeyOf(r)]
        /\ \A u \in Queries : since[u] =< newest[key[u]]
        /\ \A u \in Queries : pc[Query(u)] \in {"served", "done"} /\ got[Query(u)] # None
                              => got[Query(u)].ver >= since[u]
    BY DEF ContentInv, MemoryIsNewest, Filling
  <2>2. /\ \A r \in Procs : pc'[r] \notin {"fill", "fill2"}
        /\ \A r \in Procs : pc'[r] = "putMemory" => got[r].ver >= newest[KeyOf(r)]
        /\ \A r \in Procs : pc'[r] \in {"putDisk", "return"} /\ got[r] # None => got[r].ver = newest[KeyOf(r)]
    BY <1>3, <2>1
  <2>3. \A u \in Queries : since'[u] =< newest[key[u]]
    <3>1. newest[key[q]] \in Nat /\ since \in [Queries -> 0..calls] BY ResultFacts DEF ControlInv, TypeOK
    <3>. QED BY <1>1, <2>1, <3>1
  <2>4. ASSUME NEW u \in Queries, pc'[Query(u)] \in {"served", "done"}, got[Query(u)] # None
        PROVE  got[Query(u)].ver >= since'[u]
    <3>1. u # q BY <1>3, <2>4
    <3>2. Query(u) \in Procs \ {Query(q)} BY <3>1, ProcFacts
    <3>3. since'[u] = since[u] BY <1>1, <3>1 DEF ControlInv, TypeOK
    <3>. QED BY <1>3, <2>1, <2>4, <3>2, <3>3
  <2>. QED BY <1>1, <2>1, <2>2, <2>3, <2>4 DEF MemoryIsNewest, Filling, KeyOf, Query, Entries
<1>. QED BY <1>4, <1>5 DEF ContentInv

LEMMA LookupMemoryContent ==
  ASSUME ControlInv, ContentInv, NEW p \in Procs, NEW from, NEW hit \in {"served", "return"}, NEW miss \in {"disk", "disk2"},
         LookupMemory(p, from, hit, miss)
  PROVE  ContentInv'
<1>1. UNCHANGED <<key, onDisk, files, newest, since>> /\ Entries(memory') \subseteq Entries(memory)
  BY LookupMemoryEffect DEF ControlInv, LookupMemory, qvars, gvars
<1>2. PICK to \in {hit, miss} :
        /\ Goto(p, from, to)
        /\ \/ to = hit /\ \E e \in Entries(memory) : e.key = KeyOf(p) /\ got' = [got EXCEPT ![p] = Lookup(e)]
           \/ to = miss /\ got' = got
  BY LookupMemoryEffect DEF ControlInv
<1>3. /\ \A r \in Procs \ {p} : got'[r] = got[r]
      /\ \/ to \in {"served", "return"} /\ \E e \in Entries(memory) : e.key = KeyOf(p) /\ got'[p].ver = e.ver
         \/ to \in {"disk", "disk2"} /\ got' = got
  BY <1>2 DEF ControlInv, TypeOK, Lookup
<1>4. pc'[p] = to /\ \A r \in Procs \ {p} : pc'[r] = pc[r] BY <1>2 DEF ControlInv, TypeOK, Goto
<1>5. Unstored' BY <1>1, <1>2, <1>3, MoveUnstored DEF ContentInv
<1>6. FillsAge' /\ CopiesAge'
  BY <1>1, <1>3, <1>4, FillsAgeStays, CopiesAgeStays DEF ContentInv
<1>7. MemoryIsNewest'
  <2>1. to \in {"return", "served", "done"} /\ ~onDisk /\ got'[p] # None => got'[p].ver = newest[KeyOf(p)]
    BY <1>3 DEF ContentInv, MemoryIsNewest
  <2>. QED BY <1>1, <1>2, <1>3, <2>1, NewestMove DEF ContentInv
<1>. QED BY <1>5, <1>6, <1>7 DEF ContentInv

(* What a file gives is as old as the file: a key has one. *)
LEMMA LookupDiskContent ==
  ASSUME ControlInv, ContentInv, NEW p \in Procs, NEW from, NEW hit \in {"fill", "fill2"}, NEW miss \in {"do", "fetch"},
         LookupDisk(p, from, hit, miss)
  PROVE  ContentInv'
<1>1. UNCHANGED <<key, onDisk, memory, newest, since>> /\ Entries(files') \subseteq Entries(files)
  BY LookupDiskEffect DEF ControlInv, LookupDisk, qvars, gvars
<1>2. PICK to \in {hit, miss} :
        /\ Goto(p, from, to)
        /\ \/ to = hit /\ onDisk /\ \E e \in Entries(files) : e.key = KeyOf(p) /\ got' = [got EXCEPT ![p] = Lookup(e)]
           \/ to = miss /\ got' = got
  BY LookupDiskEffect DEF ControlInv
<1>3. /\ \A r \in Procs \ {p} : got'[r] = got[r]
      /\ \/ /\ to \in {"fill", "fill2"} /\ onDisk
            /\ \E e \in Entries(files) : e.key = KeyOf(p) /\ got'[p].ver = e.ver /\ got'[p].created = e.created
         \/ to \in {"do", "fetch"} /\ got' = got
  BY <1>2 DEF ControlInv, TypeOK, Lookup
<1>4. pc'[p] = to /\ \A r \in Procs \ {p} : pc'[r] = pc[r] BY <1>2 DEF ControlInv, TypeOK, Goto
<1>5. Unstored' BY <1>1, <1>2, <1>3, MoveUnstored DEF ContentInv
<1>6. CopiesAge' BY <1>1, CopiesAgeStays DEF ContentInv
<1>7. FillsAge'
  <2>1. CASE to \in {"do", "fetch"} BY <1>1, <1>3, <1>4, <2>1, FillsAgeStays DEF ContentInv
  <2>2. CASE to \in {"fill", "fill2"}
    <3>. SUFFICES ASSUME NEW r \in Procs, pc'[r] \in {"fill", "fill2"}, NEW e \in Entries(files'),
                         e.key = KeyOf(r), e.ver = got'[r].ver
                  PROVE  got'[r].created =< e.created
      BY <1>1 DEF FillsAge, Filling, KeyOf, Entries
    <3>1. CASE r = p
      <4>1. PICK f \in Entries(files) : f.key = KeyOf(p) /\ got'[p].created = f.created BY <1>3, <2>2
      <4>2. OneEach(files) BY StoreFacts DEF ControlInv, TypeOK
      <4>3. e \in Entries(files) /\ e.key = f.key BY <1>1, <3>1, <4>1
      <4>4. e = f BY <4>2, <4>3 DEF Entries, OneEach
      <4>5. f.created \in Nat
        <5>1. f \in Entry BY StoreFacts DEF ControlInv, TypeOK
        <5>. QED BY <5>1, ResultFacts DEF Entry
      <4>. QED BY <3>1, <4>1, <4>4, <4>5
    <3>2. CASE r # p
      <4>1. pc[r] \in {"fill", "fill2"} /\ got'[r] = got[r] /\ e \in Entries(files) BY <1>1, <1>3, <1>4, <3>2
      <4>. QED BY <4>1 DEF ContentInv, FillsAge, Filling
    <3>. QED BY <3>1, <3>2
  <2>. QED BY <1>3, <2>1, <2>2
<1>8. MemoryIsNewest' BY <1>1, <1>2, <1>3, NewestMove DEF ContentInv
<1>. QED BY <1>5, <1>6, <1>7, <1>8 DEF ContentInv

(* A copy of a file in memory. *)
LEMMA FillMemoryContent ==
  ASSUME ControlInv, ContentInv, NEW p \in Procs, NEW from \in {"fill", "fill2"}, NEW to \in {"served", "return"},
         FillMemory(p, from, to)
  PROVE  ContentInv'
<1>. DEFINE m == [key |-> KeyOf(p), ver |-> got[p].ver, created |-> got[p].created]
<1>1. /\ Goto(p, from, to) /\ UNCHANGED <<key, onDisk, got, files, newest, since>>
      /\ memory' = Put(memory, m, MaxEntries)
  BY DEF FillMemory, qvars, gvars
<1>2. pc[p] = from /\ pc'[p] = to /\ \A r \in Procs \ {p} : pc'[r] = pc[r]
  BY <1>1 DEF ControlInv, TypeOK, Goto
<1>3. got[p] \in Results /\ got[p] # None BY <1>2, ResultFacts DEF Filling
<1>4. \A e \in Entries(memory') : e = m \/ e \in Entries(memory)
  <2>1. m \in Entry BY <1>3, KeyFacts DEF ControlInv, Results, Entry
  <2>. QED BY <1>1, <2>1, PutEffect, BoundFacts DEF ControlInv, TypeOK
<1>5. m.key = KeyOf(p) /\ m.ver = got[p].ver /\ m.created = got[p].created OBVIOUS
<1>. HIDE DEF m
<1>6. Unstored'
  <2>1. \A e \in Entries(memory') : e \in Entries(memory) \/ (got[p] # None /\ e.ver = got[p].ver) BY <1>3, <1>4, <1>5
  <2>2. to \notin {"putMemory", "putDisk", "fill", "fill2"} OBVIOUS
  <2>. QED BY <1>1, <2>1, <2>2, MoveUnstored DEF ContentInv
<1>7. FillsAge' BY <1>1, <1>2, FillsAgeStays DEF ContentInv
<1>8. CopiesAge'
  <2>. SUFFICES ASSUME NEW e \in Entries(memory'), NEW f \in Entries(files), e.key = f.key, e.ver = f.ver
                PROVE  e.created =< f.created
    BY <1>1 DEF CopiesAge, Entries
  <2>1. CASE e = m BY <1>2, <1>5, <2>1 DEF ContentInv, FillsAge, Filling
  <2>2. CASE e \in Entries(memory) BY <2>2 DEF ContentInv, CopiesAge
  <2>. QED BY <1>4, <2>1, <2>2
<1>9. MemoryIsNewest'
  <2>1. onDisk BY <1>2 DEF ContentInv, MemoryIsNewest, Filling
  <2>. QED BY <1>1, <2>1 DEF MemoryIsNewest
<1>. QED BY <1>6, <1>7, <1>8, <1>9 DEF ContentInv

(* Without files, nothing new is held, and the places that matter were there. *)
LEMMA NewestStays ==
  ASSUME MemoryIsNewest, UNCHANGED <<key, onDisk, got, newest, since>>, Entries(memory') \subseteq Entries(memory),
         \A r \in Procs : pc'[r] \in {"fill", "fill2", "putMemory", "putDisk", "return"} => pc'[r] = pc[r],
         \A q \in Queries : pc'[Query(q)] \in {"served", "done"} => pc[Query(q)] \in {"served", "done"}
  PROVE  MemoryIsNewest'
<1>. SUFFICES ASSUME ~onDisk PROVE MemoryIsNewest' BY DEF MemoryIsNewest
<1>1. /\ \A r \in Procs : pc'[r] \notin {"fill", "fill2"}
      /\ \A e \in Entries(memory') : e.ver = newest[e.key]
      /\ \A r \in Procs : pc'[r] = "putMemory" => got[r].ver >= newest[KeyOf(r)]
      /\ \A r \in Procs : pc'[r] \in {"putDisk", "return"} /\ got[r] # None => got[r].ver = newest[KeyOf(r)]
      /\ \A q \in Queries : since[q] =< newest[key[q]]
      /\ \A q \in Queries : pc'[Query(q)] \in {"served", "done"} /\ got[Query(q)] # None
                            => got[Query(q)].ver >= since[q]
  BY DEF MemoryIsNewest, Filling
<1>. QED BY <1>1 DEF MemoryIsNewest, Filling, KeyOf, Query, Entries

LEMMA ServeContent == ASSUME ControlInv, ContentInv, NEW q \in Queries, Serve(q) PROVE ContentInv'
<1>1. /\ UNCHANGED <<key, onDisk, got, memory, files, newest, since>>
      /\ pc[Query(q)] = "served"
      /\ \/ pc' = [pc EXCEPT ![Query(q)] = "done", ![Refresher(q)] = "do"]
         \/ pc' = [pc EXCEPT ![Query(q)] = "done"]
  BY DEF Serve, qvars, gvars, Goto
<1>2. /\ pc'[Query(q)] = "done"
      /\ pc'[Refresher(q)] \in {"do", pc[Refresher(q)]}
      /\ \A r \in Procs \ {Query(q), Refresher(q)} : pc'[r] = pc[r]
  BY <1>1, ProcFacts DEF ControlInv, TypeOK
<1>3. \A r \in Procs : pc'[r] \in {"fill", "fill2", "putMemory", "putDisk", "return"} => pc'[r] = pc[r]
  BY <1>2
<1>4. \A u \in Queries : pc'[Query(u)] \in {"served", "done"} => pc[Query(u)] \in {"served", "done"}
  BY <1>1, <1>2, ProcFacts
<1>5. Unstored' /\ FillsAge' /\ CopiesAge'
  BY <1>1, <1>3, UnstoredStays, FillsAgeStays, CopiesAgeStays DEF ContentInv
<1>. QED BY <1>1, <1>3, <1>4, <1>5, NewestStays DEF ContentInv

LEMMA DoContent == ASSUME ControlInv, ContentInv, NEW p \in Procs, Do(p) PROVE ContentInv'
<1>1. /\ UNCHANGED <<key, onDisk, got, memory, files, newest, since>>
      /\ \E to \in {"memory2", "fetch", "wait"} : Goto(p, "do", to)
  BY DEF Do, qvars, gvars
<1>2. pc[p] = "do" /\ pc'[p] \in {"memory2", "fetch", "wait"} /\ \A r \in Procs \ {p} : pc'[r] = pc[r]
  BY <1>1 DEF ControlInv, TypeOK, Goto
<1>3. Unstored' /\ FillsAge' /\ CopiesAge'
  BY <1>1, <1>2, UnstoredStays, FillsAgeStays, CopiesAgeStays DEF ContentInv
<1>4. \A q \in Queries : pc'[Query(q)] \in {"served", "done"} => pc[Query(q)] \in {"served", "done"}
  BY <1>2, ProcFacts
<1>5. \A r \in Procs : pc'[r] \in {"fill", "fill2", "putMemory", "putDisk", "return"} => pc'[r] = pc[r]
  BY <1>2
<1>. QED BY <1>1, <1>3, <1>4, <1>5, NewestStays DEF ContentInv

LEMMA FetchContent == ASSUME ControlInv, ContentInv, NEW p \in Procs, Fetch(p) PROVE ContentInv'
<1>1. UNCHANGED <<key, onDisk, memory, files, newest, since>> /\ calls' = calls + 1
  BY DEF Fetch, qvars, gvars
<1>2. CASE Goto(p, "fetch", "return") /\ got' = got
  <2>1. pc[p] = "fetch" /\ pc'[p] = "return" /\ \A r \in Procs \ {p} : pc'[r] = pc[r]
    BY <1>2 DEF ControlInv, TypeOK, Goto
  <2>2. got[p] = None
    <3>1. "fetch" \in EmptyPCs BY DEF EmptyPCs
    <3>. QED BY <2>1, <3>1 DEF ControlInv, Holdings
  <2>3. Unstored' /\ FillsAge' /\ CopiesAge'
    BY <1>1, <1>2, <2>1, UnstoredStays, FillsAgeStays, CopiesAgeStays DEF ContentInv
  <2>4. MemoryIsNewest' BY <1>1, <1>2, <2>2, NewestMove DEF ContentInv
  <2>. QED BY <2>3, <2>4 DEF ContentInv
<1>3. CASE /\ Goto(p, "fetch", "putMemory")
           /\ got' = [got EXCEPT ![p] = [ver |-> calls + 1, created |-> now, stale |-> FALSE]]
  <2>1. pc[p] = "fetch" /\ pc'[p] = "putMemory" /\ \A r \in Procs \ {p} : pc'[r] = pc[r]
    BY <1>3 DEF ControlInv, TypeOK, Goto
  <2>2. got'[p].ver = calls + 1 /\ \A r \in Procs \ {p} : got'[r] = got[r]
    BY <1>3 DEF ControlInv, TypeOK
  <2>3. Unstored' BY <1>1, <1>3, FetchUnstored DEF ContentInv
  <2>4. FillsAge' /\ CopiesAge'
    BY <1>1, <2>1, <2>2, FillsAgeStays, CopiesAgeStays DEF ContentInv
  <2>5. MemoryIsNewest'
    <3>. SUFFICES ASSUME ~onDisk PROVE MemoryIsNewest' BY <1>1 DEF MemoryIsNewest
    <3>1. /\ \A r \in Procs : pc[r] \notin {"fill", "fill2"}
          /\ \A e \in Entries(memory) : e.ver = newest[e.key]
          /\ \A r \in Procs : pc[r] = "putMemory" => got[r].ver >= newest[KeyOf(r)]
          /\ \A r \in Procs : pc[r] \in {"putDisk", "return"} /\ got[r] # None => got[r].ver = newest[KeyOf(r)]
          /\ \A q \in Queries : since[q] =< newest[key[q]]
          /\ \A q \in Queries : pc[Query(q)] \in {"served", "done"} /\ got[Query(q)] # None
                                => got[Query(q)].ver >= since[q]
      BY DEF ContentInv, MemoryIsNewest, Filling
    <3>2. calls + 1 >= newest[KeyOf(p)]
      <4>1. newest[KeyOf(p)] \in 0..calls BY KeyFacts DEF ControlInv, TypeOK
      <4>. QED BY <4>1, ResultFacts
    <3>3. /\ \A r \in Procs : pc'[r] \notin {"fill", "fill2"}
          /\ \A r \in Procs : pc'[r] = "putMemory" => got'[r].ver >= newest[KeyOf(r)]
          /\ \A r \in Procs : pc'[r] \in {"putDisk", "return"} /\ got'[r] # None => got'[r].ver = newest[KeyOf(r)]
      BY <2>1, <2>2, <3>1, <3>2
    <3>4. \A q \in Queries : pc'[Query(q)] \in {"served", "done"} /\ got'[Query(q)] # None
                            => got'[Query(q)].ver >= since[q]
      BY <2>1, <2>2, <3>1, ProcFacts
    <3>. QED BY <1>1, <3>1, <3>3, <3>4 DEF MemoryIsNewest, Filling, KeyOf, Query, Entries
  <2>. QED BY <2>3, <2>4, <2>5 DEF ContentInv
<1>. QED BY <1>2, <1>3 DEF Fetch

(* The flight has the key for itself: nothing newer is stored meanwhile. *)
LEMMA PutMemoryContent == ASSUME ControlInv, ContentInv, NEW p \in Procs, PutMemory(p) PROVE ContentInv'
<1>. DEFINE k == KeyOf(p)
            m == [key |-> k, ver |-> got[p].ver, created |-> now]
<1>1. /\ Goto(p, "putMemory", "putDisk") /\ UNCHANGED <<key, onDisk, got, files, since>>
      /\ memory' = Put(memory, m, MaxEntries)
      /\ newest' = [newest EXCEPT ![k] = IF got[p].ver > newest[k] THEN got[p].ver ELSE newest[k]]
  BY DEF PutMemory, qvars
<1>2. pc[p] = "putMemory" /\ pc'[p] = "putDisk" /\ \A r \in Procs \ {p} : pc'[r] = pc[r]
  BY <1>1 DEF ControlInv, TypeOK, Goto
<1>3. got[p] \in Results /\ got[p] # None /\ k \in Keys BY <1>2, ResultFacts, KeyFacts DEF Storing, ControlInv
<1>4. \A e \in Entries(memory') : e = m \/ (e \in Entries(memory) /\ e.key # k)
  <2>1. m \in Entry BY <1>3, ResultFacts DEF Results, Entry
  <2>2. m.key = k OBVIOUS
  <2>. HIDE DEF m
  <2>. QED BY <1>1, <2>1, <2>2, PutEffect, BoundFacts DEF ControlInv, TypeOK
<1>5. m.key = k /\ m.ver = got[p].ver OBVIOUS
<1>. HIDE DEF m, k
<1>6. Unstored'
  <2>1. \A e \in Entries(memory') : e \in Entries(memory) \/ (got[p] # None /\ e.ver = got[p].ver) BY <1>3, <1>4, <1>5
  <2>. QED BY <1>1, <2>1, MoveUnstored DEF ContentInv
<1>7. FillsAge' BY <1>1, <1>2, FillsAgeStays DEF ContentInv
<1>8. CopiesAge'
  <2>. SUFFICES ASSUME NEW e \in Entries(memory'), NEW f \in Entries(files), e.key = f.key, e.ver = f.ver
                PROVE  e.created =< f.created
    BY <1>1 DEF CopiesAge, Entries
  <2>1. e # m BY <1>2, <1>5 DEF ContentInv, Unstored
  <2>. QED BY <1>4, <2>1 DEF ContentInv, CopiesAge
<1>9. MemoryIsNewest'
  <2>. SUFFICES ASSUME ~onDisk PROVE MemoryIsNewest' BY <1>1 DEF MemoryIsNewest
  <2>1. /\ \A r \in Procs : pc[r] \notin {"fill", "fill2"}
        /\ \A e \in Entries(memory) : e.ver = newest[e.key]
        /\ \A r \in Procs : pc[r] = "putMemory" => got[r].ver >= newest[KeyOf(r)]
        /\ \A r \in Procs : pc[r] \in {"putDisk", "return"} /\ got[r] # None => got[r].ver = newest[KeyOf(r)]
        /\ \A q \in Queries : since[q] =< newest[key[q]]
        /\ \A q \in Queries : pc[Query(q)] \in {"served", "done"} /\ got[Query(q)] # None
                              => got[Query(q)].ver >= since[q]
    BY DEF ContentInv, MemoryIsNewest, Filling
  <2>2. newest \in [Keys -> 0..calls] /\ since \in [Queries -> 0..calls] /\ key \in [Queries -> Keys]
    BY DEF ControlInv, TypeOK
  <2>3. newest'[k] = got[p].ver /\ newest[k] =< newest'[k] /\ \A j \in Keys \ {k} : newest'[j] = newest[j]
    <3>1. got[p].ver \in Nat /\ newest[k] \in Nat BY <1>3, <2>2, ResultFacts
    <3>2. got[p].ver >= newest[k] BY <1>2, <2>1 DEF k
    <3>. QED BY <1>1, <1>3, <2>2, <3>1, <3>2
  <2>4. \A r \in Procs \ {p} : pc[r] \in FlightPCs => KeyOf(r) \in Keys \ {k}
    <3>1. pc[p] \in FlightPCs BY <1>2 DEF FlightPCs
    <3>. QED BY <3>1, KeyFacts DEF ControlInv, FlightHeld, InFlight, k
  <2>5. \A r \in Procs : pc'[r] \notin {"fill", "fill2"} BY <1>2, <2>1
  <2>6. \A e \in Entries(memory') : e.ver = newest'[e.key]
    <3>1. \A e \in Entries(memory) : e.key \in Keys
      <4>1. \A e \in Entries(memory) : e \in Entry BY StoreFacts DEF ControlInv, TypeOK
      <4>. QED BY <4>1 DEF Entry
    <3>. QED BY <1>4, <1>5, <2>1, <2>3, <3>1
  <2>7. \A r \in Procs : pc'[r] = "putMemory" => got[r].ver >= newest'[KeyOf(r)]
    BY <1>2, <2>1, <2>3, <2>4 DEF FlightPCs
  <2>8. \A r \in Procs : pc'[r] \in {"putDisk", "return"} /\ got[r] # None => got[r].ver = newest'[KeyOf(r)]
    <3>1. KeyOf(p) = k BY DEF k
    <3>. QED BY <1>2, <2>1, <2>3, <2>4, <3>1 DEF FlightPCs
  <2>9. \A q \in Queries : since[q] =< newest'[key[q]]
    <3>. SUFFICES ASSUME NEW q \in Queries PROVE since[q] =< newest'[key[q]] OBVIOUS
    <3>1. key[q] \in Keys /\ since[q] \in Nat /\ newest[key[q]] \in Nat /\ since[q] =< newest[key[q]] BY <2>1, <2>2
    <3>2. newest'[k] \in Nat BY <1>3, <2>3, ResultFacts
    <3>. QED BY <2>3, <3>1, <3>2
  <2>10. \A q \in Queries : pc'[Query(q)] \in {"served", "done"} => pc'[Query(q)] = pc[Query(q)] BY <1>2, ProcFacts
  <2>. QED BY <1>1, <2>1, <2>5, <2>6, <2>7, <2>8, <2>9, <2>10 DEF MemoryIsNewest, Filling, KeyOf, Query, Entries
<1>. QED BY <1>6, <1>7, <1>8, <1>9 DEF ContentInv

(* The file is written after the entry, and is as young as the clock. *)
LEMMA PutDiskContent == ASSUME ControlInv, ContentInv, NEW p \in Procs, PutDisk(p) PROVE ContentInv'
<1>. DEFINE f == [key |-> KeyOf(p), ver |-> got[p].ver, created |-> now]
<1>1. /\ Goto(p, "putDisk", "return") /\ UNCHANGED <<key, onDisk, got, memory, newest, since>>
      /\ files' \in {files, Put(files, f, MaxFiles)}
  BY DEF PutDisk, qvars, gvars
<1>2. pc[p] = "putDisk" /\ pc'[p] = "return" /\ \A r \in Procs \ {p} : pc'[r] = pc[r]
  BY <1>1 DEF ControlInv, TypeOK, Goto
<1>3. got[p] \in Results /\ got[p] # None /\ KeyOf(p) \in Keys BY <1>2, ResultFacts, KeyFacts DEF Storing, ControlInv
<1>4. \A e \in Entries(files') : e = f \/ e \in Entries(files)
  <2>1. f \in Entry BY <1>3, ResultFacts DEF Results, Entry
  <2>. HIDE DEF f
  <2>. QED BY <1>1, <2>1, PutEffect, BoundFacts DEF ControlInv, TypeOK
<1>5. f.key = KeyOf(p) /\ f.ver = got[p].ver /\ f.created = now OBVIOUS
<1>. HIDE DEF f
<1>6. Unstored'
  <2>1. \A e \in Entries(files') : e \in Entries(files) \/ (Storing(p) /\ got[p] # None /\ e.ver = got[p].ver)
    BY <1>2, <1>3, <1>4, <1>5 DEF Storing
  <2>. QED BY <1>1, <2>1, MoveUnstored DEF ContentInv
<1>7. FillsAge'
  <2>. SUFFICES ASSUME NEW r \in Procs, pc'[r] \in {"fill", "fill2"}, NEW e \in Entries(files'),
                       e.key = KeyOf(r), e.ver = got[r].ver
                PROVE  got[r].created =< e.created
    BY <1>1 DEF FillsAge, Filling, KeyOf, Entries
  <2>1. Filling(r) /\ r # p BY <1>2 DEF Filling
  <2>2. e # f BY <1>2, <1>5, <2>1 DEF ContentInv, Unstored
  <2>. QED BY <1>4, <2>1, <2>2 DEF ContentInv, FillsAge
<1>8. CopiesAge'
  <2>. SUFFICES ASSUME NEW m \in Entries(memory), NEW e \in Entries(files'), m.key = e.key, m.ver = e.ver
                PROVE  m.created =< e.created
    BY <1>1 DEF CopiesAge, Entries
  <2>1. m.created =< now
    <3>1. m \in Entry BY StoreFacts DEF ControlInv, TypeOK
    <3>. QED BY <3>1, ResultFacts DEF Entry
  <2>. QED BY <1>4, <1>5, <2>1 DEF ContentInv, CopiesAge
<1>9. MemoryIsNewest'
  <2>1. ~onDisk /\ got[p] # None => got[p].ver = newest[KeyOf(p)] BY <1>2 DEF ContentInv, MemoryIsNewest
  <2>. QED BY <1>1, <2>1, NewestMove DEF ContentInv
<1>. QED BY <1>6, <1>7, <1>8, <1>9 DEF ContentInv

(* What a flight returns is not older than what any who share it began with. *)
LEMMA ReturnContent == ASSUME ControlInv, ContentInv, NEW p \in Procs, Return(p) PROVE ContentInv'
<1>. DEFINE all == {p} \cup Waiting(KeyOf(p))
<1>1. /\ \A r \in all : pc'[r] \in {"served", "finish"} /\ got'[r] = got[p] /\ KeyOf(r) = KeyOf(p)
      /\ \A r \in Procs \ all : pc'[r] = pc[r] /\ got'[r] = got[r]
      /\ pc[p] = "return"
      /\ UNCHANGED <<key, onDisk, memory, files, newest, since>>
  <2>1. \A r \in all : r \in Procs /\ (r[2] = "query" \/ r[2] = "refresh") BY ProcKinds, ReturnEffect
  <2>. QED BY <2>1, ReturnEffect
<1>. HIDE DEF all
<1>2. Unstored' BY ReturnUnstored DEF ContentInv
<1>3. \A r \in Procs : pc'[r] \in {"fill", "fill2", "putMemory", "putDisk", "return"}
                      => pc'[r] = pc[r] /\ got'[r] = got[r]
  BY <1>1
<1>4. FillsAge' /\ CopiesAge' BY <1>1, <1>3, FillsAgeStays, CopiesAgeStays DEF ContentInv
<1>5. MemoryIsNewest'
  <2>. SUFFICES ASSUME ~onDisk PROVE MemoryIsNewest' BY <1>1 DEF MemoryIsNewest
  <2>1. /\ \A r \in Procs : pc[r] \notin {"fill", "fill2"}
        /\ \A e \in Entries(memory) : e.ver = newest[e.key]
        /\ \A r \in Procs : pc[r] = "putMemory" => got[r].ver >= newest[KeyOf(r)]
        /\ \A r \in Procs : pc[r] \in {"putDisk", "return"} /\ got[r] # None => got[r].ver = newest[KeyOf(r)]
        /\ \A q \in Queries : since[q] =< newest[key[q]]
        /\ \A q \in Queries : pc[Query(q)] \in {"served", "done"} /\ got[Query(q)] # None
                              => got[Query(q)].ver >= since[q]
    BY DEF ContentInv, MemoryIsNewest, Filling
  <2>2. /\ \A r \in Procs : pc'[r] \notin {"fill", "fill2"}
        /\ \A r \in Procs : pc'[r] = "putMemory" => got'[r].ver >= newest[KeyOf(r)]
        /\ \A r \in Procs : pc'[r] \in {"putDisk", "return"} /\ got'[r] # None => got'[r].ver = newest[KeyOf(r)]
    BY <1>3, <2>1
  <2>3. ASSUME NEW q \in Queries, pc'[Query(q)] \in {"served", "done"}, got'[Query(q)] # None
        PROVE  got'[Query(q)].ver >= since[q]
    <3>1. Query(q) \in Procs /\ KeyOf(Query(q)) = key[q] BY ProcFacts, ProcKeys
    <3>2. CASE Query(q) \in all
      <4>1. got'[Query(q)].ver = newest[key[q]] BY <1>1, <2>1, <2>3, <3>1, <3>2
      <4>2. since[q] \in Nat /\ newest[key[q]] \in Nat /\ since[q] =< newest[key[q]]
        BY <2>1, ResultFacts DEF ControlInv, TypeOK
      <4>. QED BY <4>1, <4>2
    <3>3. CASE Query(q) \notin all BY <1>1, <2>1, <2>3, <3>1, <3>3
    <3>. QED BY <3>2, <3>3
  <2>. QED BY <1>1, <2>1, <2>2, <2>3 DEF MemoryIsNewest, Filling, KeyOf, Query, Entries
<1>. QED BY <1>2, <1>4, <1>5 DEF ContentInv

LEMMA FinishContent == ASSUME ControlInv, ContentInv, NEW q \in Queries, Finish(Refresher(q)) PROVE ContentInv'
<1>. DEFINE p == Refresher(q)
<1>1. /\ Goto(p, "finish", "off") /\ UNCHANGED <<key, onDisk, memory, files, newest, since>>
      /\ got' = [got EXCEPT ![p] = None]
  BY DEF Finish, qvars, gvars
<1>2. p \in Procs BY ProcFacts
<1>. HIDE DEF p
<1>3. /\ pc'[p] = "off" /\ got'[p] = None
      /\ \A r \in Procs \ {p} : pc'[r] = pc[r] /\ got'[r] = got[r]
  BY <1>1, <1>2 DEF ControlInv, TypeOK, Goto
<1>4. Unstored' BY <1>1, <1>2, <1>3, MoveUnstored DEF ContentInv
<1>5. FillsAge' /\ CopiesAge' BY <1>1, <1>3, FillsAgeStays, CopiesAgeStays DEF ContentInv
<1>6. MemoryIsNewest' BY <1>1, <1>2, <1>3, NewestMove DEF ContentInv
<1>. QED BY <1>4, <1>5, <1>6 DEF ContentInv

(* Clears, the clock and stuttering. *)
LEMMA StillContent ==
  ASSUME ContentInv, UNCHANGED <<key, onDisk, pc, got, newest, since>>,
         Entries(memory') \subseteq Entries(memory), Entries(files') \subseteq Entries(files)
  PROVE  ContentInv'
BY UnstoredStays, FillsAgeStays, CopiesAgeStays, NewestStays DEF ContentInv

LEMMA ClearContent == ASSUME ControlInv, ContentInv, ClearMemory \/ ClearDisk PROVE ContentInv'
<1>1. TypeOK BY DEF ControlInv
<1>2. CASE ClearMemory BY <1>1, <1>2, ClearMemoryEffect, StillContent
<1>3. CASE ClearDisk BY <1>1, <1>3, ClearDiskEffect, StillContent
<1>. QED BY <1>2, <1>3

LEMMA NextContent == ASSUME ControlInv, ContentInv, [Next]_vars PROVE ContentInv'
<1>1. ASSUME NEW q \in Queries, Begin(q) \/ Finish(Refresher(q)) PROVE ContentInv'
  BY <1>1, BeginContent, FinishContent
<1>2. ASSUME NEW q \in Queries, QueryStep(q) PROVE ContentInv'
  BY <1>2, ProcFacts, LookupMemoryContent, LookupDiskContent, FillMemoryContent, ServeContent DEF QueryStep
<1>3. ASSUME NEW p \in Procs, FlightStep(p) PROVE ContentInv'
  BY <1>3, DoContent, FetchContent, PutMemoryContent, PutDiskContent, ReturnContent DEF FlightStep
<1>4. CASE ClearMemory \/ ClearDisk BY <1>4, ClearContent
<1>5. CASE Tick \/ UNCHANGED vars
  BY <1>5, StillContent DEF Tick, vars, qvars, gvars
<1>. QED BY <1>1, <1>2, <1>3, <1>4, <1>5 DEF Next, Terminated

LEMMA InitContent == Init => ContentInv
<1>. SUFFICES ASSUME Init PROVE ContentInv OBVIOUS
<1>1. /\ \A p \in Procs : pc[p] \in {"start", "off"} /\ got[p] = None
      /\ memory = <<>> /\ \A q \in Queries : since[q] = 0
      /\ \A q \in Queries : newest[key[q]] = 0
  BY DEF Init
<1>2. Entries(memory) = {} BY <1>1 DEF Entries
<1>. QED BY <1>1, <1>2, ProcFacts DEF ContentInv, Unstored, FillsAge, CopiesAge, MemoryIsNewest, Filling

-----------------------------------------------------------------------------
(* The flight of a key is of that key. *)
LEMMA NextFlightKeys == ASSUME ControlInv, FlightKeys, [Next]_vars PROVE FlightKeys'
<1>1. key' = key BY DEF Next, QueryStep, FlightStep, Terminated, vars, qvars, Begin, Finish, LookupMemory,
     LookupDisk, FillMemory, Serve, Do, Fetch, PutMemory, PutDisk, Return, ClearMemory, ClearDisk, Tick
<1>2. CASE flight' = flight BY <1>1, <1>2 DEF FlightKeys, KeyOf
<1>3. ASSUME NEW p \in Procs, Do(p) \/ Return(p) PROVE FlightKeys'
  <2>1. \/ flight' = flight
        \/ flight' = [flight EXCEPT ![KeyOf(p)] = p]
        \/ flight' = [flight EXCEPT ![KeyOf(p)] = None]
    BY <1>3 DEF Do, Return
  <2>2. flight \in [Keys -> Procs \cup {None}] BY DEF ControlInv, TypeOK
  <2>. QED BY <1>1, <2>1, <2>2 DEF FlightKeys, KeyOf
<1>. QED BY <1>2, <1>3 DEF Next, QueryStep, FlightStep, Terminated, vars, Begin, Finish, LookupMemory,
     LookupDisk, FillMemory, Serve, Fetch, PutMemory, PutDisk, ClearMemory, ClearDisk, Tick

-----------------------------------------------------------------------------
(* What the cache keeps, whatever queries, clears and faults come: the       *)
(* control of its processes, its marks, and what its stores have.            *)
THEOREM Inductive == Spec => []IInv
<1>1. Init => IInv
  <2>1. Init => FlightKeys BY DEF Init, FlightKeys
  <2>. QED BY <2>1, InitControl, InitRefresh, InitContent DEF IInv
<1>2. IInv /\ [Next]_vars => IInv' BY NextControl, NextRefresh, NextContent, NextFlightKeys DEF IInv
<1>. QED BY <1>1, <1>2, PTL DEF Spec

(* Every step leaves stores of distinct keys within their bounds, results of *)
(* kdb+ that have been given, and processes at their places.                 *)
THEOREM TypeCorrect == Spec => []TypeOK
<1>1. IInv => TypeOK BY DEF IInv, ControlInv
<1>. QED BY <1>1, Inductive, PTL

(* kdb+ never works twice at a time on one cached query, however many panels *)
(* and refreshes ask for it, and all who wait have a flight to wait for.     *)
THEOREM Coalesced == Spec => []OneFlight
<1>1. IInv => OneFlight
  <2>. SUFFICES ASSUME IInv PROVE OneFlight OBVIOUS
  <2>1. TypeOK /\ FlightHeld /\ FlightKeys BY DEF IInv, ControlInv
  <2>2. \A p, r \in Procs : pc[p] \in FlightPCs /\ pc[r] \in FlightPCs /\ KeyOf(p) = KeyOf(r) => p = r
    BY <2>1 DEF FlightHeld, InFlight
  <2>3. ASSUME NEW p \in Procs, pc[p] = "wait"
        PROVE  \E r \in Procs : pc[r] \in FlightPCs /\ KeyOf(r) = KeyOf(p)
    <3>1. KeyOf(p) \in Keys /\ flight[KeyOf(p)] # None BY <2>1, <2>3, KeyFacts DEF FlightHeld
    <3>2. flight[KeyOf(p)] \in Procs /\ KeyOf(flight[KeyOf(p)]) = KeyOf(p) BY <2>1, <3>1 DEF TypeOK, FlightKeys
    <3>. QED BY <2>1, <3>2 DEF FlightHeld, InFlight
  <2>. QED BY <2>2, <2>3 DEF OneFlight
<1>. QED BY <1>1, Inductive, PTL

(* A mark never outlives the goroutines that refresh its key, so that a      *)
(* failed refresh or a clear does not end the refreshing of a stale entry.   *)
THEOREM MarksHaveRefreshers == Spec => []MarkHasRefresher
<1>1. IInv => MarkHasRefresher BY DEF IInv, RefreshInv
<1>. QED BY <1>1, Inductive, PTL

(* A key is refreshed once at a time, and once more for every clear at most, *)
(* although a clear takes marks away under their refreshers, and a refresher *)
(* that ends takes away the mark of another.                                 *)
THEOREM RefreshesNeverPileUp == Spec => []RefreshersBounded
<1>1. IInv => RefreshersBounded
  <2>. SUFFICES ASSUME IInv, NEW k \in Keys PROVE Cardinality(Refreshers(k)) =< clears + 1 BY DEF RefreshersBounded
  <2>1. IsFiniteSet(Refreshers(k)) /\ Cardinality(Refreshers(k)) =< clears + Marks(k)
    BY DEF IInv, RefreshInv, Marked
  <2>2. clears \in Nat /\ Marks(k) \in {0, 1} BY BoundFacts DEF IInv, ControlInv, TypeOK, Marks
  <2>3. Cardinality(Refreshers(k)) \in Nat BY <2>1, FS_CardinalityType
  <2>. QED BY <2>1, <2>2, <2>3
<1>. QED BY <1>1, Inductive, PTL

(* A result read back from disk is never younger in memory than on disk: no  *)
(* copy prolongs its life.                                                   *)
THEOREM CopiesKeepTheirAge == Spec => []CopiesAgeTogether
<1>1. IInv => CopiesAgeTogether BY DEF IInv, ContentInv, CopiesAge, CopiesAgeTogether, Entries
<1>. QED BY <1>1, Inductive, PTL

(* With the cache in memory only, no query is answered with a result older   *)
(* than what its key had when it began, through hits, refreshes and shared   *)
(* flights alike.                                                            *)
THEOREM NeverGoesBack == Spec => []MemoryNeverGoesBack
<1>1. IInv => MemoryNeverGoesBack
  BY DEF IInv, ContentInv, MemoryIsNewest, MemoryNeverGoesBack, NotOlder, Answered
<1>. QED BY <1>1, Inductive, PTL
=============================================================================
