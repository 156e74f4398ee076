--------------------------- MODULE LiveSessionsProofs ---------------------------
(***************************************************************************)
(* For any number of runs, handles, publications and broken connections:     *)
(* kdb+ pushes to the run that is registered or the run is one of those that *)
(* end without an answered stop, and a run that is wanted stays registered   *)
(* unless an earlier run that was still ending took its registration.        *)
(*                                                                           *)
(* The invariant follows a start call from the run to kdb+ and its answer    *)
(* back (what is asked, answered, registered, ended exclude each other) and  *)
(* keeps, for each run, which earlier ones can still start or stop.          *)
(*                                                                           *)
(* For any frames, limits and retention: the page has of each frame the last *)
(* rows that arrived since its schema changed.  Here the invariant compares  *)
(* what the session keeps with all it heard, frame by frame.                 *)
(***************************************************************************)
EXTENDS LiveSessions, SequenceFacts

-----------------------------------------------------------------------------
(* What is published, and the frames sent for it: every frame is one that was *)
(* published, or a status.                                                    *)

Elements(s) == {s[k] : k \in DOMAIN s}

LEMMA ElementsEmpty == Elements(<<>>) = {}
BY DEF Elements

Contents == {<<>>} \cup {Stamped(payload, n) : payload \in Payloads, n \in Nat}
RowFrames == UNION {Elements(c) : c \in Contents}
PageFrames == {StatusFrame(state) : state \in {"running"} \cup Terminal} \cup {DataFrame(f) : f \in RowFrames}

(* The rows of what is published, stamped with the publication and their place. *)
Rows == [pub : Nat, i : Nat, time : Int \cup {None}]

LEMMA StampedFrames ==
  ASSUME NEW payload \in Payloads, NEW n \in Nat
  PROVE  /\ Stamped(payload, n) \in Seq(Elements(Stamped(payload, n)))
         /\ \A f \in Elements(Stamped(payload, n)) : f.key \in Keys /\ f.schema # None /\ f.rows \in Seq(Rows)
<1>. USE PayloadsAssumption
<1>. DEFINE c == Stamped(payload, n)
            stamps(k) == [i \in DOMAIN payload[k].rows |-> [pub |-> n, i |-> i, time |-> payload[k].rows[i]]]
<1>1. DOMAIN c = 1..Len(payload) /\ Len(payload) \in Nat BY DEF Stamped
<1>2. \A k \in DOMAIN c : c[k].key = payload[k].key /\ c[k].schema = payload[k].schema /\ c[k].rows = stamps(k)
  <2>1. ASSUME NEW k \in DOMAIN payload PROVE DOMAIN payload[k] = {"key", "schema", "rows"} OBVIOUS
  <2>. QED BY <2>1 DEF Stamped
<1>3. c = [k \in 1..Len(payload) |-> c[k]] BY <1>1 DEF Stamped
<1>4. DOMAIN c = DOMAIN payload BY DEF Stamped
<1>5. ASSUME NEW k \in DOMAIN payload PROVE stamps(k) \in Seq(Rows)
  <2>1. payload[k].rows \in Seq(Int \cup {None}) OBVIOUS
  <2>2. DOMAIN payload[k].rows = 1..Len(payload[k].rows) /\ Len(payload[k].rows) \in Nat BY <2>1
  <2>3. \A i \in DOMAIN payload[k].rows : payload[k].rows[i] \in Int \cup {None} BY <2>1
  <2>4. \A i \in DOMAIN payload[k].rows : [pub |-> n, i |-> i, time |-> payload[k].rows[i]] \in Rows
    BY <2>2, <2>3 DEF Rows
  <2>. QED BY <2>2, <2>4
<1>. HIDE DEF c, stamps
<1>6. c \in Seq(Elements(c)) BY <1>1, <1>3 DEF Elements
<1>7. \A f \in Elements(c) : f.key \in Keys /\ f.schema # None /\ f.rows \in Seq(Rows)
  BY <1>2, <1>4, <1>5 DEF Elements
<1>. QED BY <1>6, <1>7 DEF c

LEMMA PublishedFrames ==
  /\ \A c \in Contents : c \in Seq(RowFrames)
  /\ \A f \in RowFrames : f.key \in Keys /\ f.schema # None /\ f.rows \in Seq(Rows)
<1>1. <<>> \in Seq(RowFrames) OBVIOUS
<1>2. ASSUME NEW c \in Contents, c # <<>>
      PROVE  c \in Seq(Elements(c)) /\ \A f \in Elements(c) : f.key \in Keys /\ f.schema # None /\ f.rows \in Seq(Rows)
  BY <1>2, StampedFrames DEF Contents
<1>3. \A c \in Contents : Elements(c) \subseteq RowFrames BY DEF RowFrames
<1>4. ASSUME NEW c \in Contents, c # <<>> PROVE c \in Seq(RowFrames)
  <2>1. c \in Seq(Elements(c)) /\ Elements(c) \subseteq RowFrames BY <1>2, <1>3, <1>4
  <2>2. \A i \in 1..Len(c) : c[i] \in RowFrames BY <2>1
  <2>. QED BY <2>1, <2>2
<1>5. \A f \in RowFrames : f.key \in Keys /\ f.schema # None /\ f.rows \in Seq(Rows)
  <2>. SUFFICES ASSUME NEW c \in Contents, NEW f \in Elements(c)
                PROVE  f.key \in Keys /\ f.schema # None /\ f.rows \in Seq(Rows)
    BY DEF RowFrames
  <2>1. c # <<>> BY ElementsEmpty
  <2>. QED BY <1>2, <2>1
<1>. QED BY <1>1, <1>4, <1>5

-----------------------------------------------------------------------------
(* Trimming.  Of rows that ascend in time those are kept that are within both  *)
(* limits, from the first on; dropping some of the others before makes no      *)
(* difference.                                                                *)

Newest(rows) == rows[Len(rows)].time
Kept(rows, n, maxRows) ==
  /\ n + maxRows > Len(rows)
  /\ Retention # 0 /\ Newest(rows) # None => rows[n].time # None /\ rows[n].time + Retention >= Newest(rows)

FirstKept(rows, n, maxRows) ==
  /\ n \in 1..Len(rows) /\ Kept(rows, n, maxRows)
  /\ \A k \in 1..Len(rows) : k < n => ~Kept(rows, k, maxRows)

LEMMA RowsSeq ==
  ASSUME NEW rows \in Seq(Rows)
  PROVE  /\ Len(rows) \in Nat /\ DOMAIN rows = 1..Len(rows)
         /\ \A n \in 1..Len(rows) : rows[n] \in Rows /\ rows[n].time \in Int \cup {None}
<1>1. \A row \in Rows : row.time \in Int \cup {None} BY DEF Rows
<1>2. Len(rows) \in Nat /\ DOMAIN rows = 1..Len(rows) /\ \A n \in 1..Len(rows) : rows[n] \in Rows OBVIOUS
<1>. QED BY <1>1, <1>2

(* The first row kept is one of them, and within the limit. *)
LEMMA StartOfRows ==
  ASSUME NEW rows \in Seq(Rows), NEW maxRows \in Nat \ {0}
  PROVE  LET start == StartIndex(rows, maxRows)
         IN /\ rows = <<>> => start = 1
            /\ rows # <<>> => start \in 1..Len(rows) /\ start + maxRows > Len(rows)
<1>. USE RetentionAssumption
<1>. DEFINE byCount == Larger(1, Len(rows) - maxRows + 1)
            latest == rows[Len(rows)].time
            recent == {i \in DOMAIN rows : rows[i].time # None /\ rows[i].time + Retention >= latest}
            first == CHOOSE i \in recent : \A k \in recent : i <= k
            start == StartIndex(rows, maxRows)
<1>1. Len(rows) \in Nat /\ DOMAIN rows = 1..Len(rows) /\ (rows = <<>> <=> Len(rows) = 0) OBVIOUS
<1>2. byCount \in Int /\ (rows = <<>> => byCount = 1)
      /\ (rows # <<>> => byCount \in 1..Len(rows) /\ byCount + maxRows > Len(rows))
  BY <1>1 DEF Larger
<1>3. start = IF Retention = 0 \/ rows = <<>> THEN byCount
              ELSE IF latest = None \/ recent = {} THEN byCount ELSE Larger(byCount, first)
  BY Zenon DEF StartIndex
<1>4. ASSUME recent # {} PROVE first \in recent /\ \A k \in recent : first <= k
  <2>1. recent \in SUBSET Nat BY <1>1
  <2>. HIDE DEF recent
  <2>2. \E x \in recent : \A y \in recent : x =< y BY <1>4, <2>1, HasLeast
  <2>. QED BY <2>2
<1>5. recent # {} => first \in 1..Len(rows) BY <1>1, <1>4
<1>. HIDE DEF byCount, latest, recent, first, start
<1>6. CASE Retention = 0 \/ rows = <<>> \/ latest = None \/ recent = {} BY <1>2, <1>3, <1>6 DEF start
<1>7. CASE ~(Retention = 0 \/ rows = <<>> \/ latest = None \/ recent = {})
  <2>1. start = Larger(byCount, first) /\ first \in 1..Len(rows) BY <1>3, <1>5, <1>7
  <2>. QED BY <1>1, <1>2, <1>7, <2>1 DEF Larger, start
<1>. QED BY <1>6, <1>7

LEMMA StartIsFirstKept ==
  ASSUME NEW rows \in Seq(Rows), NEW maxRows \in Nat \ {0}, rows # <<>>, Ascending(rows)
  PROVE  FirstKept(rows, StartIndex(rows, maxRows), maxRows)
<1>. USE RetentionAssumption
<1>. DEFINE byCount == Larger(1, Len(rows) - maxRows + 1)
            latest == rows[Len(rows)].time
            recent == {i \in DOMAIN rows : rows[i].time # None /\ rows[i].time + Retention >= latest}
            first == CHOOSE i \in recent : \A k \in recent : i <= k
            start == StartIndex(rows, maxRows)
<1>1. Len(rows) \in Nat \ {0} /\ DOMAIN rows = 1..Len(rows)
      /\ \A n \in 1..Len(rows) : rows[n].time \in Int \cup {None}
  BY RowsSeq
<1>2. /\ byCount \in 1..Len(rows)
      /\ \A n \in 1..Len(rows) : n + maxRows > Len(rows) <=> n >= byCount
  BY <1>1 DEF Larger
<1>3. start = IF Retention = 0 \/ rows = <<>> THEN byCount
              ELSE IF latest = None \/ recent = {} THEN byCount ELSE Larger(byCount, first)
  BY Zenon DEF StartIndex
<1>4. latest # None => Len(rows) \in recent BY <1>1
<1>5. ASSUME recent # {} PROVE first \in recent /\ \A k \in recent : first <= k
  <2>1. recent \in SUBSET Nat BY <1>1
  <2>. HIDE DEF recent
  <2>2. \E x \in recent : \A y \in recent : x =< y BY <1>5, <2>1, HasLeast
  <2>. QED BY <2>2
<1>6. \A n \in 1..Len(rows) :
        n \in recent <=> rows[n].time # None /\ rows[n].time + Retention >= latest
  BY <1>1
<1>7. \A n \in 1..Len(rows) :
        Kept(rows, n, maxRows) <=> n >= byCount /\ (Retention # 0 /\ latest # None => n \in recent)
  BY <1>2, <1>6 DEF Kept, Newest
<1>8. ASSUME latest # None, NEW n \in 1..Len(rows), first \in 1..Len(rows), n >= first, first \in recent PROVE n \in recent
  <2>1. CASE n = first BY <1>8, <2>1
  <2>2. CASE n > first
    <3>1. rows[first].time # None /\ rows[n].time # None /\ rows[first].time <= rows[n].time
      BY <1>1, <1>8, <2>2 DEF Ascending
    <3>2. rows[first].time + Retention >= latest BY <1>6, <1>8
    <3>3. latest \in Int \cup {None} /\ rows[first].time \in Int \cup {None} /\ rows[n].time \in Int \cup {None}
      <4>1. Len(rows) \in 1..Len(rows) BY <1>1
      <4>. QED BY <1>1, <1>8, <4>1
    <3>4. rows[n].time + Retention >= latest BY <1>8, <3>1, <3>2, <3>3
    <3>. QED BY <1>6, <3>1, <3>4
  <2>. QED BY <1>8, <2>1, <2>2
<1>9. recent \subseteq 1..Len(rows) BY <1>1
<1>. HIDE DEF byCount, latest, recent, first, start
<1>10. CASE Retention = 0 \/ latest = None
  <2>1. start = byCount BY <1>3, <1>10
  <2>. QED BY <1>2, <1>7, <1>10, <2>1 DEF FirstKept, start
<1>11. CASE ~(Retention = 0 \/ latest = None)
  <2>1. recent # {} /\ start = Larger(byCount, first) BY <1>1, <1>3, <1>4, <1>11
  <2>2. first \in recent /\ first \in 1..Len(rows) /\ \A k \in recent : first <= k BY <1>5, <1>9, <2>1
  <2>3. start \in 1..Len(rows) /\ start >= byCount /\ start >= first BY <1>2, <2>1, <2>2 DEF Larger
  <2>4. Kept(rows, start, maxRows) BY <1>7, <1>8, <1>11, <2>2, <2>3
  <2>5. ASSUME NEW k \in 1..Len(rows), k < start PROVE ~Kept(rows, k, maxRows)
    <3>1. k < byCount \/ k < first BY <1>2, <2>1, <2>2, <2>5 DEF Larger
    <3>2. k < first => k \notin recent BY <2>2
    <3>. QED BY <1>2, <1>7, <1>11, <3>1, <3>2
  <2>. QED BY <2>3, <2>4, <2>5 DEF FirstKept, start
<1>. QED BY <1>10, <1>11

(* What is kept are the last rows, some if there are any, and not too many. *)
LEMMA TrimmedEnds ==
  ASSUME NEW rows \in Seq(Rows), NEW maxRows \in Nat \ {0}
  PROVE  /\ Trimmed(rows, maxRows) \in Seq(Rows)
         /\ Len(Trimmed(rows, maxRows)) <= maxRows
         /\ Ends(Trimmed(rows, maxRows), rows)
         /\ rows # <<>> => Trimmed(rows, maxRows) # <<>>
<1>. DEFINE start == StartIndex(rows, maxRows)
            l == Len(rows)
            t == SubSeq(rows, start, l)
<1>1. /\ rows = <<>> => start = 1
      /\ rows # <<>> => start \in 1..l /\ start + maxRows > l
  BY StartOfRows
<1>2. l \in Nat /\ (rows = <<>> <=> l = 0) /\ \A n \in 1..l : rows[n] \in Rows OBVIOUS
<1>3. Trimmed(rows, maxRows) = t BY DEF Trimmed
<1>. HIDE DEF start, l
<1>4. start \in 1..(l + 1) BY <1>1, <1>2
<1>5. /\ t \in Seq(Rows) /\ Len(t) = (l - start) + 1 /\ l = Len(rows)
      /\ \A n \in 1..((l - start) + 1) : t[n] = rows[start + n - 1]
  <2>1. l = Len(rows) BY DEF l
  <2>. QED BY <1>2, <1>4, <2>1
<1>. HIDE DEF t
<1>6. Ends(t, rows)
  <2>1. Len(t) <= Len(rows) BY <1>2, <1>4, <1>5
  <2>2. \A n \in 1..Len(t) : t[n] = rows[n + (Len(rows) - Len(t))]
    <3>1. \A n \in 1..Len(t) : n + (Len(rows) - Len(t)) = start + n - 1 BY <1>2, <1>4, <1>5
    <3>. QED BY <1>5, <3>1
  <2>. QED BY <2>1, <2>2 DEF Ends
<1>7. Len(t) <= maxRows BY <1>1, <1>2, <1>4, <1>5
<1>8. rows # <<>> => t # <<>> BY <1>1, <1>2, <1>5
<1>. QED BY <1>3, <1>5, <1>6, <1>7, <1>8

LEMMA AscendingStart ==
  ASSUME NEW rows \in Seq(Rows), NEW more \in Seq(Rows), Ascending(rows \o more)
  PROVE  Ascending(rows)
<1>1. Len(rows) \in Nat /\ Len(more) \in Nat OBVIOUS
<1>2. /\ rows \o more \in Seq(Rows) /\ Len(rows \o more) = Len(rows) + Len(more)
      /\ \A n \in 1..Len(rows) : (rows \o more)[n] = rows[n]
  BY JoinedParts
<1>3. \A n \in DOMAIN rows : n \in DOMAIN (rows \o more) /\ (rows \o more)[n] = rows[n] BY <1>1, <1>2, RowsSeq
<1>. QED BY <1>3 DEF Ascending

LEMMA OneFirstKept ==
  ASSUME NEW rows, Len(rows) \in Nat, NEW maxRows, NEW n, NEW k, FirstKept(rows, n, maxRows), FirstKept(rows, k, maxRows)
  PROVE  n = k
BY DEF FirstKept

(* Rows that were trimmed and grow are trimmed to what all would be trimmed to. *)
LEMMA TrimmedAgain ==
  ASSUME NEW rows \in Seq(Rows), NEW more \in Seq(Rows), NEW maxRows \in Nat \ {0}, Ascending(rows \o more)
  PROVE  Trimmed(Trimmed(rows, maxRows) \o more, maxRows) = Trimmed(rows \o more, maxRows)
<1>. USE RetentionAssumption
<1>. DEFINE kept == Trimmed(rows, maxRows)
            all == rows \o more
            some == kept \o more
            c == Len(rows) - Len(kept)
<1>1. kept \in Seq(Rows) /\ Ends(kept, rows) /\ (rows # <<>> => kept # <<>>) BY TrimmedEnds
<1>2. all \in Seq(Rows) /\ some \in Seq(Rows) BY <1>1
<1>3. Ends(some, all) BY <1>1, EndsOfJoined
<1>4. Len(all) = Len(rows) + Len(more) /\ \A n \in 1..Len(rows) : all[n] = rows[n] BY JoinedParts
<1>5. Len(some) = Len(kept) + Len(more) BY <1>1, JoinedParts
<1>6. /\ Len(rows) \in Nat /\ Len(more) \in Nat /\ Len(kept) \in Nat /\ Len(all) \in Nat /\ Len(some) \in Nat
      /\ c \in Nat /\ Len(all) = Len(some) + c
  BY <1>1, <1>2, <1>4, <1>5, RowsSeq DEF Ends
<1>7. \A n \in 1..Len(some) : some[n] = all[n + c]
  <2>1. \A n \in 1..Len(some) : some[n] = all[n + (Len(all) - Len(some))] BY <1>3 DEF Ends
  <2>2. Len(all) - Len(some) = c BY <1>6
  <2>. HIDE DEF some, all, c
  <2>. QED BY <2>1, <2>2
<1>8. CASE rows = <<>>
  <2>1. kept = <<>> BY <1>1, <1>6, <1>8 DEF Ends
  <2>. QED BY <1>8, <2>1
<1>9. CASE rows # <<>>
  <2>. DEFINE start == StartIndex(rows, maxRows)
              x == StartIndex(all, maxRows)
              y == StartIndex(some, maxRows)
  <2>1. Len(rows) # 0 /\ Len(kept) # 0 /\ all # <<>> /\ some # <<>> BY <1>1, <1>6, <1>9, <1>4, <1>5
  <2>2. Ascending(rows) /\ Ascending(all) BY AscendingStart
  <2>3. FirstKept(rows, start, maxRows) BY <1>9, <2>2, StartIsFirstKept
  <2>4. FirstKept(all, x, maxRows) BY <1>2, <2>1, <2>2, StartIsFirstKept
  <2>5. Ascending(some)
    <3>. HIDE DEF some, all, c
    <3>1. DOMAIN some = 1..Len(some) /\ DOMAIN all = 1..Len(all) BY <1>2, RowsSeq
    <3>2. \A n \in DOMAIN some : n \in Nat /\ n + c \in DOMAIN all /\ some[n] = all[n + c] BY <1>6, <1>7, <3>1
    <3>3. ASSUME NEW i \in DOMAIN some, NEW k \in DOMAIN some, i < k
          PROVE  some[i].time # None /\ some[k].time # None /\ some[i].time <= some[k].time
      <4>1. i + c \in DOMAIN all /\ k + c \in DOMAIN all /\ i + c < k + c BY <1>6, <3>2, <3>3
      <4>2. all[i + c].time # None /\ all[k + c].time # None /\ all[i + c].time <= all[k + c].time
        BY <2>2, <4>1 DEF Ascending
      <4>. QED BY <3>2, <4>2
    <3>. QED BY <3>3 DEF Ascending
  <2>6. FirstKept(some, y, maxRows) BY <1>2, <2>1, <2>5, StartIsFirstKept
  <2>7. c = start - 1
    <3>1. kept = SubSeq(rows, start, Len(rows)) BY DEF Trimmed
    <3>2. start \in 1..Len(rows) BY <2>3 DEF FirstKept
    <3>. QED BY <1>6, <3>1, <3>2
  <2>8. /\ \A n \in 1..Len(all) : all[n].time \in Int \cup {None}
        /\ \A n \in 1..Len(rows) : rows[n].time \in Int \cup {None}
    BY <1>2, RowsSeq
  <2>9. Newest(some) = Newest(all)
    <3>1. Len(some) \in 1..Len(some) BY <1>6, <2>1, <1>5
    <3>. QED BY <1>6, <1>7, <3>1 DEF Newest
  <2>. HIDE DEF start, x, y, kept, all, some, c
  <2>10. \A n \in 1..Len(some) : Kept(some, n, maxRows) <=> Kept(all, n + c, maxRows)
    <3>. SUFFICES ASSUME NEW n \in 1..Len(some) PROVE Kept(some, n, maxRows) <=> Kept(all, n + c, maxRows) OBVIOUS
    <3>1. n + maxRows > Len(some) <=> (n + c) + maxRows > Len(all) BY <1>6
    <3>. QED BY <1>7, <2>9, <3>1 DEF Kept
  <2>11. x > c
    <3>. SUFFICES ASSUME x <= c PROVE FALSE BY <1>6, <2>4 DEF FirstKept
    <3>1. x \in 1..Len(rows) /\ x \in 1..Len(all) /\ x < start /\ x < Len(rows)
      BY <1>6, <2>3, <2>4, <2>7 DEF FirstKept
    <3>2. ~Kept(rows, x, maxRows) BY <2>3, <3>1 DEF FirstKept
    <3>3. Kept(all, x, maxRows) BY <2>4 DEF FirstKept
    <3>4. x + maxRows > Len(rows) BY <1>4, <1>6, <3>1, <3>3 DEF Kept
    <3>5. all[x] = rows[x] /\ all[Len(rows)] = rows[Len(rows)] BY <1>4, <1>6, <3>1
    <3>6. Newest(all) = all[Len(all)].time /\ Newest(rows) = all[Len(rows)].time BY <3>5 DEF Newest
    <3>7. /\ Retention # 0 /\ Newest(rows) # None
          /\ all[x].time = None \/ ~(all[x].time + Retention >= Newest(rows))
      BY <3>2, <3>4, <3>5 DEF Kept
    <3>8. DOMAIN all = 1..Len(all) /\ Len(rows) \in 1..Len(all) /\ Len(all) \in 1..Len(all) BY <1>2, <1>4, <1>6, <3>1, RowsSeq
    <3>9. all[x].time # None BY <2>2, <3>1, <3>8 DEF Ascending
    <3>10. Newest(all) # None /\ Newest(rows) <= Newest(all)
      <4>1. CASE Len(rows) = Len(all) BY <2>8, <3>6, <3>7, <3>8, <4>1
      <4>2. CASE Len(rows) < Len(all) BY <2>2, <3>6, <3>8, <4>2 DEF Ascending
      <4>. QED BY <3>8, <4>1, <4>2
    <3>11. all[x].time + Retention >= Newest(all) BY <3>3, <3>7, <3>10 DEF Kept
    <3>12. all[x].time \in Int /\ Newest(all) \in Int /\ Newest(rows) \in Int
      <4>1. all[x].time \in Int \cup {None} /\ Newest(all) \in Int \cup {None} /\ Newest(rows) \in Int \cup {None}
        BY <2>8, <3>1, <3>6, <3>8
      <4>. QED BY <3>7, <3>9, <3>10, <4>1
    <3>. QED BY <3>7, <3>9, <3>10, <3>11, <3>12
  <2>12. FirstKept(some, x - c, maxRows)
    <3>1. x - c \in 1..Len(some) /\ (x - c) + c = x /\ x \in 1..Len(all) BY <1>6, <2>4, <2>11 DEF FirstKept
    <3>2. Kept(some, x - c, maxRows) BY <2>4, <2>10, <3>1 DEF FirstKept
    <3>3. ASSUME NEW k \in 1..Len(some), k < x - c PROVE ~Kept(some, k, maxRows)
      <4>1. k + c \in 1..Len(all) /\ k + c < x BY <1>6, <3>1, <3>3
      <4>. QED BY <2>4, <2>10, <4>1 DEF FirstKept
    <3>. QED BY <3>1, <3>2, <3>3 DEF FirstKept
  <2>13. y = x - c BY <1>6, <2>6, <2>12, OneFirstKept
  <2>14. SubSeq(some, y, Len(some)) = SubSeq(all, x, Len(all))
    <3>1. x \in 1..Len(all) /\ y \in 1..Len(some) BY <2>4, <2>6 DEF FirstKept
    <3>. DEFINE n == (Len(some) - y) + 1
                a == SubSeq(some, y, Len(some))
                b == SubSeq(all, x, Len(all))
    <3>2. n \in Nat /\ (Len(all) - x) + 1 = n BY <1>6, <2>13, <3>1
    <3>3. a \in Seq(Rows) /\ Len(a) = n /\ \A i \in 1..n : a[i] = some[y + i - 1] BY <1>2, <1>6, <3>1
    <3>4. b \in Seq(Rows) /\ Len(b) = n /\ \A i \in 1..n : b[i] = all[x + i - 1] BY <1>2, <1>6, <3>1, <3>2
    <3>5. \A i \in 1..n : y + i - 1 \in 1..Len(some) /\ (y + i - 1) + c = x + i - 1 BY <1>6, <2>13, <3>1
    <3>. HIDE DEF n, a, b
    <3>6. \A i \in 1..n : a[i] = b[i] BY <1>7, <3>3, <3>4, <3>5
    <3>7. a = b BY <3>2, <3>3, <3>4, <3>6
    <3>. QED BY <3>7 DEF a, b
  <2>15. Trimmed(some, maxRows) = SubSeq(some, y, Len(some)) /\ Trimmed(all, maxRows) = SubSeq(all, x, Len(all))
    BY DEF Trimmed, x, y
  <2>16. Trimmed(some, maxRows) = Trimmed(all, maxRows) BY <2>14, <2>15
  <2>. QED BY <2>16 DEF some, all, kept
<1>. QED BY <1>8, <1>9

-----------------------------------------------------------------------------
(* What arrived of a frame since its schema last changed, as frames arrive. *)

IsOf(f, key) == f.state = "data" /\ f.frame.key = key
Parts(arrived, key) ==
  [n \in DOMAIN arrived |-> IF n \in Since(arrived, key) THEN arrived[n].frame.rows ELSE <<>>]

LEMMA DataFrames ==
  ASSUME NEW f \in PageFrames, f.state = "data"
  PROVE  f.frame \in RowFrames /\ f.frame.key \in Keys /\ f.frame.schema # None /\ f.frame.rows \in Seq(Rows)
<1>1. PICK g \in RowFrames : f = DataFrame(g) BY DEF PageFrames, StatusFrame, Terminal
<1>. QED BY <1>1, PublishedFrames DEF DataFrame

LEMMA PartsFit ==
  ASSUME NEW arrived \in Seq(PageFrames), NEW key \in Keys
  PROVE  /\ Parts(arrived, key) \in [1..Len(arrived) -> Seq(Rows)]
         /\ RowsOf(arrived, key) = FlattenSeq(Parts(arrived, key))
         /\ RowsOf(arrived, key) \in Seq(Rows)
<1>1. Len(arrived) \in Nat /\ DOMAIN arrived = 1..Len(arrived) /\ \A n \in 1..Len(arrived) : arrived[n] \in PageFrames OBVIOUS
<1>2. <<>> \in Seq(Rows) OBVIOUS
<1>3. \A n \in Since(arrived, key) : arrived[n].frame.rows \in Seq(Rows)
  <2>1. \A n \in Since(arrived, key) : n \in 1..Len(arrived) /\ arrived[n].state = "data" BY <1>1 DEF Since, Mine
  <2>. QED BY <1>1, <2>1, DataFrames
<1>4. Parts(arrived, key) \in [1..Len(arrived) -> Seq(Rows)] BY <1>1, <1>2, <1>3 DEF Parts
<1>5. RowsOf(arrived, key) = FlattenSeq(Parts(arrived, key)) BY DEF RowsOf, Parts
<1>. HIDE DEF Parts
<1>6. FlattenSeq(Parts(arrived, key)) \in Seq(Rows) BY <1>1, <1>4, FlattenedSeq
<1>. QED BY <1>4, <1>5, <1>6

LEMMA AppendedArrival ==
  ASSUME NEW arrived \in Seq(PageFrames), NEW f \in PageFrames
  PROVE  /\ Append(arrived, f) \in Seq(PageFrames)
         /\ Len(arrived) \in Nat /\ DOMAIN arrived = 1..Len(arrived)
         /\ Len(Append(arrived, f)) = Len(arrived) + 1 /\ DOMAIN Append(arrived, f) = 1..(Len(arrived) + 1)
         /\ \A n \in 1..Len(arrived) : Append(arrived, f)[n] = arrived[n]
         /\ Append(arrived, f)[Len(arrived) + 1] = f
OBVIOUS

(* The rows after another arrival, as the arrivals that count before it count on. *)
LEMMA RowsOfAppended ==
  ASSUME NEW arrived \in Seq(PageFrames), NEW f \in PageFrames, NEW key \in Keys,
         NEW rows \in Seq(Rows), rows = IF IsOf(f, key) THEN f.frame.rows ELSE <<>>,
         Len(arrived) + 1 \in Since(Append(arrived, f), key) <=> IsOf(f, key)
  PROVE  /\ Since(Append(arrived, f), key) \cap (1..Len(arrived)) = Since(arrived, key)
              => RowsOf(Append(arrived, f), key) = RowsOf(arrived, key) \o rows
         /\ Since(Append(arrived, f), key) \cap (1..Len(arrived)) = {}
              => RowsOf(Append(arrived, f), key) = rows
<1>. DEFINE N == Len(arrived)
            all == Append(arrived, f)
            old == Parts(arrived, key)
            new == Parts(all, key)
            M == N + 1
<1>1. /\ all \in Seq(PageFrames) /\ N \in Nat /\ DOMAIN arrived = 1..N
      /\ Len(all) = N + 1 /\ DOMAIN all = 1..(N + 1)
      /\ \A n \in 1..N : all[n] = arrived[n]
      /\ all[N + 1] = f
  BY AppendedArrival
<1>2. old \in [1..N -> Seq(Rows)] /\ new \in [1..M -> Seq(Rows)] BY <1>1, PartsFit
<1>3. RowsOf(arrived, key) = FlattenSeq(old) /\ RowsOf(all, key) = FlattenSeq(new) BY <1>1, PartsFit
<1>4. \A n \in 1..N : /\ old[n] = IF n \in Since(arrived, key) THEN arrived[n].frame.rows ELSE <<>>
                      /\ new[n] = IF n \in Since(all, key) THEN arrived[n].frame.rows ELSE <<>>
  BY <1>1 DEF Parts
<1>5. new[M] = rows BY <1>1 DEF Parts
<1>6. M = N + 1 /\ M \in Nat BY <1>1
<1>. HIDE DEF N, all, old, new, M
<1>7. ASSUME Since(all, key) \cap (1..N) = Since(arrived, key) PROVE RowsOf(all, key) = RowsOf(arrived, key) \o rows
  <2>1. SameUpTo(new, old, N) BY <1>4, <1>7 DEF SameUpTo
  <2>2. FlattenSeq(new) = FlattenSeq(old) \o new[M]
    <3>1. N \in Nat /\ new \in [1..M -> Seq(Rows)] /\ old \in [1..N -> Seq(Rows)] BY <1>1, <1>2
    <3>. QED BY <1>6, <2>1, <3>1, FlattenedAppended, SMTT(30)
  <2>. QED BY <1>3, <1>5, <2>2
<1>8. ASSUME Since(all, key) \cap (1..N) = {} PROVE RowsOf(all, key) = rows
  <2>1. AllEmptyUpTo(new, N) BY <1>4, <1>8 DEF AllEmptyUpTo
  <2>2. N \in Nat /\ new \in [1..M -> Seq(Rows)] BY <1>1, <1>2
  <2>3. FlattenSeq(new) = new[M] BY <1>6, <2>1, <2>2, FlattenedLast
  <2>. QED BY <1>3, <1>5, <2>3
<1>. QED BY <1>7, <1>8 DEF N, all

(* A status or another frame's rows change nothing. *)
LEMMA OthersArrive ==
  ASSUME NEW arrived \in Seq(PageFrames), NEW f \in PageFrames, NEW key \in Keys, ~IsOf(f, key)
  PROVE  /\ Since(Append(arrived, f), key) = Since(arrived, key)
         /\ RowsOf(Append(arrived, f), key) = RowsOf(arrived, key)
<1>. DEFINE N == Len(arrived)
            all == Append(arrived, f)
<1>1. /\ N \in Nat /\ DOMAIN arrived = 1..N /\ DOMAIN all = 1..(N + 1)
      /\ \A n \in 1..N : all[n] = arrived[n]
      /\ all[N + 1] = f
  BY AppendedArrival
<1>. HIDE DEF N, all
<1>2. Mine(all, key) = Mine(arrived, key) BY <1>1 DEF Mine, IsOf
<1>3. Mine(arrived, key) \subseteq 1..N BY <1>1 DEF Mine
<1>4. Since(all, key) = Since(arrived, key) BY <1>1, <1>2, <1>3 DEF Since
<1>5. Since(all, key) \cap (1..N) = Since(arrived, key) /\ N + 1 \notin Since(all, key) BY <1>1, <1>3, <1>4 DEF Since
<1>6. <<>> \in Seq(Rows) OBVIOUS
<1>7. RowsOf(all, key) = RowsOf(arrived, key) \o <<>> BY <1>5, <1>6, RowsOfAppended DEF N, all
<1>8. RowsOf(arrived, key) \in Seq(Rows) BY PartsFit
<1>9. RowsOf(arrived, key) \o <<>> = RowsOf(arrived, key) BY <1>8
<1>. QED BY <1>4, <1>7, <1>9 DEF all

LEMMA RowsArrive ==
  ASSUME NEW arrived \in Seq(PageFrames), NEW f \in PageFrames, NEW key \in Keys, IsOf(f, key)
  PROVE  /\ \A n \in Since(Append(arrived, f), key) : Append(arrived, f)[n].frame.schema = f.frame.schema
         /\ (\A n \in Since(arrived, key) : arrived[n].frame.schema = f.frame.schema)
              => RowsOf(Append(arrived, f), key) = RowsOf(arrived, key) \o f.frame.rows
         /\ (\A n \in Since(arrived, key) : arrived[n].frame.schema # f.frame.schema)
              => RowsOf(Append(arrived, f), key) = f.frame.rows
<1>. DEFINE N == Len(arrived)
            all == Append(arrived, f)
            schema == f.frame.schema
            rows == f.frame.rows
<1>1. /\ N \in Nat /\ DOMAIN arrived = 1..N /\ DOMAIN all = 1..(N + 1)
      /\ \A n \in 1..N : all[n] = arrived[n]
      /\ all[N + 1] = f
  BY AppendedArrival
<1>2. rows \in Seq(Rows) BY DataFrames DEF IsOf
<1>3. all[N + 1].frame.schema = schema BY <1>1
<1>. HIDE DEF N, all, schema, rows
<1>4. Mine(all, key) = Mine(arrived, key) \cup {N + 1} /\ Mine(arrived, key) \subseteq 1..N BY <1>1 DEF Mine, IsOf
<1>5. N + 1 \in Since(all, key)
  <2>1. N + 1 \in Mine(all, key) /\ \A k \in Mine(all, key) : ~(k > N + 1) BY <1>1, <1>4
  <2>. QED BY <2>1 DEF Since
<1>6. \A n \in Since(all, key) : all[n].frame.schema = schema
  <2>. SUFFICES ASSUME NEW n \in Since(all, key) PROVE all[n].frame.schema = schema OBVIOUS
  <2>1. n \in Mine(all, key) /\ \A k \in Mine(all, key) : k > n => all[k].frame.schema = all[n].frame.schema BY DEF Since
  <2>2. n = N + 1 \/ N + 1 > n BY <1>1, <1>4, <2>1
  <2>. QED BY <1>3, <1>4, <2>1, <2>2
<1>7. ASSUME NEW n \in 1..N PROVE n \in Since(all, key) <=> n \in Since(arrived, key) /\ arrived[n].frame.schema = schema
  <2>1. all[n] = arrived[n] /\ N + 1 > n /\ n # N + 1 BY <1>1
  <2>2. \A k \in Mine(arrived, key) : all[k] = arrived[k] BY <1>1, <1>4
  <2>. QED BY <1>3, <1>4, <2>1, <2>2 DEF Since
<1>8. Since(arrived, key) \subseteq 1..N BY <1>4 DEF Since
<1>9. /\ Since(all, key) \cap (1..N) = Since(arrived, key) => RowsOf(all, key) = RowsOf(arrived, key) \o rows
      /\ Since(all, key) \cap (1..N) = {} => RowsOf(all, key) = rows
  BY <1>2, <1>5, RowsOfAppended DEF N, all, rows
<1>10. ASSUME \A n \in Since(arrived, key) : arrived[n].frame.schema = schema
       PROVE  RowsOf(all, key) = RowsOf(arrived, key) \o rows
  BY <1>7, <1>8, <1>9, <1>10
<1>11. ASSUME \A n \in Since(arrived, key) : arrived[n].frame.schema # schema PROVE RowsOf(all, key) = rows
  <2>1. Since(all, key) \cap (1..N) = {} BY <1>7, <1>11
  <2>. QED BY <1>9, <2>1
<1>. QED BY <1>6, <1>10, <1>11 DEF N, all, schema, rows

(* What the page shows of a frame, against all that counts: its last rows, no *)
(* more than asked for, and with one limit what trimming once would keep.     *)
RowsFit(rows, since, maxRows, wanted) ==
  /\ rows \in Seq(Rows)
  /\ Len(rows) <= maxRows
  /\ Ends(rows, since)
  /\ since # <<>> => rows # <<>>
  /\ wanted \subseteq {maxRows} /\ Ascending(since) => rows = Trimmed(since, maxRows)

LEMMA FreshFits ==
  ASSUME NEW more \in Seq(Rows), NEW maxRows \in Nat \ {0}, NEW wanted
  PROVE  RowsFit(Trimmed(more, maxRows), more, maxRows, wanted)
BY TrimmedEnds DEF RowsFit

LEMMA GrownFits ==
  ASSUME NEW rows, NEW since \in Seq(Rows), NEW more \in Seq(Rows), NEW maxRows \in Nat \ {0}, NEW wanted,
         RowsFit(rows, since, maxRows, wanted)
  PROVE  RowsFit(Trimmed(rows \o more, maxRows), since \o more, maxRows, wanted)
<1>. DEFINE some == rows \o more
            all == since \o more
            kept == Trimmed(some, maxRows)
<1>1. rows \in Seq(Rows) /\ Ends(rows, since) /\ (since # <<>> => rows # <<>>) BY DEF RowsFit
<1>2. some \in Seq(Rows) /\ all \in Seq(Rows) /\ Ends(some, all) BY <1>1, EndsOfJoined
<1>3. /\ kept \in Seq(Rows) /\ Len(kept) <= maxRows /\ Ends(kept, some)
      /\ some # <<>> => kept # <<>>
  BY <1>2, TrimmedEnds
<1>4. all # <<>> => some # <<>> BY <1>1
<1>5. ASSUME wanted \subseteq {maxRows}, Ascending(all) PROVE kept = Trimmed(all, maxRows)
  <2>1. Ascending(since) BY <1>5, AscendingStart
  <2>2. rows = Trimmed(since, maxRows) BY <1>5, <2>1 DEF RowsFit
  <2>. QED BY <1>5, <2>2, TrimmedAgain
<1>. HIDE DEF some, all, kept
<1>6. Ends(kept, all) BY <1>2, <1>3, EndsOfEnds
<1>7. RowsFit(kept, all, maxRows, wanted) BY <1>3, <1>4, <1>5, <1>6 DEF RowsFit
<1>. QED BY <1>7 DEF some, all, kept

LEMMA RaisedFits ==
  ASSUME NEW rows, NEW since, NEW old \in Nat, NEW maxRows \in Nat, NEW wanted, NEW limit \in Nat,
         RowsFit(rows, since, old, wanted), old \in wanted, limit = Larger(old, maxRows)
  PROVE  RowsFit(rows, since, limit, wanted \cup {maxRows})
<1>1. Len(rows) <= limit
  <2>1. Len(rows) \in Nat /\ Len(rows) <= old BY DEF RowsFit
  <2>2. old <= limit BY DEF Larger
  <2>. QED BY <2>1, <2>2
<1>2. wanted \cup {maxRows} \subseteq {limit} => wanted \subseteq {old} /\ limit = old OBVIOUS
<1>. QED BY <1>1, <1>2 DEF RowsFit

LEMMA NothingYetFits == ASSUME NEW maxRows \in Nat, NEW wanted PROVE RowsFit(<<>>, <<>>, maxRows, wanted)
<1>1. <<>> \in Seq(Rows) /\ Len(<<>>) = 0 OBVIOUS
<1>2. Ends(<<>>, <<>>) BY DEF Ends
<1>3. Trimmed(<<>>, maxRows) = <<>>
  <2>1. StartIndex(<<>>, maxRows) = Larger(1, (0 - maxRows) + 1) BY <1>1 DEF StartIndex
  <2>2. Larger(1, (0 - maxRows) + 1) = 1 BY DEF Larger
  <2>3. Trimmed(<<>>, maxRows) = SubSeq(<<>>, 1, 0) BY <1>1, <2>1, <2>2 DEF Trimmed
  <2>. QED BY <2>3
<1>. QED BY <1>1, <1>2, <1>3 DEF RowsFit

-----------------------------------------------------------------------------
(* What was heard before the end. *)

Ended == \E n \in DOMAIN heard : heard[n].state \in Terminal

LEMMA EndStays ==
  ASSUME heard \in Seq(PageFrames), NEW f \in PageFrames, heard' = Append(heard, f)
  PROVE  /\ heard' \in Seq(PageFrames)
         /\ Ended' <=> Ended \/ f.state \in Terminal
         /\ Ended => BeforeTheEnd' = BeforeTheEnd
         /\ ~Ended => BeforeTheEnd = heard /\ BeforeTheEnd' = Append(heard, f)
<1>. DEFINE N == Len(heard)
            first(ends) == CHOOSE n \in ends : \A k \in ends : n <= k
            ends == {n \in DOMAIN heard : heard[n].state \in Terminal}
            later == {n \in DOMAIN heard' : heard'[n].state \in Terminal}
<1>1. /\ heard' \in Seq(PageFrames)
      /\ N \in Nat /\ DOMAIN heard = 1..N
      /\ Len(heard') = N + 1 /\ DOMAIN heard' = 1..(N + 1)
      /\ \A n \in 1..N : heard'[n] = heard[n]
      /\ heard'[N + 1] = f
  BY AppendedArrival
<1>. HIDE DEF N
<1>2. ends \subseteq 1..N /\ later = ends \cup (IF f.state \in Terminal THEN {N + 1} ELSE {})
  <2>1. ends \subseteq 1..N BY <1>1
  <2>2. \A n \in 1..N : n \in later <=> n \in ends BY <1>1
  <2>3. N + 1 \in later <=> f.state \in Terminal BY <1>1
  <2>4. later \subseteq 1..(N + 1) BY <1>1
  <2>5. \A n \in 1..(N + 1) : n \in 1..N \/ n = N + 1 BY <1>1
  <2>6. \A n \in 1..N : n # N + 1 BY <1>1
  <2>. HIDE DEF ends, later
  <2>. QED BY <2>1, <2>2, <2>3, <2>4, <2>5, <2>6
<1>3. Ended <=> ends # {} BY DEF Ended
<1>4. Ended' <=> later # {} BY DEF Ended
<1>5. BeforeTheEnd = IF ends = {} THEN heard ELSE SubSeq(heard, 1, first(ends)) BY DEF BeforeTheEnd
<1>6. BeforeTheEnd' = IF later = {} THEN heard' ELSE SubSeq(heard', 1, first(later)) BY DEF BeforeTheEnd
<1>7. ASSUME NEW s \in SUBSET Nat, NEW n \in s, \A k \in s : n <= k PROVE first(s) = n
  <2>. DEFINE m == first(s)
  <2>1. m \in s /\ \A k \in s : m <= k BY <1>7
  <2>. HIDE DEF m
  <2>2. m = n BY <1>7, <2>1
  <2>. QED BY <2>2 DEF m
<1>8. Ended' <=> Ended \/ f.state \in Terminal BY <1>2, <1>3, <1>4
<1>. HIDE DEF ends, later, first
<1>9. ASSUME Ended PROVE BeforeTheEnd' = BeforeTheEnd
  <2>1. ends \in SUBSET Nat /\ ends # {} /\ later \in SUBSET Nat BY <1>1, <1>2, <1>3, <1>9
  <2>2. PICK n \in ends : \A k \in ends : n <= k BY <2>1, HasLeast
  <2>3. n \in later /\ \A k \in later : n <= k BY <1>1, <1>2, <2>1, <2>2
  <2>4. first(ends) = n /\ first(later) = n BY <1>7, <2>1, <2>2, <2>3
  <2>5. n \in 1..N /\ n \in 1..(N + 1) BY <1>1, <1>2, <2>2
  <2>6. SubSeq(heard', 1, n) = SubSeq(heard, 1, n) BY <1>1, <2>5 DEF N
  <2>. QED BY <1>5, <1>6, <2>2, <2>3, <2>4, <2>6
<1>10. ASSUME ~Ended PROVE BeforeTheEnd = heard /\ BeforeTheEnd' = Append(heard, f)
  <2>1. BeforeTheEnd = heard BY <1>3, <1>5, <1>10
  <2>2. CASE f.state \notin Terminal BY <1>2, <1>3, <1>6, <1>10, <2>1, <2>2
  <2>3. CASE f.state \in Terminal
    <3>1. later = {N + 1} /\ N + 1 \in Nat BY <1>1, <1>2, <1>3, <1>10, <2>3
    <3>2. first(later) = N + 1 BY <1>7, <3>1
    <3>3. SubSeq(heard', 1, N + 1) = heard' BY <1>1
    <3>. QED BY <1>6, <2>1, <3>1, <3>2, <3>3
  <2>. QED BY <2>1, <2>2, <2>3
<1>. QED BY <1>1, <1>8, <1>9, <1>10

-----------------------------------------------------------------------------
(* The runs, kdb+ and the page. *)

Messages == [kind : {"reply", "fail", "data", "bad"} \cup Terminal, run : Runs, frames : Contents]

Types ==
  /\ pc \in [Runs -> {"idle", "dial", "start", "started", "check", "read", "data", "stop", "ended"}]
  /\ ctx \in [Runs -> {"none", "live", "ended"}]
  /\ watcher \in [Runs -> {"none", "spawned", "waiting", "stopping", "closing", "gone"}]
  /\ link \in [Runs -> {"none", "open", "broken", "closed"}]
  /\ handle \in [Runs -> Handles \cup {None}]
  /\ inbox \in [Runs -> Seq(Messages)]
  /\ owner \in [Handles -> Runs \cup {None, Pool}]
  /\ asked \subseteq Runs
  /\ reg \in [run : Runs, handle : Handles] \cup {None}
  /\ pubs \in Nat
  /\ left \subseteq Runs /\ robbed \subseteq Runs
  /\ late \in [Runs -> SUBSET Runs]

Registered(r) == reg # None /\ reg.run = r

(* kdb+ keeps the handle of a connection that works, or that it has yet to read from. *)
HandleIsKept ==
  \A r \in Runs : link[r] = "open" \/ r \in asked => handle[r] \in Handles /\ owner[handle[r]] = r

(* The messages a run has yet to read. *)
Unread(r) == Elements(inbox[r])

(* What goes with the places of a run and its watcher. *)
Places ==
  \A r \in Runs :
    /\ pc[r] = "idle" => ctx[r] = "none"
    /\ pc[r] \in {"idle", "dial"} => link[r] = "none" /\ r \notin asked /\ ~Registered(r) /\ Unread(r) = {}
    /\ pc[r] = "start" => link[r] \in {"open", "broken"}
    /\ link[r] = "broken" => r \in left
    /\ pc[r] \notin {"idle", "dial", "start"} => r \in left \/ r \notin asked
    /\ watcher[r] # "none" => pc[r] \notin {"idle", "dial", "start", "started"}
    /\ watcher[r] \in {"stopping", "closing"} => ctx[r] = "ended"
    /\ watcher[r] = "closing" /\ Registered(r) => r \in left
    /\ pc[r] = "ended" => watcher[r] # "waiting"

(* An answer is the run's own, and the last it gets; a refused or ended one is *)
(* registered no more.                                                         *)
Answers ==
  \A r \in Runs : \A m \in Unread(r) :
    /\ m.kind \in {"reply", "fail"} => m.run = r /\ r \notin asked
    /\ m.kind \in {"fail"} \cup Terminal /\ m.run = r => ~Registered(r) /\ r \notin asked

(* A registration is that of a run that asked, with a connection that works. *)
Registration ==
  reg # None =>
    /\ reg.run \notin asked
    /\ reg.handle = handle[reg.run] /\ reg.handle \in Handles
    /\ link[reg.run] = "open" \/ reg.run \in left

(* Of two runs that have begun, the later began when the earlier was wanted no *)
(* more, and what the earlier can still do to the ID made it late.             *)
Quiet(e) == pc[e] = "ended" /\ e \notin asked /\ watcher[e] \notin {"spawned", "stopping"}
OneWanted ==
  \A r \in Runs, e \in Runs :
    e < r =>
      /\ pc[r] # "idle" => e \in late[r] \/ Quiet(e)
      /\ pc[e] \notin {"idle", "ended"} /\ ctx[e] = "live" => pc[r] = "idle"
      /\ pc[e] = "idle" => pc[r] = "idle"

(* A run that was answered and works is registered, from its answer on. *)
Waits(r) ==
  /\ pc[r] \in {"started", "check", "read", "data"} \/ (pc[r] = "start" /\ \E m \in Unread(r) : m.kind = "reply")
  /\ ctx[r] = "live"
  /\ link[r] = "open"
  /\ r \notin left
  /\ \A m \in Unread(r) : m.kind \notin Terminal

WaitsRegistered == \A r \in Runs : Waits(r) => Registered(r) \/ r \in robbed

StreamInv == Types /\ HandleIsKept /\ Places /\ Answers /\ Registration /\ OneWanted /\ WaitsRegistered

USE StreamAssumption

-----------------------------------------------------------------------------
(* The elements of a sequence that is appended to, read from or cut. *)
LEMMA ElementsAppend ==
  ASSUME NEW S, NEW s \in Seq(S), NEW m \in S
  PROVE  Append(s, m) \in Seq(S) /\ Elements(Append(s, m)) = Elements(s) \cup {m}
<1>1. Append(s, m) \in Seq(S) /\ Len(Append(s, m)) = Len(s) + 1 /\ Len(s) \in Nat OBVIOUS
<1>2. \A k \in 1..Len(s) : Append(s, m)[k] = s[k] OBVIOUS
<1>3. Append(s, m)[Len(s) + 1] = m OBVIOUS
<1>4. DOMAIN Append(s, m) = 1..Len(s) \cup {Len(s) + 1} /\ DOMAIN s = 1..Len(s) BY <1>1
<1>. QED BY <1>1, <1>2, <1>3, <1>4 DEF Elements

LEMMA ElementsTail ==
  ASSUME NEW S, NEW s \in Seq(S), s # <<>>
  PROVE  /\ Tail(s) \in Seq(S) /\ Head(s) \in S /\ Head(s) \in Elements(s)
         /\ Elements(s) = Elements(Tail(s)) \cup {Head(s)}
<1>1. Tail(s) \in Seq(S) /\ Head(s) \in S /\ Head(s) = s[1] /\ 1 \in DOMAIN s OBVIOUS
<1>2. \A k \in DOMAIN Tail(s) : k + 1 \in DOMAIN s /\ Tail(s)[k] = s[k + 1] OBVIOUS
<1>3. \A k \in DOMAIN s : k # 1 => k - 1 \in DOMAIN Tail(s) /\ s[k] = Tail(s)[k - 1] OBVIOUS
<1>4. Elements(Tail(s)) \subseteq Elements(s) BY <1>2 DEF Elements
<1>5. Elements(s) \subseteq Elements(Tail(s)) \cup {Head(s)} BY <1>1, <1>3 DEF Elements
<1>6. Head(s) \in Elements(s) BY <1>1 DEF Elements
<1>. QED BY <1>1, <1>4, <1>5, <1>6

LEMMA ElementsPrefix ==
  ASSUME NEW S, NEW s \in Seq(S), NEW n \in 0..Len(s)
  PROVE  SubSeq(s, 1, n) \in Seq(S) /\ Elements(SubSeq(s, 1, n)) \subseteq Elements(s)
<1>1. DOMAIN SubSeq(s, 1, n) = 1..n /\ \A k \in 1..n : SubSeq(s, 1, n)[k] = s[k] /\ k \in DOMAIN s OBVIOUS
<1>2. \A k \in 1..n : s[k] \in S OBVIOUS
<1>3. SubSeq(s, 1, n) \in Seq(S) BY <1>2
<1>. QED BY <1>1, <1>3 DEF Elements

(* What is pushed arrives at the run that has the handle, if its connection works. *)
LEMMA Pushed ==
  ASSUME Types, NEW h \in Handles, NEW m \in Messages, Push(h, m)
  PROVE  /\ inbox' \in [Runs -> Seq(Messages)]
         /\ \A r \in Runs : Elements(inbox'[r]) =
              IF owner[h] = r /\ link[r] = "open" THEN Elements(inbox[r]) \cup {m} ELSE Elements(inbox[r])
<1>1. CASE owner[h] \in Runs /\ link[owner[h]] = "open"
  <2>. DEFINE o == owner[h]
  <2>1. inbox[o] \in Seq(Messages) /\ inbox \in [Runs -> Seq(Messages)] BY <1>1 DEF Types
  <2>2. inbox' = [inbox EXCEPT ![o] = Append(inbox[o], m)] BY <1>1 DEF Push
  <2>3. Append(inbox[o], m) \in Seq(Messages) /\ Elements(Append(inbox[o], m)) = Elements(inbox[o]) \cup {m}
    BY <2>1, ElementsAppend
  <2>. HIDE DEF o
  <2>4. o \in Runs /\ o = owner[h] /\ link[o] = "open" BY <1>1 DEF o
  <2>. QED BY <2>1, <2>2, <2>3, <2>4
<1>2. CASE ~(owner[h] \in Runs /\ link[owner[h]] = "open") BY <1>2 DEF Push, Types
<1>. QED BY <1>1, <1>2

(* What the run that reads its first message has left. *)
LEMMA Read ==
  ASSUME Types, NEW r \in Runs, inbox[r] # <<>>
  PROVE  /\ Tail(inbox[r]) \in Seq(Messages)
         /\ Head(inbox[r]) \in Messages /\ Head(inbox[r]) \in Unread(r)
         /\ Unread(r) = Elements(Tail(inbox[r])) \cup {Head(inbox[r])}
BY ElementsTail DEF Types, Unread

(* A run that can start or stop takes the registration of no run that waits *)
(* but a later one, and robs it.                                            *)
LEMMA Robbing ==
  ASSUME StreamInv, NEW e \in Runs, NEW q \in Runs, e # q,
         pc[e] # "idle", ~Quiet(e), Waits(q), Registered(q), RobsLater(e)
  PROVE  q \in robbed'
<1>1. pc[q] \notin {"idle", "ended"} /\ ctx[q] = "live" BY DEF Waits
<1>2. e < q BY <1>1 DEF StreamInv, OneWanted, Runs
<1>3. e \in late[q] BY <1>1, <1>2 DEF StreamInv, OneWanted
<1>. QED BY <1>3 DEF RobsLater, Registered

-----------------------------------------------------------------------------
(* A run that returns: it is not registered, or it left. *)
LEMMA ReturnsKeeps ==
  ASSUME StreamInv, NEW r \in Runs, Returns(r), pc[r] \notin {"idle", "dial"},
         UNCHANGED <<ctx, handle, owner, asked, reg, pubs, late, robbed>>,
         left' = left \/ left' = left \cup {r},
         Registered(r) \/ r \in asked => r \in left'
  PROVE  StreamInv'
<1>0. Types /\ HandleIsKept /\ Places /\ Answers /\ Registration /\ OneWanted /\ WaitsRegistered BY DEF StreamInv
<1>1. inbox'[r] = <<>> /\ \A q \in Runs : q # r => inbox'[q] = inbox[q] BY <1>0 DEF Types, Returns
<1>2. /\ pc'[r] = "ended" /\ link'[r] = "closed" /\ watcher'[r] = IF watcher[r] = "waiting" THEN "gone" ELSE watcher[r]
      /\ \A q \in Runs : q # r => pc'[q] = pc[q] /\ link'[q] = link[q] /\ watcher'[q] = watcher[q]
  BY <1>0 DEF Types, Returns, Goes
<1>3. left \subseteq left' /\ \A q \in Runs : q # r => (q \in left' <=> q \in left) OBVIOUS
<1>4. Types'
  <2>1. <<>> \in Seq(Messages) OBVIOUS
  <2>. QED BY <1>0, <2>1 DEF Types, Returns, Goes
<1>5. HandleIsKept' BY <1>0, <1>2 DEF HandleIsKept
<1>6. Places'
  <2>. SUFFICES ASSUME NEW q \in Runs PROVE Places!(q)' BY DEF Places
  <2>1. CASE q = r BY <1>0, <1>2, <2>1 DEF Places, Registered
  <2>2. CASE q # r BY <1>0, <1>1, <1>2, <1>3, <2>2 DEF Places, Registered, Unread
  <2>. QED BY <2>1, <2>2
<1>7. Answers' BY <1>0, <1>1, ElementsEmpty DEF Answers, Unread, Registered
<1>8. Registration' BY <1>0, <1>2, <1>3 DEF Registration, Registered, Types
<1>9. OneWanted' BY <1>0, <1>2 DEF OneWanted, Quiet, Types
<1>10. WaitsRegistered'
  <2>1. \A q \in Runs : Waits(q)' => q # r /\ Waits(q) BY <1>1, <1>2, <1>3 DEF Waits, Unread
  <2>. QED BY <1>0, <2>1 DEF WaitsRegistered, Registered
<1>. QED BY <1>4, <1>5, <1>6, <1>7, <1>8, <1>9, <1>10 DEF StreamInv

(* A run that goes on from start, having read its first message or none. *)
LEMMA MovesKeeps ==
  ASSUME StreamInv, NEW r \in Runs, NEW place \in {"started", "check", "read", "data", "stop"},
         Goes(r, place), pc[r] \notin {"idle", "dial", "stop", "ended"}, place = "started" => pc[r] = "start",
         UNCHANGED <<ctx, link, handle, owner, asked, reg, pubs, late, robbed>>,
         watcher' = watcher \/ (watcher' = [watcher EXCEPT ![r] = "spawned"] /\ place = "check"),
         left' = left \/ left' = left \cup {r},
         \/ inbox' = inbox /\ pc[r] # "start"
         \/ /\ inbox[r] # <<>> /\ inbox' = [inbox EXCEPT ![r] = Tail(@)]
            /\ Head(inbox[r]).kind \notin Terminal \/ r \in left'
            /\ pc[r] = "start" => Head(inbox[r]).kind = "reply" \/ r \in left'
  PROVE  StreamInv'
<1>0. Types /\ HandleIsKept /\ Places /\ Answers /\ Registration /\ OneWanted /\ WaitsRegistered BY DEF StreamInv
<1>1. inbox[r] # <<>> =>
        /\ Tail(inbox[r]) \in Seq(Messages)
        /\ Head(inbox[r]) \in Unread(r) /\ Unread(r) = Elements(Tail(inbox[r])) \cup {Head(inbox[r])}
  BY <1>0, Read
<1>2. inbox' \in [Runs -> Seq(Messages)] BY <1>0, <1>1 DEF Types
<1>3. \A q \in Runs : q # r => inbox'[q] = inbox[q] BY <1>0 DEF Types
<1>4. Unread(r)' \subseteq Unread(r) BY <1>0, <1>1 DEF Types, Unread
<1>5. /\ pc'[r] = place /\ \A q \in Runs : q # r => pc'[q] = pc[q] /\ watcher'[q] = watcher[q]
      /\ watcher'[r] = watcher[r] \/ (watcher'[r] = "spawned" /\ place = "check")
  BY <1>0 DEF Types, Goes
<1>6. left \subseteq left' /\ \A q \in Runs : q # r => (q \in left' <=> q \in left) OBVIOUS
<1>7. pc[r] = "start" => r \in left' \/ r \notin asked BY <1>0, <1>1 DEF Answers
<1>8. Types'
  <2>1. pc' \in [Runs -> {"idle", "dial", "start", "started", "check", "read", "data", "stop", "ended"}]
    BY <1>0 DEF Types, Goes
  <2>2. watcher' \in [Runs -> {"none", "spawned", "waiting", "stopping", "closing", "gone"}]
    BY <1>0 DEF Types
  <2>. QED BY <1>0, <1>2, <2>1, <2>2 DEF Types
<1>9. HandleIsKept' BY <1>0 DEF HandleIsKept
<1>10. Places'
  <2>. SUFFICES ASSUME NEW q \in Runs PROVE Places!(q)' BY DEF Places
  <2>1. CASE q = r BY <1>0, <1>5, <1>6, <1>7, <2>1 DEF Places, Registered
  <2>2. CASE q # r BY <1>0, <1>3, <1>5, <1>6, <2>2 DEF Places, Registered, Unread
  <2>. QED BY <2>1, <2>2
<1>11. Answers' BY <1>0, <1>3, <1>4 DEF Answers, Unread, Registered
<1>12. Registration' BY <1>0, <1>6 DEF Registration
<1>13. OneWanted' BY <1>0, <1>5 DEF OneWanted, Quiet, Types
<1>14. WaitsRegistered'
  <2>1. \A q \in Runs : q # r /\ Waits(q)' => Waits(q) BY <1>3, <1>5, <1>6 DEF Waits, Unread
  <2>2. ASSUME Waits(r)' PROVE Waits(r)
    <3>1. /\ r \notin left' /\ ctx[r] = "live" /\ link[r] = "open"
          /\ place \in {"started", "check", "read", "data"}
          /\ \A m \in Unread(r)' : m.kind \notin Terminal
      BY <2>2, <1>5 DEF Waits
    <3>2. \A m \in Unread(r) : m.kind \notin Terminal BY <1>0, <1>1, <3>1 DEF Unread, Types
    <3>3. pc[r] = "start" => \E m \in Unread(r) : m.kind = "reply" BY <1>1, <3>1
    <3>4. pc[r] \in {"start", "started", "check", "read", "data"}
      BY <1>0, <3>1 DEF Types
    <3>. QED BY <1>6, <3>1, <3>2, <3>3, <3>4 DEF Waits
  <2>. QED BY <1>0, <2>1, <2>2 DEF WaitsRegistered, Registered
<1>. QED BY <1>8, <1>9, <1>10, <1>11, <1>12, <1>13, <1>14 DEF StreamInv

-----------------------------------------------------------------------------
(* The code of a run. *)

LEMMA BeginKeeps ==
  ASSUME StreamInv, NEW r \in Runs, Begin(r)
  PROVE  StreamInv'
<1>0. Types /\ HandleIsKept /\ Places /\ Answers /\ Registration /\ OneWanted /\ WaitsRegistered BY DEF StreamInv
<1>1. UNCHANGED <<watcher, link, inbox, handle, owner, asked, reg, pubs, left, robbed>>
  BY DEF Begin, kdbVars
<1>2. pc[r] = "idle" /\ pc'[r] \in {"dial", "ended"} /\ \A q \in Runs : q # r => pc'[q] = pc[q] /\ ctx'[q] = ctx[q]
  BY <1>0 DEF Types, Begin, Goes
<1>3. link[r] = "none" /\ r \notin asked /\ ~Registered(r) /\ watcher[r] = "none"
  BY <1>0, <1>2 DEF Places, Types
<1>4. /\ \A q \in Runs : q # r => late'[q] = late[q]
      /\ late'[r] \subseteq Runs
      /\ \A e \in Runs : e < r => e \in late'[r] \/ Quiet(e)
      /\ \A e \in Runs : e < r => pc[e] = "ended" \/ ctx[e] = "ended"
  BY <1>0 DEF Types, Begin, Quiet, Runs
<1>5. Types'
  <2>1. pc' \in [Runs -> {"idle", "dial", "start", "started", "check", "read", "data", "stop", "ended"}]
    BY <1>0 DEF Types, Begin, Goes
  <2>2. ctx' \in [Runs -> {"none", "live", "ended"}] BY <1>0 DEF Types, Begin
  <2>3. late' \in [Runs -> SUBSET Runs] BY <1>0, <1>4 DEF Types, Begin
  <2>. QED BY <1>0, <1>1, <2>1, <2>2, <2>3 DEF Types
<1>6. HandleIsKept' BY <1>0, <1>1 DEF HandleIsKept
<1>7. Places'
  <2>. SUFFICES ASSUME NEW q \in Runs PROVE Places!(q)' BY DEF Places
  <2>1. CASE q = r BY <1>0, <1>1, <1>2, <1>3, <2>1 DEF Places, Registered, Unread
  <2>2. CASE q # r BY <1>0, <1>1, <1>2, <2>2 DEF Places, Registered, Unread
  <2>. QED BY <2>1, <2>2
<1>8. Answers' BY <1>0, <1>1 DEF Answers, Unread, Registered
<1>9. Registration' BY <1>0, <1>1 DEF Registration
<1>10. OneWanted'
  <2>. SUFFICES ASSUME NEW q \in Runs, NEW e \in Runs, e < q
                PROVE  /\ pc'[q] # "idle" => e \in late'[q] \/ Quiet(e)'
                       /\ pc'[e] \notin {"idle", "ended"} /\ ctx'[e] = "live" => pc'[q] = "idle"
                       /\ pc'[e] = "idle" => pc'[q] = "idle"
    BY DEF OneWanted
  <2>1. Quiet(e) => Quiet(e)' BY <1>1, <1>2 DEF Quiet
  <2>2. CASE q = r
    <3>1. e # r BY <2>2 DEF Runs
    <3>2. pc[e] = "ended" \/ ctx[e] = "ended" BY <1>4, <2>2
    <3>3. pc[e] # "idle" BY <1>0, <3>2 DEF Places
    <3>. QED BY <1>2, <1>4, <2>1, <2>2, <3>1, <3>2, <3>3
  <2>3. CASE e = r
    <3>1. q # r BY <2>3 DEF Runs
    <3>2. pc[q] = "idle" BY <1>0, <1>2, <2>3 DEF OneWanted
    <3>. QED BY <1>2, <3>1, <3>2
  <2>4. CASE q # r /\ e # r
    <3>1. late'[q] = late[q] /\ pc'[q] = pc[q] /\ pc'[e] = pc[e] /\ ctx'[e] = ctx[e] BY <1>2, <1>4, <2>4
    <3>. QED BY <1>0, <2>1, <3>1 DEF OneWanted
  <2>. QED BY <2>2, <2>3, <2>4
<1>11. WaitsRegistered'
  <2>1. \A q \in Runs : Waits(q)' => q # r /\ Waits(q) BY <1>1, <1>2 DEF Waits, Unread
  <2>. QED BY <1>0, <1>1, <2>1 DEF WaitsRegistered, Registered
<1>. QED BY <1>5, <1>6, <1>7, <1>8, <1>9, <1>10, <1>11 DEF StreamInv

LEMMA DialKeeps ==
  ASSUME StreamInv, NEW r \in Runs, Dial(r)
  PROVE  StreamInv'
<1>0. Types /\ HandleIsKept /\ Places /\ Answers /\ Registration /\ OneWanted /\ WaitsRegistered BY DEF StreamInv
<1>1. PICK h \in Handles : owner[h] = None /\ owner' = [owner EXCEPT ![h] = r] /\ handle' = [handle EXCEPT ![r] = h]
  BY DEF Dial
<1>2. UNCHANGED <<ctx, watcher, inbox, reg, pubs, left, late, robbed>> BY DEF Dial, seenVars
<1>3. /\ pc[r] = "dial" /\ pc'[r] = "start" /\ link'[r] = "open" /\ asked' = asked \cup {r}
      /\ \A q \in Runs : q # r => pc'[q] = pc[q] /\ link'[q] = link[q]
  BY <1>0 DEF Types, Dial, Goes
<1>4. r \notin asked /\ ~Registered(r) /\ watcher[r] = "none" BY <1>0, <1>3 DEF Places, Types
<1>5. handle'[r] = h /\ \A q \in Runs : q # r => handle'[q] = handle[q] BY <1>0, <1>1 DEF Types
<1>6. owner'[h] = r /\ \A k \in Handles : k # h => owner'[k] = owner[k] BY <1>0, <1>1 DEF Types
<1>7. Types' BY <1>0, <1>1, <1>2 DEF Types, Dial, Goes
<1>8. HandleIsKept'
  <2>. SUFFICES ASSUME NEW q \in Runs, link'[q] = "open" \/ q \in asked'
                PROVE  handle'[q] \in Handles /\ owner'[handle'[q]] = q
    BY DEF HandleIsKept
  <2>1. CASE q = r BY <1>5, <1>6, <2>1
  <2>2. CASE q # r
    <3>1. handle[q] \in Handles /\ owner[handle[q]] = q BY <1>0, <1>3, <2>2 DEF HandleIsKept
    <3>2. handle[q] # h BY <1>1, <3>1
    <3>. QED BY <1>5, <1>6, <2>2, <3>1, <3>2
  <2>. QED BY <2>1, <2>2
<1>9. Places'
  <2>. SUFFICES ASSUME NEW q \in Runs PROVE Places!(q)' BY DEF Places
  <2>1. CASE q = r BY <1>0, <1>2, <1>3, <1>4, <2>1 DEF Places
  <2>2. CASE q # r BY <1>0, <1>2, <1>3, <2>2 DEF Places, Registered, Unread
  <2>. QED BY <2>1, <2>2
<1>10. Answers'
  <2>. SUFFICES ASSUME NEW q \in Runs, NEW m \in Unread(q)'
                PROVE  /\ m.kind \in {"reply", "fail"} => m.run = q /\ q \notin asked'
                       /\ m.kind \in {"fail"} \cup Terminal /\ m.run = q => ~Registered(q)' /\ q \notin asked'
    BY DEF Answers
  <2>1. m \in Unread(q) BY <1>2 DEF Unread
  <2>2. q # r BY <1>0, <1>3, <2>1 DEF Places
  <2>. QED BY <1>0, <1>2, <1>3, <2>1, <2>2 DEF Answers, Registered
<1>11. Registration'
  <2>. SUFFICES ASSUME reg # None
                PROVE  /\ reg.run \notin asked'
                       /\ reg.handle = handle'[reg.run] /\ reg.handle \in Handles
                       /\ link'[reg.run] = "open" \/ reg.run \in left'
    BY <1>2 DEF Registration
  <2>1. reg.run # r /\ reg.run \in Runs BY <1>0, <1>4 DEF Registered, Types
  <2>. QED BY <1>0, <1>2, <1>3, <1>5, <2>1 DEF Registration
<1>12. OneWanted' BY <1>0, <1>2, <1>3 DEF OneWanted, Quiet
<1>13. WaitsRegistered'
  <2>1. Unread(r)' = {} BY <1>0, <1>2, <1>3 DEF Places, Unread
  <2>2. \A q \in Runs : Waits(q)' => q # r /\ Waits(q) BY <1>2, <1>3, <2>1 DEF Waits, Unread
  <2>. QED BY <1>0, <1>2, <2>2 DEF WaitsRegistered, Registered
<1>. QED BY <1>7, <1>8, <1>9, <1>10, <1>11, <1>12, <1>13 DEF StreamInv

LEMMA DialFailsKeeps ==
  ASSUME StreamInv, NEW r \in Runs, DialFails(r)
  PROVE  StreamInv'
<1>0. Types /\ HandleIsKept /\ Places /\ Answers /\ Registration /\ OneWanted /\ WaitsRegistered BY DEF StreamInv
<1>1. UNCHANGED <<ctx, watcher, link, inbox, handle, owner, asked, reg, pubs, left, late, robbed>>
  BY DEF DialFails, kdbVars, seenVars
<1>2. pc[r] = "dial" /\ pc'[r] = "ended" /\ \A q \in Runs : q # r => pc'[q] = pc[q]
  BY <1>0 DEF Types, DialFails, Goes
<1>3. Types' BY <1>0, <1>1 DEF Types, DialFails, Goes
<1>4. HandleIsKept' BY <1>0, <1>1 DEF HandleIsKept
<1>5. Places'
  <2>. SUFFICES ASSUME NEW q \in Runs PROVE Places!(q)' BY DEF Places
  <2>1. CASE q = r
    <3>1. watcher[r] = "none" BY <1>0, <1>2 DEF Places, Types
    <3>. QED BY <1>0, <1>1, <1>2, <2>1, <3>1 DEF Places, Registered
  <2>2. CASE q # r BY <1>0, <1>1, <1>2, <2>2 DEF Places, Registered, Unread
  <2>. QED BY <2>1, <2>2
<1>6. Answers' BY <1>0, <1>1 DEF Answers, Unread, Registered
<1>7. Registration' BY <1>0, <1>1 DEF Registration
<1>8. OneWanted' BY <1>0, <1>1, <1>2 DEF OneWanted, Quiet
<1>9. WaitsRegistered'
  <2>1. \A q \in Runs : Waits(q)' => Waits(q) BY <1>1, <1>2 DEF Waits, Unread
  <2>. QED BY <1>0, <1>1, <2>1 DEF WaitsRegistered, Registered
<1>. QED BY <1>3, <1>4, <1>5, <1>6, <1>7, <1>8, <1>9 DEF StreamInv

LEMMA StartedKeeps ==
  ASSUME StreamInv, NEW r \in Runs, Started(r)
  PROVE  StreamInv'
<1>0. Types /\ Places /\ Answers BY DEF StreamInv
<1>1. Head(inbox[r]) \in Unread(r) /\ inbox[r] # <<>> /\ pc[r] = "start" BY <1>0, Read DEF Started
<1>2. UNCHANGED <<ctx, handle, owner, asked, reg, pubs, late, robbed>> BY DEF Started, kdbVars
<1>3. CASE Head(inbox[r]).kind = "fail"
  <2>1. ~Registered(r) /\ r \notin asked BY <1>0, <1>1, <1>3 DEF Answers
  <2>. QED BY <1>1, <1>2, <1>3, <2>1, ReturnsKeeps DEF Started
<1>4. CASE Head(inbox[r]).kind # "fail"
  <2>1. /\ Goes(r, "started") /\ inbox' = [inbox EXCEPT ![r] = Tail(@)] /\ UNCHANGED <<watcher, link>>
        /\ left' = IF Head(inbox[r]).kind = "reply" THEN left ELSE left \cup {r}
    BY <1>4 DEF Started
  <2>2. r \in left' \/ Head(inbox[r]).kind \notin Terminal BY <2>1 DEF Terminal
  <2>. QED BY <1>1, <1>2, <2>1, <2>2, MovesKeeps
<1>. QED BY <1>3, <1>4

LEMMA StartFailsKeeps ==
  ASSUME StreamInv, NEW r \in Runs, StartFails(r)
  PROVE  StreamInv'
<1>1. pc[r] = "start" /\ link[r] # "open" /\ Returns(r) BY DEF StartFails
<1>2. UNCHANGED <<ctx, handle, owner, asked, reg, pubs, left, late, robbed>> BY DEF StartFails, kdbVars, seenVars
<1>3. r \in left BY <1>1 DEF StreamInv, Places
<1>. QED BY <1>1, <1>2, <1>3, ReturnsKeeps

LEMMA SendStartedKeeps ==
  ASSUME StreamInv, NEW r \in Runs, SendStarted(r)
  PROVE  StreamInv'
<1>1. pc[r] = "started" /\ UNCHANGED <<ctx, handle, owner, asked, reg, pubs, late, robbed>>
  BY DEF SendStarted, kdbVars
<1>2. CASE Goes(r, "check") /\ watcher' = [watcher EXCEPT ![r] = "spawned"] /\ UNCHANGED <<link, inbox, left>>
  BY <1>1, <1>2, MovesKeeps
<1>3. CASE Returns(r) /\ Leaves(r) BY <1>1, <1>3, ReturnsKeeps DEF Leaves
<1>. QED BY <1>2, <1>3 DEF SendStarted

LEMMA CheckContextKeeps ==
  ASSUME StreamInv, NEW r \in Runs, CheckContext(r)
  PROVE  StreamInv'
BY MovesKeeps DEF CheckContext, kdbVars, seenVars

LEMMA AllSentKeeps ==
  ASSUME StreamInv, NEW r \in Runs, AllSent(r)
  PROVE  StreamInv'
BY MovesKeeps DEF AllSent, kdbVars, seenVars

LEMMA ReadFailsKeeps ==
  ASSUME StreamInv, NEW r \in Runs, ReadFails(r)
  PROVE  StreamInv'
<1>1. pc[r] = "read" /\ link[r] # "open" /\ UNCHANGED <<ctx, handle, owner, asked, reg, pubs, left, late, robbed>>
  BY DEF ReadFails, kdbVars, seenVars
<1>2. CASE Returns(r)
  <2>1. Registered(r) \/ r \in asked => r \in left BY <1>1 DEF StreamInv, Registration, Registered, Places
  <2>. QED BY <1>1, <1>2, <2>1, ReturnsKeeps
<1>3. CASE Goes(r, "stop") /\ UNCHANGED <<watcher, link, inbox>> BY <1>1, <1>3, MovesKeeps
<1>. QED BY <1>2, <1>3 DEF ReadFails

LEMMA ReadMessageKeeps ==
  ASSUME StreamInv, NEW r \in Runs, ReadMessage(r)
  PROVE  StreamInv'
<1>. DEFINE m == Head(inbox[r])
<1>1. pc[r] = "read" /\ inbox[r] # <<>> /\ UNCHANGED <<ctx, handle, owner, asked, reg, pubs, late, robbed>>
  BY DEF ReadMessage, kdbVars
<1>2. m \in Unread(r) BY <1>1, Read DEF StreamInv
<1>3. CASE Returns(r) /\ Leaves(r) BY <1>1, <1>3, ReturnsKeeps DEF Leaves
<1>4. CASE m.kind \in Terminal /\ Returns(r) /\ left' = IF m.run = r THEN left ELSE left \cup {r}
  <2>1. m.run = r => ~Registered(r) /\ r \notin asked BY <1>2, <1>4 DEF StreamInv, Answers
  <2>. QED BY <1>1, <1>4, <2>1, ReturnsKeeps
<1>5. ASSUME NEW place \in {"check", "data"}, m.kind \in {"reply", "fail", "data"}, Goes(r, place),
             inbox' = [inbox EXCEPT ![r] = Tail(@)], UNCHANGED <<watcher, link, left>>
      PROVE  StreamInv'
  <2>1. m.kind \notin Terminal BY <1>5 DEF Terminal
  <2>. QED BY <1>1, <1>5, <2>1, MovesKeeps
<1>. QED BY <1>3, <1>4, <1>5 DEF ReadMessage

LEMMA SendDataKeeps ==
  ASSUME StreamInv, NEW r \in Runs, SendData(r)
  PROVE  StreamInv'
<1>1. pc[r] = "data" /\ UNCHANGED <<ctx, handle, owner, asked, reg, pubs, late, robbed>> BY DEF SendData, kdbVars
<1>2. CASE Returns(r) /\ Leaves(r) BY <1>1, <1>2, ReturnsKeeps DEF Leaves
<1>3. CASE UNCHANGED <<pc, watcher, link, inbox, left>>
  <2>1. pc' = [pc EXCEPT ![r] = "data"] BY <1>1, <1>3 DEF StreamInv, Types
  <2>. QED BY <1>1, <1>3, <2>1, MovesKeeps DEF Goes
<1>. QED BY <1>2, <1>3 DEF SendData

(* Stops and late starts: a run that waits either keeps its registration or is robbed. *)
LEMMA Robbed ==
  ASSUME StreamInv, NEW e \in Runs, NEW q \in Runs, e # q,
         pc[e] # "idle", ~Quiet(e), RobsLater(e), Waits(q)
  PROVE  q \in robbed'
<1>1. CASE Registered(q) BY <1>1, Robbing
<1>2. CASE q \in robbed BY <1>2 DEF RobsLater
<1>. QED BY <1>1, <1>2 DEF StreamInv, WaitsRegistered

LEMMA RobbedType ==
  ASSUME StreamInv, NEW e \in Runs, RobsLater(e)
  PROVE  robbed' \subseteq Runs
BY DEF RobsLater, StreamInv, Types

LEMMA StopAndReturnKeeps ==
  ASSUME StreamInv, NEW r \in Runs, StopAndReturn(r)
  PROVE  StreamInv'
<1>0. Types /\ HandleIsKept /\ Places /\ Answers /\ Registration /\ OneWanted /\ WaitsRegistered BY DEF StreamInv
<1>1. pc[r] = "stop" /\ Returns(r) /\ UNCHANGED <<ctx, handle, owner, asked, pubs, late>>
  BY DEF StopAndReturn
<1>2. CASE Leaves(r) /\ UNCHANGED <<reg, robbed>> BY <1>1, <1>2, ReturnsKeeps DEF Leaves
<1>3. CASE reg' = None /\ RobsLater(r) /\ UNCHANGED left
  <2>1. inbox'[r] = <<>> /\ \A q \in Runs : q # r => inbox'[q] = inbox[q] BY <1>0, <1>1 DEF Types, Returns
  <2>2. /\ pc'[r] = "ended" /\ link'[r] = "closed" /\ watcher'[r] = IF watcher[r] = "waiting" THEN "gone" ELSE watcher[r]
        /\ \A q \in Runs : q # r => pc'[q] = pc[q] /\ link'[q] = link[q] /\ watcher'[q] = watcher[q]
    BY <1>0, <1>1 DEF Types, Returns, Goes
  <2>3. \A q \in Runs : ~Registered(q)' BY <1>3 DEF Registered
  <2>4. Types'
    <3>1. <<>> \in Seq(Messages) OBVIOUS
    <3>2. robbed' \subseteq Runs BY <1>3, RobbedType
    <3>. QED BY <1>0, <1>1, <1>3, <3>1, <3>2 DEF Types, Returns, Goes
  <2>5. HandleIsKept' BY <1>0, <1>1, <2>2 DEF HandleIsKept
  <2>6. Places'
    <3>. SUFFICES ASSUME NEW q \in Runs PROVE Places!(q)' BY DEF Places
    <3>1. CASE q = r BY <1>0, <1>1, <1>3, <2>2, <2>3, <3>1 DEF Places
    <3>2. CASE q # r BY <1>0, <1>1, <1>3, <2>1, <2>2, <2>3, <3>2 DEF Places, Unread
    <3>. QED BY <3>1, <3>2
  <2>7. Answers' BY <1>0, <1>1, <2>1, <2>3, ElementsEmpty DEF Answers, Unread
  <2>8. Registration' BY <1>3 DEF Registration
  <2>9. OneWanted' BY <1>0, <1>1, <2>2 DEF OneWanted, Quiet
  <2>10. WaitsRegistered'
    <3>1. ~Quiet(r) BY <1>1 DEF Quiet
    <3>2. \A q \in Runs : Waits(q)' => q # r /\ Waits(q) BY <1>1, <1>3, <2>1, <2>2 DEF Waits, Unread
    <3>3. \A q \in Runs : q # r /\ Waits(q) => q \in robbed' BY <1>1, <1>3, <3>1, Robbed
    <3>. QED BY <3>2, <3>3 DEF WaitsRegistered
  <2>. QED BY <2>4, <2>5, <2>6, <2>7, <2>8, <2>9, <2>10 DEF StreamInv
<1>. QED BY <1>2, <1>3 DEF StopAndReturn, StopsStream

-----------------------------------------------------------------------------
(* The watching goroutine. *)

LEMMA WatcherLooksKeeps ==
  ASSUME StreamInv, NEW r \in Runs, WatcherLooks(r)
  PROVE  StreamInv'
<1>0. Types /\ HandleIsKept /\ Places /\ Answers /\ Registration /\ OneWanted /\ WaitsRegistered BY DEF StreamInv
<1>1. UNCHANGED <<pc, ctx, link, inbox, handle, owner, asked, reg, pubs, left, late, robbed>>
  BY DEF WatcherLooks, kdbVars, seenVars
<1>2. /\ watcher[r] = "spawned" /\ \A q \in Runs : q # r => watcher'[q] = watcher[q]
      /\ \/ ctx[r] = "ended" /\ watcher'[r] = "stopping"
         \/ pc[r] = "ended" /\ watcher'[r] = "gone"
         \/ pc[r] # "ended" /\ watcher'[r] = "waiting"
  BY <1>0 DEF Types, WatcherLooks
<1>3. Types' BY <1>0, <1>1 DEF Types, WatcherLooks
<1>4. HandleIsKept' BY <1>0, <1>1 DEF HandleIsKept
<1>5. Places'
  <2>. SUFFICES ASSUME NEW q \in Runs PROVE Places!(q)' BY DEF Places
  <2>1. CASE q = r BY <1>0, <1>1, <1>2, <2>1 DEF Places, Registered, Unread
  <2>2. CASE q # r BY <1>0, <1>1, <1>2, <2>2 DEF Places, Registered, Unread
  <2>. QED BY <2>1, <2>2
<1>6. Answers' BY <1>0, <1>1 DEF Answers, Unread, Registered
<1>7. Registration' BY <1>0, <1>1 DEF Registration
<1>8. OneWanted'
  <2>1. \A e \in Runs : Quiet(e) => Quiet(e)' BY <1>1, <1>2 DEF Quiet
  <2>. QED BY <1>0, <1>1, <2>1 DEF OneWanted
<1>9. WaitsRegistered' BY <1>0, <1>1 DEF WaitsRegistered, Waits, Unread, Registered
<1>. QED BY <1>3, <1>4, <1>5, <1>6, <1>7, <1>8, <1>9 DEF StreamInv

LEMMA WatcherStopsKeeps ==
  ASSUME StreamInv, NEW r \in Runs, WatcherStops(r)
  PROVE  StreamInv'
<1>0. Types /\ HandleIsKept /\ Places /\ Answers /\ Registration /\ OneWanted /\ WaitsRegistered BY DEF StreamInv
<1>1. UNCHANGED <<pc, ctx, link, inbox, handle, owner, asked, pubs, late>> BY DEF WatcherStops
<1>2. /\ watcher[r] = "stopping" /\ watcher'[r] = "closing"
      /\ \A q \in Runs : q # r => watcher'[q] = watcher[q]
  BY <1>0 DEF Types, WatcherStops
<1>3. ctx[r] = "ended" /\ pc[r] # "idle" BY <1>0, <1>2 DEF Places
<1>4. \/ reg' = None /\ RobsLater(r) /\ UNCHANGED left
      \/ Leaves(r) /\ UNCHANGED <<reg, robbed>>
  BY DEF WatcherStops, StopsStream
<1>5. \A q \in Runs : Registered(q)' => Registered(q) /\ (q # r \/ q \in left')
  BY <1>4 DEF Registered, Leaves
<1>6. left \subseteq left' /\ \A q \in Runs : q # r => (q \in left' <=> q \in left) BY <1>4 DEF Leaves
<1>7. Types'
  <2>1. watcher' \in [Runs -> {"none", "spawned", "waiting", "stopping", "closing", "gone"}]
    BY <1>0 DEF Types, WatcherStops
  <2>2. robbed' \subseteq Runs /\ left' \subseteq Runs BY <1>0, <1>4, RobbedType DEF Types, Leaves
  <2>3. reg' \in [run : Runs, handle : Handles] \cup {None} BY <1>0, <1>4 DEF Types
  <2>. QED BY <1>0, <1>1, <2>1, <2>2, <2>3 DEF Types
<1>8. HandleIsKept' BY <1>0, <1>1 DEF HandleIsKept
<1>9. Places'
  <2>. SUFFICES ASSUME NEW q \in Runs PROVE Places!(q)' BY DEF Places
  <2>1. CASE q = r BY <1>0, <1>1, <1>2, <1>3, <1>5, <1>6, <2>1 DEF Places, Unread
  <2>2. CASE q # r BY <1>0, <1>1, <1>2, <1>5, <1>6, <2>2 DEF Places, Unread
  <2>. QED BY <2>1, <2>2
<1>10. Answers' BY <1>0, <1>1, <1>5 DEF Answers, Unread
<1>11. Registration' BY <1>0, <1>1, <1>4, <1>6 DEF Registration
<1>12. OneWanted'
  <2>1. \A e \in Runs : Quiet(e) => Quiet(e)' BY <1>1, <1>2 DEF Quiet
  <2>. QED BY <1>0, <1>1, <2>1 DEF OneWanted
<1>13. WaitsRegistered'
  <2>1. ~Quiet(r) BY <1>2 DEF Quiet
  <2>2. \A q \in Runs : Waits(q)' => q # r /\ Waits(q) BY <1>1, <1>3, <1>6 DEF Waits, Unread
  <2>3. CASE reg' = None /\ RobsLater(r)
    <3>1. \A q \in Runs : q # r /\ Waits(q) => q \in robbed' BY <1>3, <2>1, <2>3, Robbed
    <3>. QED BY <2>2, <3>1 DEF WaitsRegistered
  <2>4. CASE UNCHANGED <<reg, robbed>> BY <1>0, <2>2, <2>4 DEF WaitsRegistered, Registered
  <2>. QED BY <1>4, <2>3, <2>4
<1>. QED BY <1>7, <1>8, <1>9, <1>10, <1>11, <1>12, <1>13 DEF StreamInv

LEMMA WatcherClosesKeeps ==
  ASSUME StreamInv, NEW r \in Runs, WatcherCloses(r)
  PROVE  StreamInv'
<1>0. Types /\ HandleIsKept /\ Places /\ Answers /\ Registration /\ OneWanted /\ WaitsRegistered BY DEF StreamInv
<1>1. UNCHANGED <<pc, ctx, handle, owner, asked, reg, pubs, left, late, robbed>>
  BY DEF WatcherCloses, kdbVars, seenVars
<1>2. /\ watcher[r] = "closing" /\ watcher'[r] = "gone" /\ link'[r] = "closed" /\ inbox'[r] = <<>>
      /\ \A q \in Runs : q # r => watcher'[q] = watcher[q] /\ link'[q] = link[q] /\ inbox'[q] = inbox[q]
  BY <1>0 DEF Types, WatcherCloses
<1>3. pc[r] \notin {"idle", "dial", "start"} /\ (Registered(r) => r \in left) BY <1>0, <1>2 DEF Places
<1>4. Types'
  <2>1. <<>> \in Seq(Messages) OBVIOUS
  <2>. QED BY <1>0, <1>1, <2>1 DEF Types, WatcherCloses
<1>5. HandleIsKept' BY <1>0, <1>1, <1>2 DEF HandleIsKept
<1>6. Places'
  <2>. SUFFICES ASSUME NEW q \in Runs PROVE Places!(q)' BY DEF Places
  <2>1. CASE q = r BY <1>0, <1>1, <1>2, <1>3, <2>1 DEF Places
  <2>2. CASE q # r BY <1>0, <1>1, <1>2, <2>2 DEF Places, Registered, Unread
  <2>. QED BY <2>1, <2>2
<1>7. Answers' BY <1>0, <1>1, <1>2, ElementsEmpty DEF Answers, Unread, Registered
<1>8. Registration' BY <1>0, <1>1, <1>2, <1>3 DEF Registration, Registered, Types
<1>9. OneWanted'
  <2>1. \A e \in Runs : Quiet(e) => Quiet(e)' BY <1>1, <1>2 DEF Quiet
  <2>. QED BY <1>0, <1>1, <2>1 DEF OneWanted
<1>10. WaitsRegistered'
  <2>1. \A q \in Runs : Waits(q)' => Waits(q) BY <1>1, <1>2 DEF Waits, Unread
  <2>. QED BY <1>0, <1>1, <2>1 DEF WaitsRegistered, Registered
<1>. QED BY <1>4, <1>5, <1>6, <1>7, <1>8, <1>9, <1>10 DEF StreamInv

LEMMA CtxEndsKeeps ==
  ASSUME StreamInv, NEW r \in Runs, CtxEnds(r)
  PROVE  StreamInv'
<1>0. Types /\ HandleIsKept /\ Places /\ Answers /\ Registration /\ OneWanted /\ WaitsRegistered BY DEF StreamInv
<1>1. UNCHANGED <<pc, link, inbox, handle, owner, asked, reg, pubs, left, late, robbed>>
  BY DEF CtxEnds, kdbVars, seenVars
<1>2. /\ ctx[r] = "live" /\ ctx'[r] = "ended"
      /\ watcher'[r] = IF watcher[r] = "waiting" THEN "stopping" ELSE watcher[r]
      /\ \A q \in Runs : q # r => ctx'[q] = ctx[q] /\ watcher'[q] = watcher[q]
  BY <1>0 DEF Types, CtxEnds
<1>3. Types'
  <2>1. watcher' \in [Runs -> {"none", "spawned", "waiting", "stopping", "closing", "gone"}]
    BY <1>0 DEF Types, CtxEnds
  <2>2. ctx' \in [Runs -> {"none", "live", "ended"}] BY <1>0 DEF Types, CtxEnds
  <2>. QED BY <1>0, <1>1, <2>1, <2>2 DEF Types
<1>4. HandleIsKept' BY <1>0, <1>1 DEF HandleIsKept
<1>5. Places'
  <2>. SUFFICES ASSUME NEW q \in Runs PROVE Places!(q)' BY DEF Places
  <2>1. CASE q = r BY <1>0, <1>1, <1>2, <2>1 DEF Places, Registered, Unread
  <2>2. CASE q # r BY <1>0, <1>1, <1>2, <2>2 DEF Places, Registered, Unread
  <2>. QED BY <2>1, <2>2
<1>6. Answers' BY <1>0, <1>1 DEF Answers, Unread, Registered
<1>7. Registration' BY <1>0, <1>1 DEF Registration
<1>8. OneWanted'
  <2>1. \A e \in Runs : Quiet(e) => Quiet(e)' BY <1>0, <1>1, <1>2 DEF Quiet, Places
  <2>2. \A e \in Runs : ctx'[e] = "live" => ctx[e] = "live" BY <1>2
  <2>. QED BY <1>0, <1>1, <2>1, <2>2 DEF OneWanted
<1>9. WaitsRegistered'
  <2>1. \A q \in Runs : Waits(q)' => Waits(q) BY <1>1, <1>2 DEF Waits, Unread
  <2>. QED BY <1>0, <1>1, <2>1 DEF WaitsRegistered, Registered
<1>. QED BY <1>3, <1>4, <1>5, <1>6, <1>7, <1>8, <1>9 DEF StreamInv

-----------------------------------------------------------------------------
(* The network and kdb+. *)

LEMMA BreakKeeps ==
  ASSUME StreamInv, NEW r \in Runs, Break(r)
  PROVE  StreamInv'
<1>0. Types /\ HandleIsKept /\ Places /\ Answers /\ Registration /\ OneWanted /\ WaitsRegistered BY DEF StreamInv
<1>1. link[r] = "open" /\ UNCHANGED <<pc, ctx, watcher, handle, owner, reg, pubs, late, robbed>> BY DEF Break
<1>2. /\ link'[r] = "broken" /\ asked' \subseteq asked /\ left' = left \cup {r}
      /\ \A q \in Runs : q # r => link'[q] = link[q]
  BY <1>0 DEF Types, Break, Leaves
<1>3. PICK n \in 0..Len(inbox[r]) : inbox' = [inbox EXCEPT ![r] = SubSeq(@, 1, n)] BY DEF Break
<1>4. SubSeq(inbox[r], 1, n) \in Seq(Messages) /\ Elements(SubSeq(inbox[r], 1, n)) \subseteq Elements(inbox[r])
  BY <1>0, ElementsPrefix DEF Types
<1>5. \A q \in Runs : Unread(q)' \subseteq Unread(q) BY <1>0, <1>3, <1>4 DEF Types, Unread
<1>6. pc[r] \notin {"idle", "dial"} BY <1>0, <1>1 DEF Places
<1>7. Types'
  <2>1. inbox' \in [Runs -> Seq(Messages)] BY <1>0, <1>3, <1>4 DEF Types
  <2>2. link' \in [Runs -> {"none", "open", "broken", "closed"}] BY <1>0 DEF Types, Break
  <2>. QED BY <1>0, <1>1, <1>2, <2>1, <2>2 DEF Types
<1>8. HandleIsKept' BY <1>0, <1>1, <1>2 DEF HandleIsKept
<1>9. Places'
  <2>. SUFFICES ASSUME NEW q \in Runs PROVE Places!(q)' BY DEF Places
  <2>1. Unread(q)' \subseteq Unread(q) BY <1>5
  <2>. HIDE DEF Unread
  <2>2. CASE q = r BY <1>0, <1>1, <1>2, <1>6, <2>2 DEF Places
  <2>3. CASE q # r BY <1>0, <1>1, <1>2, <2>1, <2>3 DEF Places, Registered
  <2>. QED BY <2>2, <2>3
<1>10. Answers' BY <1>0, <1>1, <1>2, <1>5 DEF Answers, Registered
<1>11. Registration' BY <1>0, <1>1, <1>2 DEF Registration, Types
<1>12. OneWanted'
  <2>1. \A e \in Runs : Quiet(e) => Quiet(e)' BY <1>1, <1>2 DEF Quiet
  <2>. QED BY <1>0, <1>1, <2>1 DEF OneWanted
<1>13. WaitsRegistered'
  <2>1. \A q \in Runs : Waits(q)' => q # r BY <1>2 DEF Waits
  <2>2. \A q \in Runs : q # r => inbox'[q] = inbox[q] BY <1>0, <1>3 DEF Types
  <2>3. \A q \in Runs : Waits(q)' => Waits(q) BY <1>1, <1>2, <2>1, <2>2 DEF Waits, Unread
  <2>. QED BY <1>0, <1>1, <2>3 DEF WaitsRegistered, Registered
<1>. QED BY <1>7, <1>8, <1>9, <1>10, <1>11, <1>12, <1>13 DEF StreamInv

(* kdb+ answers the start call: whether it registers the run or refuses it, the *)
(* answer is the last message of its kind.                                      *)
LEMMA StreamStartKeeps ==
  ASSUME StreamInv, NEW r \in Runs, StreamStart(r)
  PROVE  StreamInv'
<1>0. Types /\ HandleIsKept /\ Places /\ Answers /\ Registration /\ OneWanted /\ WaitsRegistered BY DEF StreamInv
<1>1. /\ r \in asked /\ asked' = asked \ {r}
      /\ UNCHANGED <<pc, ctx, watcher, link, handle, owner, pubs, left, late>>
  BY DEF StreamStart
<1>2. PICK kind \in {"reply", "fail"} :
        /\ Push(handle[r], Message(kind, r, <<>>))
        /\ \/ kind = "reply" /\ reg' = [run |-> r, handle |-> handle[r]] /\ RobsLater(r)
           \/ kind = "fail" /\ UNCHANGED <<reg, robbed>>
  BY DEF StreamStart
<1>. DEFINE m == Message(kind, r, <<>>)
<1>3. handle[r] \in Handles /\ owner[handle[r]] = r BY <1>0, <1>1 DEF HandleIsKept
<1>4. m \in Messages /\ m.kind = kind /\ m.run = r BY DEF Message, Messages, Contents
<1>5. /\ inbox' \in [Runs -> Seq(Messages)]
      /\ \A q \in Runs : Unread(q)' = IF q = r /\ link[r] = "open" THEN Unread(q) \cup {m} ELSE Unread(q)
  BY <1>0, <1>2, <1>3, <1>4, Pushed DEF Unread
<1>. HIDE DEF m
<1>6. pc[r] \notin {"idle", "dial"} /\ (pc[r] = "start" \/ r \in left) /\ ~Registered(r)
  BY <1>0, <1>1 DEF Places, Registration, Registered
<1>7. link[r] = "open" \/ r \in left BY <1>0, <1>6 DEF Places
<1>8. \A q \in Runs : Registered(q)' => Registered(q) \/ (q = r /\ kind = "reply") BY <1>2 DEF Registered
<1>9. Types'
  <2>1. robbed' \subseteq Runs BY <1>0, <1>2, RobbedType DEF Types
  <2>2. reg' \in [run : Runs, handle : Handles] \cup {None} BY <1>0, <1>2, <1>3 DEF Types
  <2>. QED BY <1>0, <1>1, <1>5, <2>1, <2>2 DEF Types
<1>10. HandleIsKept' BY <1>0, <1>1 DEF HandleIsKept
<1>11. Places'
  <2>. SUFFICES ASSUME NEW q \in Runs PROVE Places!(q)' BY DEF Places
  <2>1. CASE q = r BY <1>0, <1>1, <1>6, <2>1 DEF Places
  <2>2. CASE q # r
    <3>1. Unread(q)' = Unread(q) /\ (Registered(q)' => Registered(q)) BY <1>5, <1>8, <2>2
    <3>. QED BY <1>0, <1>1, <2>2, <3>1 DEF Places
  <2>. QED BY <2>1, <2>2
<1>12. Answers'
  <2>. SUFFICES ASSUME NEW q \in Runs, NEW k \in Unread(q)'
                PROVE  /\ k.kind \in {"reply", "fail"} => k.run = q /\ q \notin asked'
                       /\ k.kind \in {"fail"} \cup Terminal /\ k.run = q => ~Registered(q)' /\ q \notin asked'
    BY DEF Answers
  <2>1. CASE k \in Unread(q)
    <3>1. q # r \/ (k.kind \notin {"reply", "fail"} /\ (k.kind \in Terminal => k.run # r))
      BY <1>0, <1>1, <2>1 DEF Answers
    <3>. QED BY <1>0, <1>1, <1>8, <2>1, <3>1 DEF Answers
  <2>2. CASE k = m /\ q = r
    <3>1. kind \notin Terminal BY DEF Terminal
    <3>2. kind = "fail" => ~Registered(r)' BY <1>6, <1>8
    <3>. QED BY <1>1, <1>4, <2>2, <3>1, <3>2
  <2>. QED BY <1>5, <2>1, <2>2
<1>13. Registration'
  <2>1. CASE kind = "reply" BY <1>1, <1>2, <1>3, <1>7, <2>1 DEF Registration
  <2>2. CASE kind = "fail" BY <1>0, <1>1, <1>2, <2>2 DEF Registration
  <2>. QED BY <2>1, <2>2
<1>14. OneWanted'
  <2>1. \A e \in Runs : Quiet(e) => Quiet(e)' BY <1>1 DEF Quiet
  <2>. QED BY <1>0, <1>1, <2>1 DEF OneWanted
<1>15. WaitsRegistered'
  <2>. SUFFICES ASSUME NEW q \in Runs, Waits(q)' PROVE Registered(q)' \/ q \in robbed'
    BY DEF WaitsRegistered
  <2>1. CASE q = r /\ kind = "reply"
    <3>1. reg' = [run |-> r, handle |-> handle[r]] BY <1>2, <2>1
    <3>2. reg' \in [run : Runs, handle : Handles] BY <1>3, <3>1
    <3>. QED BY <2>1, <3>1, <3>2 DEF Registered
  <2>2. CASE q = r /\ kind = "fail"
    <3>1. q \notin left BY <1>1 DEF Waits
    <3>2. pc'[q] = "start" BY <1>1, <1>6, <2>2, <3>1
    <3>3. \E k \in Unread(q)' : k.kind = "reply" BY <3>2 DEF Waits
    <3>. QED BY <1>0, <1>1, <1>4, <1>5, <2>2, <3>3 DEF Answers
  <2>3. CASE q # r
    <3>1. Waits(q)
      <4>1. Unread(q)' = Unread(q) BY <1>5, <2>3
      <4>. QED BY <1>1, <4>1 DEF Waits
    <3>2. ~Quiet(r) BY <1>1 DEF Quiet
    <3>3. CASE RobsLater(r) BY <1>6, <2>3, <3>1, <3>2, <3>3, Robbed
    <3>4. CASE UNCHANGED <<reg, robbed>> BY <1>0, <3>1, <3>4 DEF WaitsRegistered, Registered
    <3>. QED BY <1>2, <3>3, <3>4
  <2>. QED BY <2>1, <2>2, <2>3
<1>. QED BY <1>9, <1>10, <1>11, <1>12, <1>13, <1>14, <1>15 DEF StreamInv

(* A publication pushes what is neither an answer nor an end. *)
LEMMA PublishKeeps ==
  ASSUME StreamInv, Publish
  PROVE  StreamInv'
<1>0. Types /\ HandleIsKept /\ Places /\ Answers /\ Registration /\ OneWanted /\ WaitsRegistered BY DEF StreamInv
<1>1. /\ reg # None /\ pubs' = pubs + 1
      /\ UNCHANGED <<pc, ctx, watcher, link, handle, owner, asked, reg, left, late, robbed>>
  BY DEF Publish, seenVars
<1>2. reg.handle \in Handles /\ reg.run \in Runs /\ pubs' \in Nat BY <1>0, <1>1 DEF Types
<1>3. PICK m \in Messages : m.kind \in {"data", "bad"} /\ Push(reg.handle, m)
  <2>1. CASE \E payload \in Payloads : Push(reg.handle, Message("data", reg.run, Stamped(payload, pubs')))
    <3>1. PICK payload \in Payloads : Push(reg.handle, Message("data", reg.run, Stamped(payload, pubs'))) BY <2>1
    <3>2. Stamped(payload, pubs') \in Contents BY <1>2 DEF Contents
    <3>. QED BY <1>2, <3>1, <3>2 DEF Message, Messages
  <2>2. CASE Push(reg.handle, Message("bad", reg.run, <<>>)) BY <1>2, <2>2 DEF Message, Messages, Contents
  <2>. QED BY <2>1, <2>2 DEF Publish
<1>4. /\ inbox' \in [Runs -> Seq(Messages)]
      /\ \A q \in Runs : Unread(q)' = IF owner[reg.handle] = q /\ link[q] = "open" THEN Unread(q) \cup {m} ELSE Unread(q)
  BY <1>0, <1>2, <1>3, Pushed DEF Unread
<1>5. m.kind \notin {"reply", "fail"} \cup Terminal BY <1>3 DEF Terminal
<1>6. Types' BY <1>0, <1>1, <1>2, <1>4 DEF Types
<1>7. HandleIsKept' BY <1>0, <1>1 DEF HandleIsKept
<1>8. Places'
  <2>. SUFFICES ASSUME NEW q \in Runs PROVE Places!(q)' BY DEF Places
  <2>1. pc[q] \in {"idle", "dial"} => Unread(q)' = {} BY <1>0, <1>4 DEF Places
  <2>. QED BY <1>0, <1>1, <2>1 DEF Places, Registered
<1>9. Answers' BY <1>0, <1>1, <1>4, <1>5 DEF Answers, Registered
<1>10. Registration' BY <1>0, <1>1 DEF Registration
<1>11. OneWanted' BY <1>0, <1>1 DEF OneWanted, Quiet
<1>12. WaitsRegistered'
  <2>1. \A q \in Runs : Waits(q)' => Waits(q)
    <3>. SUFFICES ASSUME NEW q \in Runs, Waits(q)' PROVE Waits(q) OBVIOUS
    <3>1. \A k \in Unread(q)' : k.kind = "reply" => k \in Unread(q) BY <1>4, <1>5
    <3>2. Unread(q) \subseteq Unread(q)' BY <1>4
    <3>. QED BY <1>1, <3>1, <3>2 DEF Waits
  <2>. QED BY <1>0, <1>1, <2>1 DEF WaitsRegistered, Registered
<1>. QED BY <1>6, <1>7, <1>8, <1>9, <1>10, <1>11, <1>12 DEF StreamInv

(* An end reaches the run it is of, if its connection works, and that run waits no more. *)
LEMMA StreamEndKeeps ==
  ASSUME StreamInv, StreamEnd
  PROVE  StreamInv'
<1>0. Types /\ HandleIsKept /\ Places /\ Answers /\ Registration /\ OneWanted /\ WaitsRegistered BY DEF StreamInv
<1>1. /\ reg # None /\ reg' = None
      /\ UNCHANGED <<pc, ctx, watcher, link, handle, owner, asked, pubs, left, late, robbed>>
  BY DEF StreamEnd, seenVars
<1>2. reg.handle \in Handles /\ reg.run \in Runs /\ reg.handle = handle[reg.run] /\ reg.run \notin asked
  BY <1>0, <1>1 DEF Types, Registration
<1>3. PICK kind \in Terminal : Push(reg.handle, Message(kind, reg.run, <<>>)) BY DEF StreamEnd
<1>. DEFINE m == Message(kind, reg.run, <<>>)
<1>4. m \in Messages /\ m.kind = kind /\ m.run = reg.run BY <1>2 DEF Message, Messages, Contents
<1>5. /\ inbox' \in [Runs -> Seq(Messages)]
      /\ \A q \in Runs : Unread(q)' = IF owner[reg.handle] = q /\ link[q] = "open" THEN Unread(q) \cup {m} ELSE Unread(q)
  BY <1>0, <1>2, <1>3, <1>4, Pushed DEF Unread
<1>. HIDE DEF m
<1>6. m.kind \in Terminal /\ m.kind \notin {"reply", "fail"} BY <1>3, <1>4 DEF Terminal
<1>7. \A q \in Runs : ~Registered(q)' BY <1>1 DEF Registered
<1>8. Types' BY <1>0, <1>1, <1>5 DEF Types
<1>9. HandleIsKept' BY <1>0, <1>1 DEF HandleIsKept
<1>10. Places'
  <2>. SUFFICES ASSUME NEW q \in Runs PROVE Places!(q)' BY DEF Places
  <2>1. pc[q] \in {"idle", "dial"} => Unread(q)' = {} BY <1>0, <1>5 DEF Places
  <2>. QED BY <1>0, <1>1, <1>7, <2>1 DEF Places
<1>11. Answers'
  <2>. SUFFICES ASSUME NEW q \in Runs, NEW k \in Unread(q)'
                PROVE  /\ k.kind \in {"reply", "fail"} => k.run = q /\ q \notin asked
                       /\ k.kind \in {"fail"} \cup Terminal /\ k.run = q => q \notin asked
    BY <1>1, <1>7 DEF Answers
  <2>1. CASE k \in Unread(q) BY <1>0, <2>1 DEF Answers
  <2>2. CASE k = m BY <1>2, <1>4, <1>6, <2>2
  <2>. QED BY <1>5, <2>1, <2>2
<1>12. Registration' BY <1>1 DEF Registration
<1>13. OneWanted' BY <1>0, <1>1 DEF OneWanted, Quiet
<1>14. WaitsRegistered'
  <2>. SUFFICES ASSUME NEW q \in Runs, Waits(q)' PROVE q \in robbed BY <1>1 DEF WaitsRegistered
  <2>1. Waits(q)
    <3>1. \A k \in Unread(q)' : k.kind = "reply" => k \in Unread(q) BY <1>5, <1>6
    <3>2. Unread(q) \subseteq Unread(q)' BY <1>5
    <3>. QED BY <1>1, <3>1, <3>2 DEF Waits
  <2>2. ASSUME Registered(q) PROVE FALSE
    <3>1. owner[reg.handle] = q /\ link[q] = "open" BY <1>0, <1>2, <2>1, <2>2 DEF Registered, HandleIsKept, Waits
    <3>2. m \in Unread(q)' BY <1>5, <3>1
    <3>. QED BY <1>6, <3>2 DEF Waits
  <2>. QED BY <1>0, <2>1, <2>2 DEF WaitsRegistered
<1>. QED BY <1>8, <1>9, <1>10, <1>11, <1>12, <1>13, <1>14 DEF StreamInv

(* A handle is free only when the run that had it is done with its connection. *)
LEMMA HandlesKeep ==
  ASSUME StreamInv, NEW h \in Handles, HandleCloses(h) \/ PoolConnection(h)
  PROVE  StreamInv'
<1>0. Types /\ HandleIsKept /\ Places /\ Answers /\ Registration /\ OneWanted /\ WaitsRegistered BY DEF StreamInv
<1>1. UNCHANGED <<pc, ctx, watcher, link, inbox, handle, asked, reg, pubs, left, late, robbed>>
  BY DEF HandleCloses, PoolConnection, runVars, seenVars
<1>2. PICK o \in {None, Pool} : owner' = [owner EXCEPT ![h] = o]
  BY DEF HandleCloses, PoolConnection
<1>3. \A q \in Runs : owner[h] = q => q \notin asked /\ link[q] # "open" BY DEF HandleCloses, PoolConnection
<1>4. Types' BY <1>0, <1>1, <1>2 DEF Types
<1>5. HandleIsKept'
  <2>. SUFFICES ASSUME NEW q \in Runs, link[q] = "open" \/ q \in asked
                PROVE  handle[q] \in Handles /\ owner'[handle[q]] = q
    BY <1>1 DEF HandleIsKept
  <2>1. handle[q] \in Handles /\ owner[handle[q]] = q BY <1>0 DEF HandleIsKept
  <2>2. handle[q] # h BY <1>3, <2>1
  <2>. QED BY <1>0, <1>2, <2>1, <2>2 DEF Types
<1>6. Places' BY <1>0, <1>1 DEF Places, Registered, Unread
<1>7. Answers' BY <1>0, <1>1 DEF Answers, Unread, Registered
<1>8. Registration' BY <1>0, <1>1 DEF Registration
<1>9. OneWanted' BY <1>0, <1>1 DEF OneWanted, Quiet
<1>10. WaitsRegistered' BY <1>0, <1>1 DEF WaitsRegistered, Waits, Unread, Registered
<1>. QED BY <1>4, <1>5, <1>6, <1>7, <1>8, <1>9, <1>10 DEF StreamInv

-----------------------------------------------------------------------------
LEMMA InitStreamInv == StreamInit => StreamInv
<1>. SUFFICES ASSUME StreamInit PROVE StreamInv OBVIOUS
<1>1. Types
  <2>1. <<>> \in Seq(Messages) OBVIOUS
  <2>. QED BY <2>1 DEF StreamInit, Types
<1>2. Places BY ElementsEmpty DEF StreamInit, Places, Unread, Registered
<1>3. Answers BY ElementsEmpty DEF StreamInit, Answers, Unread
<1>4. HandleIsKept /\ Registration /\ OneWanted BY DEF StreamInit, HandleIsKept, Registration, OneWanted
<1>5. WaitsRegistered BY DEF StreamInit, WaitsRegistered, Waits
<1>. QED BY <1>1, <1>2, <1>3, <1>4, <1>5 DEF StreamInv

LEMMA NextStreamInv == StreamInv /\ [StreamNext]_streamVars => StreamInv'
<1>. SUFFICES ASSUME StreamInv, [StreamNext]_streamVars PROVE StreamInv' OBVIOUS
<1>1. ASSUME NEW r \in Runs, Begin(r) \/ CtxEnds(r) \/ StreamStart(r) \/ Break(r) PROVE StreamInv'
  BY <1>1, BeginKeeps, CtxEndsKeeps, StreamStartKeeps, BreakKeeps
<1>2. ASSUME NEW r \in Runs, RunStep(r) PROVE StreamInv'
  BY <1>2, DialKeeps, DialFailsKeeps, StartedKeeps, StartFailsKeeps, SendStartedKeeps, CheckContextKeeps,
     StopAndReturnKeeps, ReadFailsKeeps, ReadMessageKeeps, SendDataKeeps, AllSentKeeps DEF RunStep
<1>3. ASSUME NEW r \in Runs, WatcherStep(r) PROVE StreamInv'
  BY <1>3, WatcherLooksKeeps, WatcherStopsKeeps, WatcherClosesKeeps DEF WatcherStep
<1>4. ASSUME NEW h \in Handles, HandleCloses(h) \/ PoolConnection(h) PROVE StreamInv' BY <1>4, HandlesKeep
<1>5. CASE Publish \/ StreamEnd BY <1>5, PublishKeeps, StreamEndKeeps
<1>6. CASE UNCHANGED streamVars
  BY <1>6 DEF streamVars, runVars, kdbVars, seenVars, StreamInv, Types, HandleIsKept, Places, Answers, Registration,
     OneWanted, WaitsRegistered, Quiet, Waits, Unread, Registered
<1>7. CASE Forward
  BY <1>7 DEF Forward, runVars, kdbVars, seenVars, StreamInv, Types, HandleIsKept, Places, Answers, Registration,
     OneWanted, WaitsRegistered, Quiet, Waits, Unread, Registered
<1>. QED BY <1>1, <1>2, <1>3, <1>4, <1>5, <1>6, <1>7 DEF StreamNext, StreamStep

(* The invariant holds of whatever takes only the steps of a stream. *)
THEOREM AlwaysStreamInv == StreamInit /\ [][StreamNext]_streamVars => []StreamInv
<1>. QED BY InitStreamInv, NextStreamInv, PTL

LEMMA StreamInvProtects == StreamInv => PushesOnlyToOwner /\ LiveRunRegistered
<1>. SUFFICES ASSUME StreamInv PROVE PushesOnlyToOwner /\ LiveRunRegistered OBVIOUS
<1>1. PushesOnlyToOwner
  <2>. SUFFICES ASSUME reg # None PROVE owner[reg.handle] = reg.run \/ reg.run \in left
    BY DEF PushesOnlyToOwner
  <2>1. reg.run \in Runs BY DEF StreamInv, Types
  <2>. QED BY <2>1 DEF StreamInv, Registration, HandleIsKept
<1>2. LiveRunRegistered
  <2>. SUFFICES ASSUME NEW r \in Runs,
                       pc[r] \in {"started", "check", "read", "data"}, ctx[r] = "live", link[r] = "open", r \notin left,
                       \A k \in DOMAIN inbox[r] : inbox[r][k].kind \notin Terminal
                PROVE  (reg # None /\ reg.run = r) \/ r \in robbed
    BY DEF LiveRunRegistered
  <2>1. Waits(r) BY DEF Waits, Unread, Elements
  <2>. QED BY <2>1 DEF StreamInv, WaitsRegistered, Registered
<1>. QED BY <1>1, <1>2

-----------------------------------------------------------------------------
(* The page takes no step of a run or of kdb+ but a stream's. *)
LEMMA PageTakesStreamSteps == [Next]_vars => [StreamNext]_streamVars
<1>1. Stream => StreamNext BY DEF Stream, StreamNext
<1>2. Arrive \/ Lose => StreamNext BY DEF Arrive, Lose, StreamNext
<1>3. (\E maxRows \in RowLimits : Subscribe(maxRows)) => UNCHANGED streamVars BY DEF Subscribe
<1>. QED BY <1>1, <1>2, <1>3 DEF Next, vars

(* The runs, kdb+ and the page together behave, towards kdb+, as the stream alone. *)
THEOREM SessionsRunStreams == Spec => StreamInit /\ [][StreamNext]_streamVars
<1>1. Init => StreamInit BY DEF Init
<1>. QED BY <1>1, PageTakesStreamSteps, PTL DEF Spec

(* What kdb+ pushes goes to the run that is registered: its registration names *)
(* a handle that is still its connection's, unless it ended without an         *)
(* answered stop (kdbStream.go:513-520: the watcher stops before it closes).   *)
THEOREM PushesReachTheirRun == Spec => []PushesOnlyToOwner
<1>. QED BY SessionsRunStreams, AlwaysStreamInv, StreamInvProtects, PTL

(* A run that is wanted and works stays registered, unless an earlier run that *)
(* had not finished ending when it began starts or stops the stream            *)
(* (kdbStream.go:498, :516).                                                   *)
THEOREM WaitingRunsAreRegistered == Spec => []LiveRunRegistered
<1>. QED BY SessionsRunStreams, AlwaysStreamInv, StreamInvProtects, PTL

-----------------------------------------------------------------------------
(* What is sent, and the page's session.  Every frame in hand or on its way   *)
(* is one that was published, or a status.                                    *)

RunFits(r) ==
  /\ pc[r] = "idle" <=> ctx[r] = "none"
  /\ pc[r] \in {"check", "read", "data", "stop"} => watcher[r] # "none"
  /\ pc[r] = "ended" => link[r] \in {"none", "closed"}
  /\ hand[r] # <<>> => pc[r] = "data"

RunInv ==
  /\ hand \in [Runs -> Seq(RowFrames)]
  /\ wire \in Seq(PageFrames)
  /\ breaks \in Nat
  /\ \A r \in Runs : RunFits(r)

SessionInv ==
  /\ DOMAIN session = {"frames", "maxRows", "state", "source"}
  /\ DOMAIN session.frames = Keys
  /\ session.state \in {"none", "streaming"} \cup Terminal
  /\ session.source = "completed" <=> session.state \in Terminal
  /\ IF session.state = "none" THEN limits = {} /\ wire = <<>> /\ heard = <<>>
                               ELSE session.maxRows \in limits
  /\ \A k \in Keys : session.frames[k].schema = None => session.frames[k].rows = <<>>

PageInv == StreamInv /\ RunInv /\ SessionInv

LEMMA InitPageInv == Init => PageInv
<1>. SUFFICES ASSUME Init PROVE PageInv OBVIOUS
<1>1. StreamInv BY InitStreamInv DEF Init
<1>2. RunInv
  <2>1. <<>> \in Seq(RowFrames) /\ <<>> \in Seq(PageFrames) OBVIOUS
  <2>2. hand \in [Runs -> Seq(RowFrames)] BY <2>1 DEF Init, StreamInit
  <2>. QED BY <2>1, <2>2 DEF Init, StreamInit, RunInv, RunFits
<1>3. SessionInv BY DEF Init, StreamInit, SessionInv, NoSession, Empty, Terminal
<1>. QED BY <1>1, <1>2, <1>3 DEF PageInv

(* A frame that is sent is last on its way. *)
LEMMA SendsType ==
  ASSUME RunInv, NEW r \in Runs, NEW f \in PageFrames, Sends(r, f) \/ UNCHANGED wire
  PROVE  wire' \in Seq(PageFrames)
<1>1. CASE UNCHANGED wire BY <1>1 DEF RunInv
<1>2. CASE Sends(r, f)
  <2>1. wire' = Append(wire, f) /\ wire \in Seq(PageFrames) BY <1>2 DEF Sends, RunInv
  <2>. QED BY <2>1, ElementsAppend
<1>. QED BY <1>1, <1>2

LEMMA StatusFrames == \A state \in {"running"} \cup Terminal : StatusFrame(state) \in PageFrames
BY DEF PageFrames

(* A run that returns, wherever it was. *)
LEMMA RunReturns ==
  ASSUME Types, RunInv, NEW r \in Runs, pc[r] # "idle", Returns(r),
         UNCHANGED <<ctx, breaks>>, wire' \in Seq(PageFrames)
  PROVE  RunInv'
<1>1. /\ pc'[r] = "ended" /\ link'[r] = "closed" /\ hand'[r] = <<>>
      /\ \A q \in Runs : q # r => /\ pc'[q] = pc[q] /\ link'[q] = link[q]
                                  /\ watcher'[q] = watcher[q] /\ hand'[q] = hand[q]
  BY DEF Types, Returns, Goes, RunInv
<1>2. hand' \in [Runs -> Seq(RowFrames)]
  <2>1. <<>> \in Seq(RowFrames) OBVIOUS
  <2>. QED BY <2>1 DEF RunInv, Returns
<1>3. \A q \in Runs : RunFits(q)' BY <1>1 DEF RunInv, RunFits
<1>. QED BY <1>2, <1>3 DEF RunInv

(* A run that goes on. *)
LEMMA RunMoves ==
  ASSUME Types, RunInv, NEW r \in Runs, pc[r] \notin {"idle", "ended"},
         NEW place \in {"start", "started", "check", "read", "data", "stop"}, Goes(r, place),
         UNCHANGED <<ctx, breaks>>, wire' \in Seq(PageFrames),
         hand' \in [Runs -> Seq(RowFrames)],
         hand'[r] # <<>> => place = "data",
         \A q \in Runs : q # r => link'[q] = link[q] /\ watcher'[q] = watcher[q] /\ hand'[q] = hand[q],
         place \in {"check", "read", "data", "stop"} => watcher'[r] # "none"
  PROVE  RunInv'
<1>1. pc'[r] = place /\ \A q \in Runs : q # r => pc'[q] = pc[q] BY DEF Types, Goes
<1>2. \A q \in Runs : RunFits(q)' BY <1>1 DEF RunInv, RunFits
<1>. QED BY <1>2 DEF RunInv

LEMMA RunStepFits ==
  ASSUME Types, Places, RunInv, NEW r \in Runs, RunStep(r)
  PROVE  RunInv'
<1>0. hand \in [Runs -> Seq(RowFrames)] /\ wire \in Seq(PageFrames) /\ RunFits(r) BY DEF RunInv
<1>1. ASSUME Dial(r) PROVE RunInv'
  <2>1. Goes(r, "start") /\ UNCHANGED <<ctx, watcher, hand, wire, breaks>> /\ link' = [link EXCEPT ![r] = "open"]
    BY <1>1 DEF Dial
  <2>2. pc[r] = "dial" /\ hand[r] = <<>> BY <1>0, <1>1 DEF Dial, RunFits
  <2>3. \A q \in Runs : q # r => link'[q] = link[q] BY <2>1 DEF Types
  <2>. QED BY <1>0, <2>1, <2>2, <2>3, RunMoves
<1>2. ASSUME DialFails(r) PROVE RunInv'
  <2>1. /\ UNCHANGED <<ctx, watcher, link, hand, wire, breaks>> /\ pc[r] = "dial" /\ link[r] = "none"
        /\ pc'[r] = "ended" /\ \A q \in Runs : q # r => pc'[q] = pc[q]
    BY <1>2 DEF DialFails, Goes, Types, Places
  <2>2. \A q \in Runs : RunFits(q)' BY <2>1 DEF RunInv, RunFits
  <2>. QED BY <2>1, <2>2 DEF RunInv
<1>3. ASSUME Started(r) \/ StartFails(r) PROVE RunInv'
  <2>1. pc[r] = "start" /\ UNCHANGED <<ctx, wire, breaks>> BY <1>3 DEF Started, StartFails
  <2>2. hand[r] = <<>> BY <1>0, <2>1 DEF RunFits
  <2>3. Returns(r) \/ (Goes(r, "started") /\ UNCHANGED <<watcher, link, hand>>) BY <1>3 DEF Started, StartFails
  <2>. QED BY <1>0, <2>1, <2>2, <2>3, RunReturns, RunMoves
<1>4. ASSUME SendStarted(r) PROVE RunInv'
  <2>1. pc[r] = "started" /\ UNCHANGED <<ctx, breaks>> BY <1>4 DEF SendStarted
  <2>2. Sends(r, StatusFrame("running")) \/ UNCHANGED wire BY <1>4 DEF SendStarted
  <2>3. wire' \in Seq(PageFrames) BY <2>2, SendsType, StatusFrames
  <2>4. hand[r] = <<>> BY <1>0, <2>1 DEF RunFits
  <2>5. CASE Returns(r) BY <2>1, <2>3, <2>5, RunReturns
  <2>6. CASE /\ Goes(r, "check") /\ watcher' = [watcher EXCEPT ![r] = "spawned"]
             /\ UNCHANGED <<link, inbox, hand, left>>
    <3>1. watcher'[r] = "spawned" /\ \A q \in Runs : q # r => watcher'[q] = watcher[q] BY <2>6 DEF Types
    <3>. QED BY <1>0, <2>1, <2>3, <2>4, <2>6, <3>1, RunMoves
  <2>. QED BY <1>4, <2>5, <2>6 DEF SendStarted
<1>5. ASSUME CheckContext(r) \/ AllSent(r) PROVE RunInv'
  <2>1. /\ pc[r] \in {"check", "data"} /\ UNCHANGED <<ctx, watcher, link, hand, wire, breaks>> /\ hand[r] = <<>>
        /\ \E place \in {"stop", "read", "check"} : Goes(r, place)
    BY <1>0, <1>5 DEF CheckContext, AllSent, RunFits
  <2>2. watcher[r] # "none" BY <1>0, <2>1 DEF RunFits
  <2>. QED BY <1>0, <2>1, <2>2, RunMoves
<1>6. ASSUME StopAndReturn(r) PROVE RunInv'
  <2>1. pc[r] = "stop" /\ Returns(r) /\ UNCHANGED <<ctx, wire, breaks>> BY <1>6 DEF StopAndReturn
  <2>. QED BY <1>0, <2>1, RunReturns
<1>7. ASSUME ReadFails(r) PROVE RunInv'
  <2>1. pc[r] = "read" /\ UNCHANGED <<ctx, wire, breaks>> BY <1>7 DEF ReadFails
  <2>2. hand[r] = <<>> /\ watcher[r] # "none" BY <1>0, <2>1 DEF RunFits
  <2>3. Returns(r) \/ (Goes(r, "stop") /\ UNCHANGED <<watcher, link, hand>>) BY <1>7 DEF ReadFails
  <2>. QED BY <1>0, <2>1, <2>2, <2>3, RunReturns, RunMoves
<1>8. ASSUME ReadMessage(r) PROVE RunInv'
  <2>1. pc[r] = "read" /\ inbox[r] # <<>> /\ UNCHANGED <<ctx, breaks>> BY <1>8 DEF ReadMessage
  <2>2. hand[r] = <<>> /\ watcher[r] # "none" BY <1>0, <2>1 DEF RunFits
  <2>. DEFINE m == Head(inbox[r])
  <2>3. m \in Messages BY <2>1, Read
  <2>. HIDE DEF m
  <2>4. \/ Returns(r) /\ \E state \in {"running"} \cup Terminal : TriesToSend(r, StatusFrame(state))
        \/ Returns(r) /\ UNCHANGED wire
        \/ Sends(r, StatusFrame("running")) /\ Goes(r, "check") /\ UNCHANGED <<watcher, link, hand>>
        \/ hand' = [hand EXCEPT ![r] = m.frames] /\ Goes(r, "data") /\ UNCHANGED <<watcher, link, wire>>
    BY <1>8 DEF ReadMessage, m, Terminal
  <2>5. ASSUME Returns(r), NEW state \in {"running"} \cup Terminal, TriesToSend(r, StatusFrame(state)) PROVE RunInv'
    <3>1. wire' \in Seq(PageFrames) BY <2>5, SendsType, StatusFrames DEF TriesToSend
    <3>. QED BY <2>1, <2>5, <3>1, RunReturns
  <2>6. ASSUME Returns(r), UNCHANGED wire PROVE RunInv' BY <1>0, <2>1, <2>6, RunReturns
  <2>7. ASSUME Sends(r, StatusFrame("running")), Goes(r, "check"), UNCHANGED <<watcher, link, hand>> PROVE RunInv'
    <3>1. wire' \in Seq(PageFrames) BY <2>7, SendsType, StatusFrames
    <3>. QED BY <1>0, <2>1, <2>2, <2>7, <3>1, RunMoves
  <2>8. ASSUME hand' = [hand EXCEPT ![r] = m.frames], Goes(r, "data"), UNCHANGED <<watcher, link, wire>> PROVE RunInv'
    <3>1. m.frames \in Seq(RowFrames) BY <2>3, PublishedFrames DEF Messages
    <3>2. hand' \in [Runs -> Seq(RowFrames)] /\ \A q \in Runs : q # r => hand'[q] = hand[q] BY <1>0, <2>8, <3>1
    <3>. QED BY <1>0, <2>1, <2>2, <2>8, <3>2, RunMoves
  <2>. QED BY <2>4, <2>5, <2>6, <2>7, <2>8
<1>9. ASSUME SendData(r) PROVE RunInv'
  <2>1. pc[r] = "data" /\ hand[r] # <<>> /\ UNCHANGED <<ctx, breaks>> BY <1>9 DEF SendData
  <2>2. Head(hand[r]) \in RowFrames /\ Tail(hand[r]) \in Seq(RowFrames) BY <1>0, <2>1, ElementsTail
  <2>3. CASE Returns(r) /\ UNCHANGED wire BY <1>0, <2>1, <2>3, RunReturns
  <2>4. CASE /\ Sends(r, DataFrame(Head(hand[r])))
             /\ hand' = [hand EXCEPT ![r] = Tail(@)]
             /\ UNCHANGED <<pc, watcher, link, inbox, left>>
    <3>1. DataFrame(Head(hand[r])) \in PageFrames BY <2>2 DEF PageFrames
    <3>2. wire' \in Seq(PageFrames) BY <2>4, <3>1, SendsType
    <3>3. hand' \in [Runs -> Seq(RowFrames)] /\ \A q \in Runs : q # r => hand'[q] = hand[q] BY <1>0, <2>2, <2>4
    <3>4. \A q \in Runs : RunFits(q)' BY <2>1, <2>4, <3>3 DEF RunInv, RunFits
    <3>. QED BY <2>1, <3>2, <3>3, <3>4 DEF RunInv
  <2>. QED BY <1>9, <2>3, <2>4 DEF SendData
<1>. QED BY <1>1, <1>2, <1>3, <1>4, <1>5, <1>6, <1>7, <1>8, <1>9 DEF RunStep

LEMMA NothingFits ==
  ASSUME RunInv, UNCHANGED <<pc, ctx, watcher, link, hand, wire, breaks>>
  PROVE  RunInv'
BY DEF RunInv, RunFits

(* The steps of all others: none sends, none but the network's and a closing   *)
(* watcher's touches a connection.                                            *)
LEMMA OtherStepFits ==
  ASSUME Types, Places, RunInv, UNCHANGED <<hand, wire>>, NEW r \in Runs,
         Begin(r) \/ WatcherStep(r) \/ CtxEnds(r) \/ StreamStart(r) \/ Break(r)
  PROVE  RunInv'
<1>1. CASE Begin(r)
  <2>1. /\ pc[r] = "idle" /\ UNCHANGED <<watcher, link, breaks>> /\ link[r] = "none"
        /\ pc'[r] \in {"dial", "ended"} /\ ctx'[r] = "live"
        /\ \A q \in Runs : q # r => pc'[q] = pc[q] /\ ctx'[q] = ctx[q]
    BY <1>1 DEF Begin, Goes, Types, Places
  <2>2. \A q \in Runs : RunFits(q)' BY <2>1 DEF RunInv, RunFits
  <2>. QED BY <2>1, <2>2 DEF RunInv
<1>2. CASE WatcherStep(r)
  <2>1. /\ UNCHANGED <<pc, ctx, breaks>> /\ watcher[r] # "none" /\ watcher'[r] # "none"
        /\ link'[r] \in {link[r], "closed"}
        /\ \A q \in Runs : q # r => watcher'[q] = watcher[q] /\ link'[q] = link[q]
    BY <1>2 DEF WatcherStep, WatcherLooks, WatcherStops, WatcherCloses, Types
  <2>2. \A q \in Runs : RunFits(q)' BY <2>1 DEF RunInv, RunFits
  <2>. QED BY <2>1, <2>2 DEF RunInv
<1>3. CASE CtxEnds(r)
  <2>1. /\ UNCHANGED <<pc, link, breaks>> /\ ctx[r] = "live" /\ ctx'[r] = "ended"
        /\ \A q \in Runs : q # r => ctx'[q] = ctx[q]
        /\ \A q \in Runs : watcher'[q] = "none" <=> watcher[q] = "none"
    BY <1>3 DEF CtxEnds, Types
  <2>2. \A q \in Runs : RunFits(q)' BY <2>1 DEF RunInv, RunFits
  <2>. QED BY <2>1, <2>2 DEF RunInv
<1>4. CASE Break(r)
  <2>1. /\ UNCHANGED <<pc, ctx, watcher>> /\ link[r] = "open" /\ breaks' = breaks + 1
        /\ \A q \in Runs : q # r => link'[q] = link[q]
    BY <1>4 DEF Break, Types
  <2>2. \A q \in Runs : RunFits(q)' BY <2>1 DEF RunInv, RunFits
  <2>. QED BY <2>1, <2>2 DEF RunInv
<1>5. CASE StreamStart(r) BY <1>5, NothingFits DEF StreamStart
<1>. QED BY <1>1, <1>2, <1>3, <1>4, <1>5

LEMMA StreamFits == ASSUME Types, Places, RunInv, StreamStep PROVE RunInv'
<1>1. ASSUME NEW r \in Runs, RunStep(r) PROVE RunInv' BY <1>1, RunStepFits
<1>2. ASSUME NEW r \in Runs, Begin(r) \/ WatcherStep(r) \/ CtxEnds(r) \/ StreamStart(r) \/ Break(r) PROVE RunInv'
  <2>1. UNCHANGED <<hand, wire>>
    BY <1>2 DEF Begin, WatcherStep, WatcherLooks, WatcherStops, WatcherCloses, CtxEnds, StreamStart, Break
  <2>. QED BY <1>2, <2>1, OtherStepFits
<1>3. ASSUME (\E h \in Handles : HandleCloses(h) \/ PoolConnection(h)) \/ Publish \/ StreamEnd PROVE RunInv'
  <2>1. UNCHANGED <<pc, ctx, watcher, link, hand, wire, breaks>>
    BY <1>3 DEF HandleCloses, PoolConnection, Publish, StreamEnd, runVars
  <2>. QED BY <2>1, NothingFits
<1>. QED BY <1>1, <1>2, <1>3 DEF StreamStep

(* A frame that leaves for the page is one of a session that exists. *)
LEMMA ForwardFits ==
  ASSUME RunInv, SessionInv, Forward
  PROVE  /\ RunInv'
         /\ session.state # "none"
         /\ Head(wire) \in PageFrames
<1>1. wire # <<>> /\ wire' = Tail(wire) /\ wire \in Seq(PageFrames) BY DEF Forward, RunInv
<1>2. Tail(wire) \in Seq(PageFrames) /\ Head(wire) \in PageFrames BY <1>1, ElementsTail
<1>3. UNCHANGED <<pc, ctx, watcher, link, hand, breaks>> BY DEF Forward, runVars
<1>4. RunInv' BY <1>1, <1>2, <1>3 DEF RunInv, RunFits
<1>. QED BY <1>1, <1>2, <1>4 DEF SessionInv

(* What arrives changes the state of a session or the rows of one frame. *)
LEMMA ReceivesFits ==
  ASSUME SessionInv, session.state # "none", session.source = "on", NEW f \in PageFrames, Receives(f)
  PROVE  /\ DOMAIN session' = {"frames", "maxRows", "state", "source"}
         /\ DOMAIN session'.frames = Keys
         /\ session'.state \in {"streaming"} \cup Terminal
         /\ session'.source = "completed" <=> session'.state \in Terminal
         /\ session'.maxRows = session.maxRows
         /\ \A k \in Keys : session'.frames[k].schema = None => session'.frames[k].rows = <<>>
<1>0. "data" \notin Terminal /\ "streaming" \notin Terminal BY DEF Terminal
<1>1. CASE f.state = "data"
  <2>1. PICK g \in RowFrames : f = DataFrame(g) BY <1>0, <1>1 DEF PageFrames, StatusFrame
  <2>2. f.frame = g /\ g.key \in Keys /\ g.schema # None BY <2>1, PublishedFrames DEF DataFrame
  <2>. DEFINE new == Appended(session.frames[g.key], g, session.maxRows)
  <2>3. session' = [session EXCEPT !.state = "streaming", !.frames[g.key] = new]
    BY <1>1, <2>2 DEF Receives
  <2>4. new.schema = g.schema BY DEF Appended
  <2>. HIDE DEF new
  <2>5. /\ session'.frames = [session.frames EXCEPT ![g.key] = new] /\ session'.state = "streaming"
        /\ session'.source = session.source /\ session'.maxRows = session.maxRows
        /\ DOMAIN session' = {"frames", "maxRows", "state", "source"}
    BY <2>3 DEF SessionInv
  <2>6. \A k \in Keys : session'.frames[k] = IF k = g.key THEN new ELSE session.frames[k]
    BY <2>5 DEF SessionInv
  <2>. QED BY <1>0, <2>2, <2>4, <2>5, <2>6 DEF SessionInv
<1>2. CASE f.state # "data"
  <2>. DEFINE state == IF f.state \in Terminal THEN f.state ELSE "streaming"
              source == IF f.state \in Terminal THEN "completed" ELSE session.source
  <2>1. session' = [session EXCEPT !.state = state, !.source = source] BY <1>2 DEF Receives
  <2>2. state \in {"streaming"} \cup Terminal /\ (source = "completed" <=> state \in Terminal) BY <1>0
  <2>. HIDE DEF state, source
  <2>3. /\ session'.frames = session.frames /\ session'.state = state
        /\ session'.source = source /\ session'.maxRows = session.maxRows
        /\ DOMAIN session' = {"frames", "maxRows", "state", "source"}
    BY <2>1 DEF SessionInv
  <2>. QED BY <2>2, <2>3 DEF SessionInv
<1>. QED BY <1>1, <1>2

LEMMA SubscribeFits == ASSUME SessionInv, NEW maxRows \in RowLimits, Subscribe(maxRows) PROVE SessionInv'
<1>1. limits' = limits \cup {maxRows} /\ wire' = wire /\ heard' = heard BY DEF Subscribe, streamVars
<1>2. CASE session.state = "none"
  <2>1. session' = [session EXCEPT !.maxRows = maxRows, !.state = "streaming", !.source = "on"]
    BY <1>2 DEF Subscribe
  <2>2. /\ session'.frames = session.frames /\ session'.state = "streaming"
        /\ session'.source = "on" /\ session'.maxRows = maxRows
        /\ DOMAIN session' = {"frames", "maxRows", "state", "source"}
    BY <2>1 DEF SessionInv
  <2>. QED BY <1>1, <2>2 DEF SessionInv, Terminal
<1>3. CASE session.state # "none"
  <2>1. session' = [session EXCEPT !.maxRows = Larger(session.maxRows, maxRows)] BY <1>3 DEF Subscribe
  <2>2. Larger(session.maxRows, maxRows) \in limits' BY <1>1, <1>3 DEF Larger, SessionInv
  <2>3. /\ session'.frames = session.frames /\ session'.state = session.state
        /\ session'.source = session.source /\ session'.maxRows \in limits'
        /\ DOMAIN session' = {"frames", "maxRows", "state", "source"}
    BY <2>1, <2>2 DEF SessionInv
  <2>. QED BY <1>3, <2>3 DEF SessionInv
<1>. QED BY <1>2, <1>3

LEMMA NextPageInv == ASSUME PageInv, [Next]_vars PROVE PageInv'
<1>0. StreamInv /\ RunInv /\ SessionInv /\ Types /\ Places BY DEF PageInv, StreamInv
<1>1. StreamInv' BY <1>0, PageTakesStreamSteps, NextStreamInv
<1>2. ASSUME Stream PROVE RunInv' /\ SessionInv'
  <2>1. RunInv' BY <1>0, <1>2, StreamFits DEF Stream
  <2>2. session.state # "none" /\ UNCHANGED <<session, heard, limits>> BY <1>2 DEF Stream, pageVars
  <2>. QED BY <1>0, <2>1, <2>2 DEF SessionInv
<1>3. ASSUME NEW maxRows \in RowLimits, Subscribe(maxRows) PROVE RunInv' /\ SessionInv'
  <2>1. UNCHANGED <<pc, ctx, watcher, link, hand, wire, breaks>> BY <1>3 DEF Subscribe, streamVars, runVars
  <2>. QED BY <1>0, <1>3, <2>1, NothingFits, SubscribeFits
<1>4. ASSUME Arrive PROVE RunInv' /\ SessionInv'
  <2>1. Forward /\ limits' = limits BY <1>4 DEF Arrive
  <2>2. RunInv' /\ session.state # "none" /\ Head(wire) \in PageFrames BY <1>0, <2>1, ForwardFits
  <2>3. CASE session.source = "on"
    <3>1. Receives(Head(wire)) BY <1>4, <2>3 DEF Arrive
    <3>2. "none" \notin {"streaming"} \cup Terminal BY DEF Terminal
    <3>. QED BY <1>0, <2>1, <2>2, <2>3, <3>1, <3>2, ReceivesFits DEF SessionInv
  <2>4. CASE session.source # "on"
    <3>1. session' = session BY <1>4, <2>4 DEF Arrive
    <3>. QED BY <1>0, <2>1, <2>2, <3>1 DEF SessionInv
  <2>. QED BY <2>3, <2>4
<1>5. ASSUME Lose PROVE RunInv' /\ SessionInv'
  <2>1. Forward /\ UNCHANGED <<session, heard, limits>> BY <1>5 DEF Lose, pageVars
  <2>2. RunInv' /\ session.state # "none" BY <1>0, <2>1, ForwardFits
  <2>. QED BY <1>0, <2>1, <2>2 DEF SessionInv
<1>6. ASSUME UNCHANGED vars PROVE RunInv' /\ SessionInv'
  <2>1. UNCHANGED <<pc, ctx, watcher, link, hand, wire, breaks>> /\ UNCHANGED <<session, heard, limits>>
    BY <1>6 DEF vars, streamVars, runVars, pageVars
  <2>. QED BY <1>0, <2>1, NothingFits DEF SessionInv
<1>. QED BY <1>1, <1>2, <1>3, <1>4, <1>5, <1>6 DEF Next, PageInv

THEOREM AlwaysPageInv == Spec => []PageInv
BY InitPageInv, NextPageInv, PTL DEF Spec

(* A run, its watcher, its connection and what it has to send stand as the    *)
(* code lets them, and the page's session has completed exactly when it has   *)
(* a terminal status, has the limit of one of its panels, and is there before *)
(* anything is sent to it.                                                    *)
THEOREM TypeCorrect == Spec => []TypeOK
<1>1. PageInv => TypeOK
  <2>. SUFFICES ASSUME PageInv PROVE TypeOK OBVIOUS
  <2>1. Types BY DEF PageInv, StreamInv
  <2>2. StreamTypeOK BY <2>1 DEF StreamTypeOK, Types, PageInv, RunInv, RunFits
  <2>. QED BY <2>2 DEF TypeOK, PageInv, SessionInv
<1>. QED BY <1>1, AlwaysPageInv, PTL

-----------------------------------------------------------------------------
(* The page has, of each frame, the rows that fit what was heard of it before *)
(* the end.                                                                   *)

USE RetentionAssumption

KeyFits(key) ==
  /\ \A n \in Since(BeforeTheEnd, key) : BeforeTheEnd[n].frame.schema = session.frames[key].schema
  /\ RowsFit(session.frames[key].rows, RowsSince(key), session.maxRows, limits)

HeardInv ==
  /\ heard \in Seq(PageFrames)
  /\ limits \subseteq RowLimits /\ IsFiniteSet(limits)
  /\ session.maxRows \in Nat
  /\ session.source = "none" <=> session.state = "none"
  /\ session.source \in {"none", "on", "completed"}
  /\ session.source = "completed" <=> Ended
  /\ session.state = "none" => \A key \in Keys : session.frames[key] = Empty
  /\ \A key \in Keys : KeyFits(key)

LEMMA RowsOfNothing == ASSUME NEW key \in Keys PROVE Since(<<>>, key) = {} /\ RowsOf(<<>>, key) = <<>>
<1>. DEFINE none == <<>>
            N == Len(none)
            parts == Parts(none, key)
<1>1. none \in Seq(PageFrames) /\ N = 0 /\ N \in Nat /\ DOMAIN none = {} OBVIOUS
<1>2. Since(none, key) = {} BY <1>1 DEF Since, Mine
<1>. HIDE DEF none
<1>3. parts \in [1..N -> Seq(Rows)] /\ RowsOf(none, key) = FlattenSeq(parts) BY <1>1, PartsFit
<1>4. \A n \in 1..N : parts[n] = <<>> BY <1>1
<1>. HIDE DEF parts, N
<1>5. FlattenSeq(parts) = <<>> BY <1>1, <1>3, <1>4, FlattenedNothing
<1>. QED BY <1>2, <1>3, <1>5 DEF none

LEMMA BeforeAny == ASSUME heard = <<>> PROVE ~Ended /\ BeforeTheEnd = <<>>
<1>1. DOMAIN heard = {} OBVIOUS
<1>. QED BY <1>1 DEF Ended, BeforeTheEnd

LEMMA KeyStays ==
  ASSUME heard \in Seq(PageFrames), NEW f \in PageFrames, heard' = Append(heard, f),
         NEW key \in Keys, KeyFits(key), Ended \/ ~IsOf(f, key),
         session'.frames[key] = session.frames[key], session'.maxRows = session.maxRows, limits' = limits
  PROVE  KeyFits(key)'
<1>1. CASE Ended
  <2>1. BeforeTheEnd' = BeforeTheEnd BY <1>1, EndStays
  <2>. QED BY <2>1 DEF KeyFits, RowsSince
<1>2. CASE ~Ended /\ ~IsOf(f, key)
  <2>1. BeforeTheEnd = heard /\ BeforeTheEnd' = Append(heard, f) BY <1>2, EndStays
  <2>2. /\ Since(Append(heard, f), key) = Since(heard, key)
        /\ RowsOf(Append(heard, f), key) = RowsOf(heard, key)
    BY <1>2, OthersArrive
  <2>3. \A n \in Since(heard, key) : Append(heard, f)[n] = heard[n]
    <3>1. Since(heard, key) \subseteq 1..Len(heard) BY AppendedArrival DEF Since, Mine
    <3>. QED BY <3>1, AppendedArrival
  <2>4. BeforeTheEnd' = heard' BY <2>1
  <2>5. \A n \in Since(heard', key) : heard'[n].frame.schema = session'.frames[key].schema
    BY <2>1, <2>2, <2>3 DEF KeyFits
  <2>6. RowsOf(heard', key) = RowsSince(key) BY <2>1, <2>2 DEF RowsSince
  <2>. QED BY <2>4, <2>5, <2>6 DEF KeyFits, RowsSince
<1>. QED BY <1>1, <1>2

LEMMA KeyGrows ==
  ASSUME heard \in Seq(PageFrames), NEW f \in PageFrames, heard' = Append(heard, f),
         NEW key \in Keys, KeyFits(key), ~Ended, IsOf(f, key), session.maxRows \in Nat \ {0},
         session'.frames[key] = Appended(session.frames[key], f.frame, session.maxRows),
         session'.maxRows = session.maxRows, limits' = limits
  PROVE  KeyFits(key)'
<1>. DEFINE rows == session.frames[key].rows
            more == f.frame.rows
            max == session.maxRows
            since == RowsOf(heard, key)
            all == Append(heard, f)
<1>1. BeforeTheEnd = heard /\ BeforeTheEnd' = all BY EndStays
<1>2. more \in Seq(Rows) /\ since \in Seq(Rows) BY DataFrames, PartsFit DEF IsOf
<1>3. RowsFit(rows, since, max, limits) BY <1>1 DEF KeyFits, RowsSince
<1>4. session'.frames[key].schema = f.frame.schema BY DEF Appended
<1>5. \A n \in Since(all, key) : all[n].frame.schema = f.frame.schema BY RowsArrive
<1>6. RowsFit(session'.frames[key].rows, RowsOf(all, key), max, limits)
  <2>1. CASE session.frames[key].schema = f.frame.schema
    <3>1. session'.frames[key].rows = Trimmed(rows \o more, max) BY <2>1 DEF Appended
    <3>2. \A n \in Since(heard, key) : heard[n].frame.schema = f.frame.schema BY <1>1, <2>1 DEF KeyFits
    <3>3. RowsOf(all, key) = since \o more BY <3>2, RowsArrive
    <3>. HIDE DEF rows, more, max, since, all
    <3>4. max \in Nat \ {0} BY DEF max
    <3>5. RowsFit(Trimmed(rows \o more, max), since \o more, max, limits) BY <1>2, <1>3, <3>4, GrownFits
    <3>. QED BY <3>1, <3>3, <3>5
  <2>2. CASE session.frames[key].schema # f.frame.schema
    <3>1. session'.frames[key].rows = Trimmed(more, max) BY <2>2 DEF Appended
    <3>2. \A n \in Since(heard, key) : heard[n].frame.schema # f.frame.schema BY <1>1, <2>2 DEF KeyFits
    <3>3. RowsOf(all, key) = more BY <3>2, RowsArrive
    <3>4. RowsFit(Trimmed(more, max), more, max, limits) BY <1>2, FreshFits
    <3>. QED BY <3>1, <3>3, <3>4
  <2>. QED BY <2>1, <2>2
<1>7. \A n \in Since(BeforeTheEnd', key) : BeforeTheEnd'[n].frame.schema = session'.frames[key].schema
  BY <1>1, <1>4, <1>5
<1>8. RowsFit(session'.frames[key].rows, RowsOf(BeforeTheEnd', key), session'.maxRows, limits') BY <1>1, <1>6
<1>. QED BY <1>7, <1>8 DEF KeyFits, RowsSince

LEMMA BeforeFits == ASSUME heard \in Seq(PageFrames) PROVE BeforeTheEnd \in Seq(PageFrames)
<1>. DEFINE ends == {n \in DOMAIN heard : heard[n].state \in Terminal}
            first == CHOOSE n \in ends : \A k \in ends : n <= k
<1>1. DOMAIN heard = 1..Len(heard) /\ Len(heard) \in Nat OBVIOUS
<1>2. ends \in SUBSET Nat /\ ends \subseteq 1..Len(heard) BY <1>1
<1>3. BeforeTheEnd = IF ends = {} THEN heard ELSE SubSeq(heard, 1, first) BY DEF BeforeTheEnd
<1>. HIDE DEF ends
<1>4. ends # {} => \E n \in ends : \A k \in ends : n =< k BY <1>2, HasLeast
<1>5. ends # {} => first \in 1..Len(heard) BY <1>2, <1>4
<1>. HIDE DEF first
<1>6. ends # {} => SubSeq(heard, 1, first) \in Seq(PageFrames) BY <1>1, <1>5
<1>. QED BY <1>3, <1>6

LEMMA InitHeardInv == Init => HeardInv
<1>. SUFFICES ASSUME Init PROVE HeardInv OBVIOUS
<1>1. /\ heard = <<>> /\ limits = {} /\ session.maxRows = 0 /\ session.state = "none" /\ session.source = "none"
      /\ \A key \in Keys : session.frames[key] = Empty
  BY DEF Init, NoSession
<1>2. heard \in Seq(PageFrames) /\ IsFiniteSet(limits) BY <1>1, FS_EmptySet
<1>3. ~Ended /\ BeforeTheEnd = <<>> BY <1>1, BeforeAny
<1>4. ASSUME NEW key \in Keys PROVE KeyFits(key)
  <2>1. Since(BeforeTheEnd, key) = {} /\ RowsSince(key) = <<>> BY <1>3, RowsOfNothing DEF RowsSince
  <2>2. session.frames[key].rows = <<>> BY <1>1 DEF Empty
  <2>3. RowsFit(<<>>, <<>>, session.maxRows, limits) BY <1>1, NothingYetFits
  <2>. QED BY <2>1, <2>2, <2>3 DEF KeyFits
<1>. QED BY <1>1, <1>2, <1>3, <1>4 DEF HeardInv

LEMMA SubscribeHeard ==
  ASSUME SessionInv, HeardInv, NEW maxRows \in RowLimits, Subscribe(maxRows)
  PROVE  HeardInv'
<1>1. limits' = limits \cup {maxRows} /\ heard' = heard /\ maxRows \in Nat BY DEF Subscribe
<1>2. limits' \subseteq RowLimits /\ IsFiniteSet(limits') BY <1>1, FS_AddElement DEF HeardInv
<1>3. (Ended' <=> Ended) /\ BeforeTheEnd' = BeforeTheEnd BY <1>1 DEF Ended, BeforeTheEnd
<1>4. CASE session.state = "none"
  <2>1. session' = [session EXCEPT !.maxRows = maxRows, !.state = "streaming", !.source = "on"]
    BY <1>4 DEF Subscribe
  <2>2. /\ session'.frames = session.frames /\ session'.state = "streaming"
        /\ session'.source = "on" /\ session'.maxRows = maxRows
    BY <2>1 DEF SessionInv
  <2>3. heard = <<>> /\ \A key \in Keys : session.frames[key] = Empty BY <1>4 DEF SessionInv, HeardInv
  <2>4. ~Ended /\ BeforeTheEnd = <<>> BY <2>3, BeforeAny
  <2>5. ASSUME NEW key \in Keys PROVE KeyFits(key)'
    <3>1. Since(BeforeTheEnd', key) = {} /\ RowsOf(BeforeTheEnd', key) = <<>> BY <1>3, <2>4, RowsOfNothing
    <3>2. session'.frames[key].rows = <<>> BY <2>2, <2>3 DEF Empty
    <3>3. RowsFit(<<>>, <<>>, session'.maxRows, limits') BY <1>1, <2>2, NothingYetFits
    <3>. QED BY <3>1, <3>2, <3>3 DEF KeyFits, RowsSince
  <2>. QED BY <1>1, <1>2, <1>3, <2>2, <2>4, <2>5 DEF HeardInv
<1>5. CASE session.state # "none"
  <2>. DEFINE limit == Larger(session.maxRows, maxRows)
  <2>1. session' = [session EXCEPT !.maxRows = limit] BY <1>5 DEF Subscribe
  <2>2. /\ session'.frames = session.frames /\ session'.state = session.state
        /\ session'.source = session.source /\ session'.maxRows = limit
    BY <2>1 DEF SessionInv
  <2>3. session.maxRows \in Nat /\ session.maxRows \in limits BY <1>5 DEF HeardInv, SessionInv
  <2>4. limit \in Nat BY <1>1, <2>3 DEF Larger
  <2>5. ASSUME NEW key \in Keys PROVE KeyFits(key)'
    <3>1. RowsFit(session.frames[key].rows, RowsSince(key), session.maxRows, limits) BY DEF HeardInv, KeyFits
    <3>2. RowsFit(session.frames[key].rows, RowsSince(key), limit, limits \cup {maxRows})
      BY <1>1, <2>3, <2>4, <3>1, RaisedFits
    <3>. QED BY <1>1, <1>3, <2>2, <3>2 DEF HeardInv, KeyFits, RowsSince
  <2>. QED BY <1>1, <1>2, <1>3, <1>5, <2>2, <2>4, <2>5 DEF HeardInv
<1>. QED BY <1>4, <1>5

LEMMA ArriveHeard ==
  ASSUME SessionInv, HeardInv, session.state # "none", NEW f \in PageFrames, f = Head(wire), Arrive
  PROVE  HeardInv'
<1>1. heard' = Append(heard, f) /\ limits' = limits BY DEF Arrive
<1>2. /\ heard' \in Seq(PageFrames)
      /\ Ended' <=> Ended \/ f.state \in Terminal
  BY <1>1, EndStays DEF HeardInv
<1>3. session.maxRows \in Nat \ {0} BY DEF SessionInv, HeardInv
<1>4. "none" \notin Terminal /\ "data" \notin Terminal BY DEF Terminal
<1>5. CASE session.source # "on"
  <2>1. session' = session /\ Ended BY <1>5 DEF Arrive, HeardInv
  <2>2. \A key \in Keys : KeyFits(key)' BY <1>1, <2>1, KeyStays DEF HeardInv
  <2>. QED BY <1>1, <1>2, <2>1, <2>2 DEF HeardInv
<1>6. CASE session.source = "on" /\ f.state = "data"
  <2>. DEFINE k == f.frame.key
              new == Appended(session.frames[k], f.frame, session.maxRows)
  <2>1. k \in Keys /\ ~Ended BY <1>6, DataFrames DEF HeardInv
  <2>2. session' = [session EXCEPT !.state = "streaming", !.frames[k] = new] BY <1>6 DEF Arrive, Receives
  <2>. HIDE DEF new
  <2>3. /\ session'.frames = [session.frames EXCEPT ![k] = new] /\ session'.state = "streaming"
        /\ session'.source = session.source /\ session'.maxRows = session.maxRows
    BY <2>2 DEF SessionInv
  <2>4. \A key \in Keys : session'.frames[key] = IF key = k THEN new ELSE session.frames[key]
    BY <2>3 DEF SessionInv
  <2>5. ASSUME NEW key \in Keys PROVE KeyFits(key)'
    <3>1. CASE key = k
      <4>1. IsOf(f, key) BY <1>6, <3>1 DEF IsOf
      <4>2. session'.frames[key] = Appended(session.frames[key], f.frame, session.maxRows)
        BY <2>4, <3>1 DEF new
      <4>. QED BY <1>1, <1>3, <2>1, <2>3, <4>1, <4>2, KeyGrows DEF HeardInv
    <3>2. CASE key # k
      <4>1. ~IsOf(f, key) /\ session'.frames[key] = session.frames[key] BY <2>4, <3>2 DEF IsOf
      <4>. QED BY <1>1, <2>3, <4>1, KeyStays DEF HeardInv
    <3>. QED BY <3>1, <3>2
  <2>. QED BY <1>1, <1>2, <1>3, <1>4, <1>6, <2>1, <2>3, <2>5 DEF HeardInv
<1>7. CASE session.source = "on" /\ f.state # "data"
  <2>. DEFINE state == IF f.state \in Terminal THEN f.state ELSE "streaming"
              source == IF f.state \in Terminal THEN "completed" ELSE session.source
  <2>1. session' = [session EXCEPT !.state = state, !.source = source] BY <1>7 DEF Arrive, Receives
  <2>2. /\ session'.frames = session.frames /\ session'.state = state
        /\ session'.source = source /\ session'.maxRows = session.maxRows
    BY <2>1 DEF SessionInv
  <2>3. ~Ended /\ state # "none" /\ source # "none" /\ source \in {"on", "completed"}
        /\ (source = "completed" <=> f.state \in Terminal)
    BY <1>4, <1>7 DEF HeardInv
  <2>4. \A key \in Keys : KeyFits(key)'
    <3>1. \A key \in Keys : ~IsOf(f, key) BY <1>7 DEF IsOf
    <3>. QED BY <1>1, <2>2, <3>1, KeyStays DEF HeardInv
  <2>. HIDE DEF state, source
  <2>. QED BY <1>1, <1>2, <1>3, <2>2, <2>3, <2>4 DEF HeardInv
<1>. QED BY <1>5, <1>6, <1>7

LEMMA NothingHeard ==
  ASSUME HeardInv, UNCHANGED <<session, heard, limits>>
  PROVE  HeardInv'
<1>1. (Ended' <=> Ended) /\ BeforeTheEnd' = BeforeTheEnd BY DEF Ended, BeforeTheEnd
<1>2. \A key \in Keys : KeyFits(key)' <=> KeyFits(key) BY <1>1 DEF KeyFits, RowsSince
<1>. QED BY <1>1, <1>2 DEF HeardInv

LEMMA NextHeardInv == ASSUME PageInv, HeardInv, [Next]_vars PROVE HeardInv'
<1>0. RunInv /\ SessionInv BY DEF PageInv
<1>1. CASE Stream \/ Lose \/ UNCHANGED vars
  <2>1. UNCHANGED <<session, heard, limits>> BY <1>1 DEF Stream, Lose, vars, pageVars
  <2>. QED BY <2>1, NothingHeard
<1>2. ASSUME NEW maxRows \in RowLimits, Subscribe(maxRows) PROVE HeardInv' BY <1>0, <1>2, SubscribeHeard
<1>3. CASE Arrive
  <2>1. Forward BY <1>3 DEF Arrive
  <2>2. session.state # "none" /\ Head(wire) \in PageFrames BY <1>0, <2>1, ForwardFits
  <2>. QED BY <1>0, <1>3, <2>2, ArriveHeard
<1>. QED BY <1>1, <1>2, <1>3 DEF Next

(* A page that has heard all a stream sent shows, of each frame, the last     *)
(* rows since its schema changed, no more than the largest Max Rows, and with *)
(* one Max Rows and times that ascend, exactly what the retention keeps of    *)
(* all that was sent: for any number of panels, frames and publications       *)
(* (datasource.ts appendFrame, retentionStartIndex).                          *)
THEOREM LatestRowsShown == Spec => []LatestRows
<1>1. Spec => []HeardInv
  <2>1. PageInv /\ HeardInv /\ [Next]_vars => HeardInv' BY NextHeardInv
  <2>. QED BY <2>1, InitHeardInv, AlwaysPageInv, PTL DEF Spec
<1>2. SessionInv /\ HeardInv => LatestRows
  <2>. SUFFICES ASSUME SessionInv, HeardInv, session.state # "none", NEW key \in Keys
                PROVE  /\ Len(session.frames[key].rows) <= session.maxRows
                       /\ IsSuffix(session.frames[key].rows, RowsSince(key))
                       /\ Cardinality(limits) = 1 /\ Ascending(RowsSince(key))
                            => session.frames[key].rows = Trimmed(RowsSince(key), session.maxRows)
                       /\ RowsSince(key) # <<>> => session.frames[key].rows # <<>>
    BY DEF LatestRows
  <2>. DEFINE rows == session.frames[key].rows
              since == RowsSince(key)
  <2>1. RowsFit(rows, since, session.maxRows, limits) BY DEF HeardInv, KeyFits
  <2>2. since \in Seq(Rows) BY BeforeFits, PartsFit DEF RowsSince, HeardInv
  <2>3. IsSuffix(rows, since) BY <2>1, <2>2, EndsIsSuffix DEF RowsFit
  <2>4. ASSUME Cardinality(limits) = 1 PROVE limits \subseteq {session.maxRows}
    <3>1. PICK limit : limits = {limit} BY <2>4, FS_Singleton DEF HeardInv
    <3>2. session.maxRows \in limits BY DEF SessionInv
    <3>. QED BY <3>1, <3>2
  <2>. QED BY <2>1, <2>3, <2>4 DEF RowsFit
<1>3. PageInv => SessionInv BY DEF PageInv
<1>. QED BY <1>1, <1>2, <1>3, AlwaysPageInv, PTL
===============================================================================
