---------------------------- MODULE KdbFramesProofs ----------------------------
(***************************************************************************)
(* What the parsers of kdb+ answers do for every answer kdb+ may send.       *)
(***************************************************************************)
EXTENDS KdbFrames, SequenceFacts

(* The names of row dictionaries *)

LEMMA FirstAppearancesOnly ==
  ASSUME NEW S, NEW names \in Seq(S)
  PROVE  FirstAppearances(names) \in Seq(S) /\ ToSet(FirstAppearances(names)) = ToSet(names)
<1>. DEFINE N == Len(names)
            Next(s, n) == IF Contains(s, names[n]) THEN s ELSE Append(s, names[n])
            Fits(f) == f = [n \in 0..N |-> IF n = 0 THEN <<>>
                                          ELSE IF Contains(f[n - 1], names[n]) THEN f[n - 1]
                                               ELSE Append(f[n - 1], names[n])]
            upTo == CHOOSE f : Fits(f)
            Seen(n) == {names[i] : i \in 1..n}
            Right(s, n) == s \in Seq(S) /\ ToSet(s) = Seen(n)
<1>1. N \in Nat /\ \A n \in 1..N : names[n] \in S BY DEF N
<1>2. FirstAppearances(names) = upTo[N] BY DEF FirstAppearances
<1>3. \A s \in Seq(S), n \in 1..N : Next(s, n) \in Seq(S) BY <1>1
<1>4. \E f : Fits(f)
  <2>. DEFINE step == [s \in Seq(S) |-> [n \in 1..N |-> Next(s, n)]]
  <2>1. step \in [Seq(S) -> [1..N -> Seq(S)]]
    <3>. HIDE DEF Next, N
    <3>. QED BY <1>3
  <2>2. PICK g \in [0..N -> Seq(S)] : \A n \in 0..N : g[n] = IF n = 0 THEN <<>> ELSE step[g[n - 1]][n]
    <3>. DEFINE Seqs == Seq(S)
                empty == <<>>
    <3>1. empty \in Seqs /\ step \in [Seqs -> [1..N -> Seqs]]
      <4>1. <<>> \in Seq(S) OBVIOUS
      <4>. HIDE DEF step
      <4>. QED BY <2>1, <4>1
    <3>. HIDE DEF Seqs, empty, step, N
    <3>2. \E g \in [0..N -> Seqs] : Recursive(g, N, empty, step) BY <1>1, <3>1, Recursion
    <3>. QED BY <3>2 DEF Seqs, empty, Recursive
  <2>3. ASSUME NEW n \in 0..N, n # 0 PROVE g[n] = Next(g[n - 1], n)
    <3>. HIDE DEF N
    <3>1. n \in 1..N /\ n - 1 \in 0..N BY <1>1, <2>3
    <3>. HIDE DEF Next
    <3>2. g[n - 1] \in Seq(S) BY <3>1
    <3>3. step[g[n - 1]][n] = Next(g[n - 1], n) BY <3>1, <3>2
    <3>. HIDE DEF step
    <3>. QED BY <2>2, <2>3, <3>3
  <2>4. g[0] = <<>>
    <3>. HIDE DEF step, N
    <3>1. 0 \in 0..N BY <1>1
    <3>. QED BY <2>2, <3>1
  <2>5. Fits(g)
    <3>. HIDE DEF step, N
    <3>1. \A n \in 0..N : g[n] = IF n = 0 THEN <<>>
                                ELSE IF Contains(g[n - 1], names[n]) THEN g[n - 1] ELSE Append(g[n - 1], names[n])
      BY <2>3, <2>4
    <3>. QED BY <3>1
  <2>. QED BY <2>5
<1>5. Fits(upTo)
  <2>. HIDE DEF Fits
  <2>. QED BY <1>4
<1>. HIDE DEF upTo, N
<1>6. Right(upTo[0], 0)
  <2>1. 0 \in 0..N BY <1>1
  <2>2. upTo[0] = <<>> BY <1>5, <2>1
  <2>3. <<>> \in Seq(S) /\ ToSet(<<>>) = {} BY DEF ToSet
  <2>4. Seen(0) = {} OBVIOUS
  <2>. QED BY <2>2, <2>3, <2>4
<1>7. ASSUME NEW n \in 1..N, Right(upTo[n - 1], n - 1) PROVE Right(upTo[n], n)
  <2>1. n \in 0..N /\ n # 0 BY <1>1
  <2>2. upTo[n] = Next(upTo[n - 1], n) BY <1>5, <2>1
  <2>3. Seen(n) = Seen(n - 1) \cup {names[n]}
    <3>1. \A i \in 1..n : i \in 1..(n - 1) \/ i = n BY <1>1
    <3>2. (\A i \in 1..(n - 1) : i \in 1..n) /\ n \in 1..n BY <1>1
    <3>. QED BY <3>1, <3>2
  <2>. HIDE DEF Seen
  <2>. DEFINE s == upTo[n - 1]
  <2>4. s \in Seq(S) /\ ToSet(s) = Seen(n - 1) BY <1>7
  <2>. HIDE DEF s
  <2>5. CASE Contains(s, names[n])
    <3>1. names[n] \in ToSet(s) BY <2>4, <2>5 DEF Contains, ToSet
    <3>2. upTo[n] = s BY <2>2, <2>5 DEF s
    <3>. QED BY <2>3, <2>4, <3>1, <3>2
  <2>6. CASE ~Contains(s, names[n])
    <3>1. upTo[n] = Append(s, names[n]) BY <2>2, <2>6 DEF s
    <3>. QED BY <1>1, <2>3, <2>4, <3>1, ToSetOfAppended
  <2>. QED BY <2>5, <2>6
<1>8. Right(upTo[N], N)
  <2>. DEFINE P == {n \in 0..N : Right(upTo[n], n)}
  <2>. HIDE DEF Right
  <2>1. 0 \in 0..N /\ N \in 0..N /\ \A n \in 1..N : n \in 0..N BY <1>1
  <2>2. 0 \in P /\ \A n \in 1..N : n - 1 \in P => n \in P BY <1>6, <1>7, <2>1
  <2>. HIDE DEF P
  <2>3. N \in P BY <1>1, <2>1, <2>2, Induction
  <2>. QED BY <2>3 DEF P
<1>9. Seen(N) = ToSet(names) BY DEF ToSet, N
<1>. QED BY <1>2, <1>8, <1>9

LEMMA NamesOfAll ==
  ASSUME NEW S, NEW N \in Nat, NEW rows, DOMAIN rows = 1..N, \A i \in 1..N : RowNames(rows[i]) \in Seq(S)
  PROVE  /\ UnionNames(rows) \in Seq(S)
         /\ ToSet(UnionNames(rows)) = UNION {ToSet(RowNames(rows[i])) : i \in 1..N}
<1>. DEFINE seqs == [i \in 1..N |-> RowNames(rows[i])]
<1>1. seqs \in [1..N -> Seq(S)] OBVIOUS
<1>2. UnionNames(rows) = FirstAppearances(FlattenSeq(seqs)) BY DEF UnionNames
<1>3. {ToSet(seqs[i]) : i \in 1..N} = {ToSet(RowNames(rows[i])) : i \in 1..N} OBVIOUS
<1>. HIDE DEF seqs
<1>. DEFINE flat == FlattenSeq(seqs)
<1>4. flat \in Seq(S) /\ ToSet(flat) = UNION {ToSet(seqs[i]) : i \in 1..N} BY <1>1, FlattenedSeq
<1>. HIDE DEF flat
<1>5. FirstAppearances(flat) \in Seq(S) /\ ToSet(FirstAppearances(flat)) = ToSet(flat) BY <1>4, FirstAppearancesOnly
<1>6. UnionNames(rows) = FirstAppearances(flat) BY <1>2 DEF flat
<1>. QED BY <1>3, <1>4, <1>5, <1>6, Zenon

IsField(field) == field = [name |-> field.name, ty |-> field.ty, cells |-> field.cells]

IsFrameOf(frame, n) == DOMAIN frame = 1..n /\ frame = [c \in 1..n |-> frame[c]] /\ \A c \in 1..n : IsField(frame[c])

Named(frame, time) == \E c \in DOMAIN frame : frame[c].name = time

(* The p-th column is moved to the front, the others stay in their order. *)
MovedToFront(new, frame, n, p) ==
  /\ DOMAIN new = 1..n
  /\ \A c \in 1..n : new[c] = IF c = 1 THEN frame[p] ELSE IF c =< p THEN frame[c - 1] ELSE frame[c]

LEMMA TimeFirstMoves ==
  ASSUME NEW n \in Nat, NEW frame, IsFrameOf(frame, n), NEW time, Named(frame, time)
  PROVE  \E p \in 1..n : MovedToFront(TimeFirst(frame, time), frame, n, p)
<1>. DEFINE IsPlace(i) == i \in 1..n /\ frame[i].name = time /\ \A j \in 1..(i - 1) : frame[j].name # time
            place == CHOOSE i : IsPlace(i)
            named == {i \in 1..n : frame[i].name = time}
<1>1. DOMAIN frame = 1..n /\ frame = [c \in 1..n |-> frame[c]] BY DEF IsFrameOf
<1>2. \E i : IsPlace(i)
  <2>1. named \in SUBSET Nat /\ named # {} BY <1>1 DEF Named
  <2>2. PICK i \in named : \A j \in named : i =< j
    <3>. HIDE DEF named
    <3>. QED BY <2>1, HasLeast
  <2>3. \A j \in 1..(i - 1) : j \in 1..n /\ ~(i =< j) OBVIOUS
  <2>. QED BY <2>2, <2>3
<1>3. IsPlace(place)
  <2>. HIDE DEF IsPlace
  <2>. QED BY <1>2
<1>4. TimeFirst(frame, time) = <<frame[place]>> \o RemoveAt(frame, place) BY <1>1 DEF TimeFirst
<1>. HIDE DEF place
<1>. DEFINE S == ToSet(frame)
            left == SubSeq(frame, 1, place - 1)
            right == SubSeq(frame, place + 1, n)
<1>5. frame \in Seq(S) /\ Len(frame) = n /\ place \in 1..n BY <1>1, <1>3, SeqOfFunction
<1>. HIDE DEF S
<1>6. /\ left \in Seq(S) /\ Len(left) = place - 1 /\ \A i \in 1..(place - 1) : left[i] = frame[i]
      /\ right \in Seq(S) /\ Len(right) = n - place /\ \A i \in 1..(n - place) : right[i] = frame[place + i]
      /\ <<frame[place]>> \in Seq(S)
  BY <1>5
<1>7. TimeFirst(frame, time) = <<frame[place]>> \o (left \o right) BY <1>4, <1>5 DEF RemoveAt
<1>. HIDE DEF left, right
<1>8. <<frame[place]>> \o (left \o right) =
        [c \in 1..n |-> IF c = 1 THEN frame[place] ELSE IF c =< place THEN frame[c - 1] ELSE frame[c]]
  <2>. DEFINE front == <<frame[place]>>
              rest == left \o right
              whole == front \o rest
  <2>1. place \in Nat /\ place - 1 \in Nat /\ n - place \in Nat BY <1>5
  <2>2. /\ rest \in Seq(S) /\ Len(rest) = n - 1
        /\ \A i \in 1..(place - 1) : rest[i] = frame[i]
        /\ \A i \in 1..(n - place) : rest[place - 1 + i] = frame[place + i]
    <3>0. left \in Seq(S) /\ right \in Seq(S) BY <1>6
    <3>1. /\ rest \in Seq(S) /\ Len(rest) = Len(left) + Len(right)
          /\ \A i \in 1..Len(left) : rest[i] = left[i]
          /\ \A i \in 1..Len(right) : rest[Len(left) + i] = right[i]
      BY <3>0, JoinedParts
    <3>. HIDE DEF rest
    <3>2. /\ Len(rest) = (place - 1) + (n - place)
          /\ \A i \in 1..(place - 1) : rest[i] = frame[i]
          /\ \A i \in 1..(n - place) : rest[place - 1 + i] = frame[place + i]
      BY <1>6, <3>1, Zenon
    <3>3. (place - 1) + (n - place) = n - 1 BY <2>1
    <3>. QED BY <3>1, <3>2, <3>3
  <2>3. front \in Seq(S) /\ Len(front) = 1 /\ front[1] = frame[place] BY <1>6
  <2>. HIDE DEF front, rest
  <2>4. /\ whole \in Seq(S) /\ Len(whole) = Len(front) + Len(rest)
        /\ \A i \in 1..Len(front) : whole[i] = front[i]
        /\ \A i \in 1..Len(rest) : whole[Len(front) + i] = rest[i]
    <3>1. front \in Seq(S) /\ rest \in Seq(S) BY <2>2, <2>3
    <3>. QED BY <3>1, JoinedParts
  <2>. HIDE DEF whole
  <2>5. Len(whole) = n
    <3>1. Len(whole) = 1 + (n - 1) BY <2>2, <2>3, <2>4, Zenon
    <3>. QED BY <3>1
  <2>6. whole[1] = frame[place] /\ \A i \in 1..(n - 1) : whole[1 + i] = rest[i]
    <3>1. 1 \in 1..1 OBVIOUS
    <3>. QED BY <2>2, <2>3, <2>4, <3>1, Zenon
  <2>7. ASSUME NEW c \in 1..n, c # 1 PROVE whole[c] = rest[c - 1]
    <3>1. c - 1 \in 1..(n - 1) /\ 1 + (c - 1) = c BY <2>7
    <3>. QED BY <2>6, <3>1
  <2>8. ASSUME NEW c \in 1..n, c # 1, c =< place PROVE whole[c] = frame[c - 1]
    <3>1. c - 1 \in 1..(place - 1) BY <2>1, <2>8
    <3>. QED BY <2>2, <2>7, <2>8, <3>1
  <2>9. ASSUME NEW c \in 1..n, c # 1, ~(c =< place) PROVE whole[c] = frame[c]
    <3>1. c - place \in 1..(n - place) /\ place - 1 + (c - place) = c - 1 /\ place + (c - place) = c BY <2>1, <2>9
    <3>2. rest[place - 1 + (c - place)] = frame[place + (c - place)] BY <2>2, <3>1
    <3>. QED BY <2>7, <2>9, <3>1, <3>2
  <2>10. whole = [c \in 1..n |-> whole[c]] BY <2>4, <2>5
  <2>11. whole = [c \in 1..n |-> IF c = 1 THEN frame[place] ELSE IF c =< place THEN frame[c - 1] ELSE frame[c]]
    BY <2>6, <2>8, <2>9, <2>10
  <2>. QED BY <2>11 DEF whole, front, rest
<1>9. TimeFirst(frame, time) =
        [c \in 1..n |-> IF c = 1 THEN frame[place] ELSE IF c =< place THEN frame[c - 1] ELSE frame[c]]
  BY <1>7, <1>8
<1>10. MovedToFront(TimeFirst(frame, time), frame, n, place) BY <1>9 DEF MovedToFront
<1>. QED BY <1>5, <1>10

-----------------------------------------------------------------------------
(* Columns *)

Supported(o) == o.t \in {"list", "chars", "vec"}

LEMMA ColumnTypeKnown ==
  ASSUME NEW of \in KdbTypes
  PROVE  ColumnType(of) # "unsupported"
BY DEF KdbTypes, ColumnType

LEMMA StandardColumnIs ==
  ASSUME NEW o, Shaped(o)
  PROVE  /\ StandardColumn(o).ty # "unsupported" <=> Supported(o)
         /\ Supported(o) => Len(StandardColumn(o).cells) = Size(o) /\ Size(o) \in Nat
<1>1. CASE o.t = "list"
  <2>1. o.items \in Seq(ToSet(o.items)) BY <1>1 DEF Shaped
  <2>2. StandardColumn(o) = Column("string", Texts(o.items)) BY <1>1 DEF StandardColumn
  <2>3. Size(o) = Len(o.items) BY <1>1 DEF Size, Count
  <2>4. Len(o.items) \in Nat /\ DOMAIN o.items = 1..Len(o.items) BY <2>1
  <2>5. Len(Texts(o.items)) = Len(o.items) BY <2>4 DEF Texts
  <2>. QED BY <1>1, <2>2, <2>3, <2>4, <2>5 DEF Column, Supported
<1>2. CASE o.t \in {"chars", "vec"}
  <2>1. o.vs \in Seq(ToSet(o.vs)) /\ (o.t = "vec" => o.of \in KdbTypes) BY <1>2 DEF Shaped
  <2>2. DOMAIN o.vs = 1..Len(o.vs) /\ Len(o.vs) \in Nat BY <2>1
  <2>3. Size(o) = Len(o.vs) BY <1>2 DEF Size, Count
  <2>4. StandardColumn(o) = Column(IF o.t = "vec" THEN ColumnType(o.of) ELSE "string", [i \in DOMAIN o.vs |-> <<o.vs[i]>>])
    BY <1>2 DEF StandardColumn, Chars
  <2>5. Len([i \in DOMAIN o.vs |-> <<o.vs[i]>>]) = Len(o.vs) BY <2>2
  <2>. QED BY <1>2, <2>1, <2>2, <2>3, <2>4, <2>5, ColumnTypeKnown DEF Column, Supported
<1>3. CASE ~Supported(o)
  <2>1. StandardColumn(o) = Column("unsupported", <<>>) BY <1>3 DEF StandardColumn, Supported
  <2>. QED BY <1>3, <2>1 DEF Column
<1>. QED BY <1>1, <1>2, <1>3 DEF Supported

LEMMA ProjectedColumn ==
  ASSUME NEW ty, NEW v, NEW depth \in Nat
  PROVE  ProjectAtom(ty, v, depth).ty = ty /\ Len(ProjectAtom(ty, v, depth).cells) = depth
BY DEF ProjectAtom, Column

(* A column of a group is as long as the group is deep, unless it is a list   *)
(* of another length.                                                        *)
LEMMA GroupedColumnIs ==
  ASSUME NEW item, Shaped(item), NEW inKeyPlace, NEW depth
  PROVE  /\ GroupedColumn(item, inKeyPlace, depth).ty # "unsupported" <=> Plain(item)
         /\ depth \in Nat /\ Plain(item) =>
              /\ Len(GroupedColumn(item, inKeyPlace, depth).cells) = IF item.t \in {"atom", "chars"} THEN depth ELSE Size(item)
              /\ Len(GroupedColumn(item, inKeyPlace, depth).cells) \in Nat
<1>. DEFINE column == GroupedColumn(item, inKeyPlace, depth)
<1>1. CASE item.t = "atom"
  <2>1. column = ProjectAtom(ColumnType(item.of), item.vs, depth) /\ item.of \in KdbTypes
    BY <1>1 DEF GroupedColumn, Shaped
  <2>. HIDE DEF column
  <2>2. column.ty = ColumnType(item.of) BY <2>1 DEF ProjectAtom, Column
  <2>. QED BY <1>1, <2>1, <2>2, ColumnTypeKnown, ProjectedColumn DEF Plain, column
<1>2. CASE item.t = "chars" /\ (inKeyPlace \/ Size(item) # depth)
  <2>1. column = ProjectAtom("string", item.vs, depth) BY <1>2 DEF GroupedColumn
  <2>. HIDE DEF column
  <2>2. column.ty = "string" BY <2>1 DEF ProjectAtom, Column
  <2>. QED BY <1>2, <2>1, <2>2, ProjectedColumn DEF Plain, column
<1>3. CASE item.t # "atom" /\ ~(item.t = "chars" /\ (inKeyPlace \/ Size(item) # depth))
  <2>1. column = StandardColumn(item) BY <1>3 DEF GroupedColumn
  <2>2. Supported(item) <=> Plain(item) BY <1>3 DEF Plain, Supported
  <2>. HIDE DEF column
  <2>. QED BY <1>3, <2>1, <2>2, StandardColumnIs DEF column
<1>. QED BY <1>1, <1>2, <1>3

LEMMA ObjectColumnIs ==
  ASSUME NEW o, Shaped(o), NEW depth
  PROVE  /\ ObjectColumn(o, depth).ty # "unsupported" <=> Plain(o)
         /\ depth \in Nat /\ Plain(o) =>
              /\ Len(ObjectColumn(o, depth).cells) \in Nat
              /\ o.t \in {"atom", "chars"} => Len(ObjectColumn(o, depth).cells) = depth
              /\ o.t \notin {"atom", "chars"} /\ Size(o) \in {1, depth} /\ depth # 0 =>
                   Len(ObjectColumn(o, depth).cells) = depth
<1>. DEFINE column == ObjectColumn(o, depth)
<1>1. CASE o.t = "atom"
  <2>1. column = ProjectAtom(ColumnType(o.of), o.vs, depth) /\ o.of \in KdbTypes
    BY <1>1 DEF ObjectColumn, Shaped
  <2>. HIDE DEF column
  <2>2. column.ty = ColumnType(o.of) BY <2>1 DEF ProjectAtom, Column
  <2>. QED BY <1>1, <2>1, <2>2, ColumnTypeKnown, ProjectedColumn DEF Plain, column
<1>2. CASE o.t = "chars"
  <2>1. column = ProjectAtom("string", o.vs, depth) BY <1>2 DEF ObjectColumn
  <2>. HIDE DEF column
  <2>2. column.ty = "string" BY <2>1 DEF ProjectAtom, Column
  <2>. QED BY <1>2, <2>1, <2>2, ProjectedColumn DEF Plain, column
<1>3. CASE o.t \notin {"atom", "chars"}
  <2>. DEFINE standard == StandardColumn(o)
  <2>1. column = Resize(standard, depth) BY <1>3 DEF ObjectColumn
  <2>2. Supported(o) <=> Plain(o) BY <1>3 DEF Plain, Supported
  <2>. HIDE DEF column, standard
  <2>3. standard.ty # "unsupported" <=> Plain(o) BY <2>2, StandardColumnIs DEF standard
  <2>4. column.ty = standard.ty BY <2>1 DEF Resize, Column
  <2>5. ASSUME depth \in Nat, Plain(o), Size(o) \in {1, depth}, depth # 0 PROVE Len(column.cells) = depth
    <3>1. Len(standard.cells) = Size(o) BY <2>2, <2>5, StandardColumnIs DEF standard
    <3>2. CASE Size(o) = 1 /\ depth > 1
      <4>1. column = Column(standard.ty, [i \in 1..depth |-> standard.cells[1]]) BY <2>1, <3>1, <3>2 DEF Resize
      <4>. QED BY <2>5, <4>1 DEF Column
    <3>3. CASE ~(Size(o) = 1 /\ depth > 1)
      <4>1. column = standard BY <2>1, <3>1, <3>3 DEF Resize
      <4>2. Size(o) = depth BY <2>5, <3>3
      <4>. QED BY <3>1, <4>1, <4>2
    <3>. QED BY <3>2, <3>3
  <2>6. ASSUME depth \in Nat, Plain(o) PROVE Len(column.cells) \in Nat
    <3>1. Len(standard.cells) \in Nat BY <2>2, <2>6, StandardColumnIs DEF standard
    <3>2. CASE Len(standard.cells) = 1 /\ depth > 1
      <4>1. column = Column(standard.ty, [i \in 1..depth |-> standard.cells[1]]) BY <2>1, <3>2 DEF Resize
      <4>. QED BY <2>6, <4>1 DEF Column
    <3>3. CASE ~(Len(standard.cells) = 1 /\ depth > 1)
      <4>1. column = standard BY <2>1, <3>3 DEF Resize
      <4>. QED BY <3>1, <4>1
    <3>. QED BY <3>2, <3>3
  <2>. QED BY <1>3, <2>3, <2>4, <2>5, <2>6 DEF column
<1>. QED BY <1>1, <1>2, <1>3

LEMMA RecordIsField ==
  ASSUME NEW name, NEW ty, NEW cells, NEW f, f = [name |-> name, ty |-> ty, cells |-> cells]
  PROVE  IsField(f) /\ f.name = name /\ f.ty = ty /\ f.cells = cells
<1>1. f.name = name /\ f.ty = ty /\ f.cells = cells OBVIOUS
<1>. QED BY <1>1, Zenon DEF IsField

LEMMA RenamedIsField ==
  ASSUME NEW f, IsField(f), NEW x
  PROVE  IsField([f EXCEPT !.name = x]) /\ [f EXCEPT !.name = x].ty = f.ty /\ [f EXCEPT !.name = x].cells = f.cells
<1>. DEFINE g == [f EXCEPT !.name = x]
            ty == f.ty
            cells == f.cells
<1>1. PICK name : f = [name |-> name, ty |-> ty, cells |-> cells] BY DEF IsField
<1>2. g = [name |-> x, ty |-> ty, cells |-> cells]
  <2>. HIDE DEF ty, cells
  <2>. QED BY <1>1
<1>. HIDE DEF g, ty, cells
<1>3. IsField(g) /\ g.ty = ty /\ g.cells = cells BY <1>2, RecordIsField
<1>. QED BY <1>3 DEF g, ty, cells

LEMMA FieldsAre ==
  ASSUME NEW n \in Nat, NEW names, DOMAIN names = 1..n, NEW columns
  PROVE  /\ IsFrameOf(Fields(names, columns), n)
         /\ \A i \in 1..n : /\ Fields(names, columns)[i].name = names[i]
                            /\ Fields(names, columns)[i].ty = columns[i].ty
                            /\ Fields(names, columns)[i].cells = columns[i].cells
<1>. DEFINE frame == Fields(names, columns)
<1>1. frame = [i \in 1..n |-> [name |-> names[i], ty |-> columns[i].ty, cells |-> columns[i].cells]] BY DEF Fields
<1>. HIDE DEF frame
<1>2. ASSUME NEW i \in 1..n
      PROVE  /\ IsField(frame[i])
             /\ frame[i].name = names[i] /\ frame[i].ty = columns[i].ty /\ frame[i].cells = columns[i].cells
  <2>1. frame[i] = [name |-> names[i], ty |-> columns[i].ty, cells |-> columns[i].cells] BY <1>1
  <2>2. frame[i].name = names[i] /\ frame[i].ty = columns[i].ty /\ frame[i].cells = columns[i].cells BY <2>1
  <2>3. IsField(frame[i]) BY <2>1, <2>2, Zenon DEF IsField
  <2>. QED BY <2>2, <2>3
<1>3. DOMAIN frame = 1..n /\ frame = [i \in 1..n |-> frame[i]]
  <2>1. DOMAIN frame = 1..n BY <1>1, Zenon
  <2>2. \A i \in 1..n : frame[i] = [name |-> names[i], ty |-> columns[i].ty, cells |-> columns[i].cells] BY <1>1, Zenon
  <2>. QED BY <1>1, <2>1, <2>2, Zenon
<1>4. IsFrameOf(frame, n) BY <1>2, <1>3, Zenon DEF IsFrameOf
<1>. QED BY <1>2, <1>4 DEF frame

-----------------------------------------------------------------------------
(* Results *)

IsFrame(frame) == \E n \in Nat : IsFrameOf(frame, n)

(* Its columns have lengths. *)
Measured(frame) == \A c \in DOMAIN frame : Len(frame[c].cells) \in Nat

IsResult(r) ==
  /\ r = [tag |-> r.tag, frames |-> r.frames]
  /\ r.tag \in {"frames", "error", "panic"}
  /\ r.tag # "frames" => r.frames = <<>>
  /\ \E n \in Nat : DOMAIN r.frames = 1..n
  /\ \A i \in DOMAIN r.frames : IsFrame(r.frames[i]) /\ Measured(r.frames[i])

Even(frame) == \A c, d \in DOMAIN frame : Len(frame[c].cells) = Len(frame[d].cells)

LEMMA FailedIs == IsResult(Failed) /\ Failed.tag = "error" /\ DOMAIN Failed.frames = {}
<1>1. DOMAIN <<>> = 1..0 /\ 1..0 = {} /\ 0 \in Nat OBVIOUS
<1>. QED BY <1>1 DEF IsResult, Failed

LEMMA ParsedIs ==
  ASSUME NEW frames, \E n \in Nat : DOMAIN frames = 1..n,
         \A i \in DOMAIN frames : IsFrame(frames[i]),
         \A i \in DOMAIN frames : Unsupported(frames[i]) \/ Measured(frames[i])
  PROVE  /\ IsResult(Parsed(frames))
         /\ IF \E i \in DOMAIN frames : Unsupported(frames[i])
            THEN Parsed(frames).tag = "panic" /\ DOMAIN Parsed(frames).frames = {}
            ELSE Parsed(frames).tag = "frames" /\ Parsed(frames).frames = frames
<1>1. DOMAIN <<>> = 1..0 /\ 1..0 = {} /\ 0 \in Nat OBVIOUS
<1>2. CASE \E i \in DOMAIN frames : Unsupported(frames[i])
  <2>1. Parsed(frames) = Panicked BY <1>2 DEF Parsed
  <2>. QED BY <1>1, <1>2, <2>1 DEF IsResult, Panicked
<1>3. CASE ~\E i \in DOMAIN frames : Unsupported(frames[i])
  <2>1. Parsed(frames) = [tag |-> "frames", frames |-> frames] BY <1>3 DEF Parsed
  <2>. QED BY <1>3, <2>1 DEF IsResult
<1>. QED BY <1>2, <1>3

LEMMA OneFrame ==
  ASSUME NEW frame, IsFrame(frame), Unsupported(frame) \/ Measured(frame)
  PROVE  /\ IsResult(Parsed(<<frame>>))
         /\ IF Unsupported(frame)
            THEN Parsed(<<frame>>).tag = "panic" /\ DOMAIN Parsed(<<frame>>).frames = {}
            ELSE Parsed(<<frame>>).tag = "frames" /\ Parsed(<<frame>>).frames = <<frame>>
<1>1. DOMAIN <<frame>> = 1..1 /\ <<frame>>[1] = frame /\ 1..1 = {1} OBVIOUS
<1>. QED BY <1>1, ParsedIs

(* What MoveTime makes of a result: the columns of a frame are those it had. *)
Rearranged(new, old) ==
  /\ DOMAIN new = DOMAIN old
  /\ \A c \in DOMAIN new : \E d \in DOMAIN old : new[c] = old[d]
  /\ \A d \in DOMAIN old : \E c \in DOMAIN new : new[c] = old[d]

LEMMA TimeFirstRearranges ==
  ASSUME NEW frame, IsFrame(frame), NEW time, Named(frame, time)
  PROVE  Rearranged(TimeFirst(frame, time), frame)
<1>1. PICK n \in Nat : IsFrameOf(frame, n) BY DEF IsFrame
<1>. DEFINE new == TimeFirst(frame, time)
            Old(p, c) == IF c = 1 THEN p ELSE IF c =< p THEN c - 1 ELSE c
            New(p, d) == IF d = p THEN 1 ELSE IF d < p THEN d + 1 ELSE d
<1>2. PICK p \in 1..n : MovedToFront(new, frame, n, p) BY <1>1, TimeFirstMoves
<1>. HIDE DEF new
<1>3. \A c \in 1..n : Old(p, c) \in 1..n /\ new[c] = frame[Old(p, c)] BY <1>2 DEF MovedToFront
<1>4. \A d \in 1..n : New(p, d) \in 1..n /\ Old(p, New(p, d)) = d OBVIOUS
<1>. HIDE DEF Old, New
<1>5. \A d \in 1..n : new[New(p, d)] = frame[d] BY <1>3, <1>4
<1>. QED BY <1>1, <1>2, <1>3, <1>4, <1>5 DEF Rearranged, new, MovedToFront, IsFrameOf

LEMMA MoveTimeRearranges ==
  ASSUME NEW r, IsResult(r), NEW time
  PROVE  /\ MoveTime(r, time).tag \in {r.tag, "error"}
         /\ \E n \in Nat : DOMAIN MoveTime(r, time).frames = 1..n
         /\ DOMAIN MoveTime(r, time).frames \subseteq DOMAIN r.frames
         /\ MoveTime(r, time).tag = "frames" => DOMAIN MoveTime(r, time).frames = DOMAIN r.frames
         /\ \A i \in DOMAIN MoveTime(r, time).frames : Rearranged(MoveTime(r, time).frames[i], r.frames[i])
<1>. DEFINE moved == MoveTime(r, time)
<1>1. CASE time = <<>> \/ r.tag # "frames"
  <2>1. moved = r BY <1>1 DEF MoveTime
  <2>. QED BY <2>1 DEF Rearranged, IsResult
<1>2. CASE ~(time = <<>> \/ r.tag # "frames") /\ \E i \in DOMAIN r.frames : \A j \in DOMAIN r.frames[i] : r.frames[i][j].name # time
  <2>1. moved = Failed BY <1>2 DEF MoveTime
  <2>. HIDE DEF moved
  <2>. QED BY <2>1, FailedIs DEF moved, IsResult
<1>3. CASE ~(time = <<>> \/ r.tag # "frames") /\ \A i \in DOMAIN r.frames : \E j \in DOMAIN r.frames[i] : r.frames[i][j].name = time
  <2>1. moved = [r EXCEPT !.frames = [i \in DOMAIN @ |-> TimeFirst(@[i], time)]] BY <1>3 DEF MoveTime
  <2>2. moved.tag = r.tag /\ moved.frames = [i \in DOMAIN r.frames |-> TimeFirst(r.frames[i], time)]
    BY <2>1 DEF IsResult
  <2>. HIDE DEF moved
  <2>3. \A i \in DOMAIN r.frames : Rearranged(TimeFirst(r.frames[i], time), r.frames[i])
    BY <1>3, TimeFirstRearranges DEF IsResult, Named
  <2>4. \E n \in Nat : DOMAIN moved.frames = 1..n BY <2>2 DEF IsResult
  <2>. QED BY <2>2, <2>3, <2>4 DEF moved
<1>. QED BY <1>1, <1>2, <1>3

LEMMA RearrangedIsEven ==
  ASSUME NEW new, NEW old, Rearranged(new, old), Even(old)
  PROVE  Even(new)
<1>. SUFFICES ASSUME NEW c \in DOMAIN new, NEW d \in DOMAIN new
              PROVE  Len(new[c].cells) = Len(new[d].cells)
  BY DEF Even
<1>1. PICK a \in DOMAIN old : new[c] = old[a] BY DEF Rearranged
<1>2. PICK b \in DOMAIN old : new[d] = old[b] BY DEF Rearranged
<1>. QED BY <1>1, <1>2 DEF Even

-----------------------------------------------------------------------------
(* Tables and keyed tables *)

LEMMA SimpleTableIs ==
  ASSUME NEW table, table.t = "table", Shaped(table), \A part \in Parts(table) : Shaped(part)
  PROVE  /\ IsFrame(SimpleTable(table)) /\ SimpleTable(table) # <<>> /\ table.count \in Nat
         /\ ~Unsupported(SimpleTable(table)) => \A c \in DOMAIN SimpleTable(table) : Len(SimpleTable(table)[c].cells) = table.count
         /\ Unsupported(SimpleTable(table)) => ~PlainTable(table)
<1>. DEFINE n == Len(table.cols)
            columns == [i \in DOMAIN table.data |-> StandardColumn(table.data[i])]
            frame == SimpleTable(table)
<1>1. /\ n \in Nat /\ n # 0 /\ DOMAIN table.cols = 1..n /\ DOMAIN table.data = 1..n
      /\ \A c \in 1..n : table.data[c].t \notin {"atom", "other"} /\ Size(table.data[c]) = table.count
  BY DEF Shaped
<1>2. \A c \in 1..n : Shaped(table.data[c]) BY <1>1 DEF Parts, ToSet
<1>3. \A c \in 1..n : columns[c] = StandardColumn(table.data[c]) BY <1>1
<1>4. frame = Fields(table.cols, columns) BY DEF SimpleTable
<1>. HIDE DEF n, columns, frame
<1>5. /\ IsFrameOf(frame, n)
      /\ \A c \in 1..n : frame[c].ty = columns[c].ty /\ frame[c].cells = columns[c].cells
  BY <1>1, <1>4, FieldsAre
<1>6. DOMAIN frame = 1..n BY <1>5 DEF IsFrameOf
<1>7. IsFrame(frame) /\ frame # <<>>
  <2>1. 1 \in DOMAIN frame BY <1>1, <1>6
  <2>. QED BY <1>1, <1>5, <1>6, <2>1 DEF IsFrame, IsFrameOf
<1>8. ASSUME ~Unsupported(frame), NEW c \in DOMAIN frame PROVE Len(frame[c].cells) = table.count
  <2>1. frame[c].ty # "unsupported" BY <1>8 DEF Unsupported
  <2>. QED BY <1>1, <1>2, <1>3, <1>5, <1>6, <2>1, StandardColumnIs
<1>9. ASSUME Unsupported(frame) PROVE ~PlainTable(table)
  <2>1. PICK c \in 1..n : frame[c].ty = "unsupported" BY <1>6, <1>9 DEF Unsupported
  <2>2. ~Supported(table.data[c]) BY <1>2, <1>3, <1>5, <2>1, StandardColumnIs
  <2>3. ~Plain(table.data[c]) BY <1>1, <2>2 DEF Supported, Plain
  <2>. QED BY <1>1, <2>3 DEF PlainTable, PlainList
<1>10. table.count \in Nat BY DEF Shaped
<1>. QED BY <1>7, <1>8, <1>9, <1>10 DEF frame

LEMMA UniqueNamesAre ==
  ASSUME NEW n \in Nat, NEW frame, IsFrameOf(frame, n)
  PROVE  /\ IsFrameOf(UniqueNames(frame), n)
         /\ \A c \in 1..n : UniqueNames(frame)[c].ty = frame[c].ty /\ UniqueNames(frame)[c].cells = frame[c].cells
<1>. DEFINE new == UniqueNames(frame)
            Before(i) == {j \in 1..(i - 1) : frame[j].name = frame[i].name}
            Suffix(i) == <<101 + Cardinality(Before(i))>>
<1>1. DOMAIN frame = 1..n BY DEF IsFrameOf
<1>2. new = [i \in 1..n |-> IF Before(i) = {} THEN frame[i] ELSE [frame[i] EXCEPT !.name = @ \o Suffix(i)]]
  BY <1>1 DEF UniqueNames
<1>. HIDE DEF new, Before, Suffix
<1>3. ASSUME NEW c \in 1..n PROVE IsField(new[c]) /\ new[c].ty = frame[c].ty /\ new[c].cells = frame[c].cells
  <2>. DEFINE field == frame[c]
              suffixed == [field EXCEPT !.name = @ \o Suffix(c)]
  <2>1. new[c] = IF Before(c) = {} THEN field ELSE suffixed BY <1>2
  <2>2. field = [name |-> field.name, ty |-> field.ty, cells |-> field.cells] BY DEF IsFrameOf, IsField
  <2>. HIDE DEF field
  <2>3. IsField(suffixed) /\ suffixed.ty = field.ty /\ suffixed.cells = field.cells
    <3>. DEFINE name == field.name \o Suffix(c)
    <3>1. suffixed = [field EXCEPT !.name = name] OBVIOUS
    <3>2. IsField(field) BY <2>2 DEF IsField
    <3>. HIDE DEF suffixed, name
    <3>. QED BY <3>1, <3>2, RenamedIsField
  <2>4. IsField(field) BY <2>2 DEF IsField
  <2>. HIDE DEF suffixed
  <2>. QED BY <2>1, <2>3, <2>4 DEF field
<1>4. DOMAIN new = 1..n /\ new = [c \in 1..n |-> new[c]] BY <1>2
<1>. QED BY <1>3, <1>4 DEF new, IsFrameOf

-----------------------------------------------------------------------------
(* Grouped tables, with their keys and without *)

LEMMA RowIsSeq ==
  ASSUME NEW table, NEW row, table.t = "table", Shaped(table)
  PROVE  /\ Row(table, row) \in Seq(ToSet(Row(table, row)))
         /\ Len(Row(table, row)) = Len(table.cols)
         /\ \A c \in 1..Len(table.cols) : Row(table, row)[c] = Item(table.data[c], row)
<1>1. table.data \in Seq(ToSet(table.data)) /\ Len(table.data) = Len(table.cols) BY DEF Shaped
<1>2. DOMAIN table.data = 1..Len(table.cols) /\ Len(table.cols) \in Nat BY <1>1
<1>3. Row(table, row) = [c \in 1..Len(table.cols) |-> Item(table.data[c], row)] BY <1>2 DEF Row
<1>. QED BY <1>2, <1>3 DEF ToSet

LEMMA JoinedSeqs ==
  ASSUME NEW S, NEW s \in Seq(S), NEW T, NEW u \in Seq(T)
  PROVE  /\ DOMAIN (s \o u) = 1..(Len(s) + Len(u))
         /\ \A i \in 1..Len(u) : (s \o u)[Len(s) + i] = u[i]
         /\ DOMAIN u = 1..Len(u)
<1>1. s \in Seq(S \cup T) /\ u \in Seq(S \cup T) OBVIOUS
<1>. QED BY <1>1

LEMMA LaterPlaces ==
  ASSUME NEW k \in Nat, NEW n \in Nat
  PROVE  k + n \in Nat /\ \A i \in 1..n : k + i \in 1..(k + n) /\ ~(k + i =< k)
OBVIOUS

LEMMA TailOfFunction ==
  ASSUME NEW k \in Nat, NEW n \in Nat, NEW f, f = [i \in 1..(k + n) |-> f[i]]
  PROVE  SubSeq(f, k + 1, Len(f)) = [i \in 1..n |-> f[k + i]]
<1>1. f \in Seq({f[i] : i \in 1..(k + n)}) /\ Len(f) = k + n OBVIOUS
<1>. QED BY <1>1

LEMMA KeysBeforeValues ==
  ASSUME NEW o, NEW row, IsKeyedTable(o), Shaped(o.key), Shaped(o.value),
         \A i \in 1..Len(o.key.cols) : i =< Len(o.value.cols) => Row(o.value, row)[i].t # "chars"
  PROVE  /\ SubSeq(GroupFrame(o, TRUE, row), Len(o.key.cols) + 1, Len(GroupFrame(o, TRUE, row))) =
              GroupFrame(o, FALSE, row)
         /\ Unsupported(GroupFrame(o, FALSE, row)) => Unsupported(GroupFrame(o, TRUE, row))
<1>. DEFINE keys == Len(o.key.cols)
            n == Len(o.value.cols)
            values == Row(o.value, row)
            keyValues == Row(o.key, row)
            items == keyValues \o values
            names == o.key.cols \o o.value.cols
            depth == CHOOSE d \in GetDepth(values) : TRUE
            all == GroupFrame(o, TRUE, row)
            some == GroupFrame(o, FALSE, row)
            Made(item, i) == GroupedColumn(item, i =< keys, depth)
            Field(name, column) == [name |-> name, ty |-> column.ty, cells |-> column.cells]
<1>1. /\ o.key.cols \in Seq(ToSet(o.key.cols)) /\ o.value.cols \in Seq(ToSet(o.value.cols))
      /\ keys \in Nat /\ n \in Nat
  BY DEF Shaped, IsKeyedTable
<1>2. /\ values \in Seq(ToSet(values)) /\ Len(values) = n
      /\ keyValues \in Seq(ToSet(keyValues)) /\ Len(keyValues) = keys
  BY RowIsSeq DEF IsKeyedTable
<1>3. \A i \in 1..n : i =< keys => values[i].t # "chars" BY <1>1
<1>. HIDE DEF keys, n, values, keyValues
<1>4. DOMAIN names = 1..(keys + n) /\ DOMAIN o.value.cols = 1..n /\ \A i \in 1..n : names[keys + i] = o.value.cols[i]
  <2>. DEFINE S == ToSet(o.key.cols)
              T == ToSet(o.value.cols)
              s == o.key.cols
              u == o.value.cols
  <2>1. Len(s) = keys /\ Len(u) = n BY DEF keys, n
  <2>2. s \in Seq(S) /\ u \in Seq(T) BY <1>1
  <2>. HIDE DEF S, T, s, u
  <2>3. /\ DOMAIN (s \o u) = 1..(Len(s) + Len(u)) /\ DOMAIN u = 1..Len(u)
        /\ \A i \in 1..Len(u) : (s \o u)[Len(s) + i] = u[i]
    BY <2>2, JoinedSeqs
  <2>4. DOMAIN (s \o u) = 1..(keys + n) /\ DOMAIN u = 1..n /\ \A i \in 1..n : (s \o u)[keys + i] = u[i]
    BY <2>1, <2>3, Zenon
  <2>. QED BY <2>4 DEF s, u
<1>5. DOMAIN items = 1..(keys + n) /\ DOMAIN values = 1..n /\ \A i \in 1..n : items[keys + i] = values[i]
  <2>. DEFINE S == ToSet(keyValues)
              T == ToSet(values)
  <2>1. keyValues \in Seq(S) /\ values \in Seq(T) BY <1>2
  <2>. HIDE DEF S, T
  <2>2. /\ DOMAIN items = 1..(Len(keyValues) + Len(values)) /\ DOMAIN values = 1..Len(values)
        /\ \A i \in 1..Len(values) : items[Len(keyValues) + i] = values[i]
    BY <2>1, JoinedSeqs
  <2>. QED BY <1>2, <2>2, Zenon
<1>. HIDE DEF items, names, depth
<1>6. keys + n \in Nat /\ \A i \in 1..n : keys + i \in 1..(keys + n) /\ ~(keys + i =< keys) BY <1>1, LaterPlaces
<1>. HIDE DEF Field, Made, all, some
<1>7. all = [i \in 1..(keys + n) |-> Field(names[i], Made(items[i], i))]
  <2>1. all = Fields(names, [i \in DOMAIN items |-> GroupedColumn(items[i], i =< keys, depth)])
    BY DEF GroupFrame, all, names, items, keys, depth, values, keyValues
  <2>. QED BY <1>4, <1>5, <2>1 DEF Fields, Field, Made
<1>8. some = [i \in 1..n |-> Field(o.value.cols[i], Made(values[i], i))]
  <2>1. some = Fields(o.value.cols, [i \in DOMAIN values |-> GroupedColumn(values[i], i =< keys, depth)])
    BY DEF GroupFrame, some, keys, depth, values
  <2>. QED BY <1>4, <1>5, <2>1 DEF Fields, Field, Made
<1>9. \A i \in 1..n : Made(values[i], i) = Made(values[i], keys + i) BY <1>3, <1>6 DEF Made, GroupedColumn
<1>10. \A i \in 1..n : all[keys + i] = some[i] BY <1>4, <1>5, <1>6, <1>7, <1>8, <1>9
<1>11. DOMAIN all = 1..(keys + n) /\ DOMAIN some = 1..n /\ all = [i \in 1..(keys + n) |-> all[i]] BY <1>7, <1>8
<1>12. SubSeq(all, keys + 1, Len(all)) = [i \in 1..n |-> all[keys + i]] BY <1>1, <1>11, TailOfFunction
<1>13. SubSeq(all, keys + 1, Len(all)) = some BY <1>8, <1>10, <1>12
<1>14. Unsupported(some) => Unsupported(all) BY <1>6, <1>10, <1>11 DEF Unsupported
<1>. QED BY <1>13, <1>14 DEF all, some, keys

(* ParseGroupedKdbTable with the keys parses what it parses without, and puts *)
(* the keys before it.                                                       *)
LEMMA GroupedWithKeys ==
  ASSUME NEW o, IsKeyedTable(o), Shaped(o.key), Shaped(o.value),
         \A row \in 1..Size(o.key) : \A i \in 1..Len(o.key.cols) :
           i =< Len(o.value.cols) => Row(o.value, row)[i].t # "chars",
         GroupedTable(o, TRUE).tag = "frames"
  PROVE  /\ GroupedTable(o, FALSE).tag = "frames"
         /\ \A row \in DOMAIN GroupedTable(o, TRUE).frames :
              LET frame == GroupedTable(o, TRUE).frames[row]
              IN SubSeq(frame, Len(o.key.cols) + 1, Len(frame)) = GroupedTable(o, FALSE).frames[row]
<1>. DEFINE rows == 1..Size(o.key)
            indexable == Indexable(o.key) /\ Indexable(o.value)
            Fails(row) == indexable /\ GetDepth(Row(o.value, row)) = {}
            Panics(keys, row) == indexable => ~Fails(row) /\ Unsupported(GroupFrame(o, keys, row))
            stops(keys) == {row \in rows : Fails(row) \/ Panics(keys, row)}
            Result(keys) == Parsed([row \in rows |-> GroupFrame(o, keys, row)])
<1>1. \A keys \in BOOLEAN :
        IF stops(keys) = {} THEN GroupedTable(o, keys) = Result(keys) ELSE GroupedTable(o, keys).tag # "frames"
  BY DEF GroupedTable, Failed, Panicked
<1>2. stops(TRUE) = {} BY <1>1
<1>3. \A row \in rows : Unsupported(GroupFrame(o, FALSE, row)) => Unsupported(GroupFrame(o, TRUE, row))
  BY KeysBeforeValues
<1>4. stops(FALSE) = {} BY <1>2, <1>3
<1>5. \A row \in rows : ~Unsupported(GroupFrame(o, TRUE, row)) BY <1>2
<1>6. \A row \in rows : ~Unsupported(GroupFrame(o, FALSE, row)) BY <1>4
<1>7. /\ GroupedTable(o, TRUE) = [tag |-> "frames", frames |-> [row \in rows |-> GroupFrame(o, TRUE, row)]]
      /\ GroupedTable(o, FALSE) = [tag |-> "frames", frames |-> [row \in rows |-> GroupFrame(o, FALSE, row)]]
  <2>1. GroupedTable(o, TRUE) = Result(TRUE) /\ GroupedTable(o, FALSE) = Result(FALSE) BY <1>1, <1>2, <1>4
  <2>. QED BY <1>5, <1>6, <2>1 DEF Parsed
<1>8. /\ GroupedTable(o, FALSE).tag = "frames" /\ DOMAIN GroupedTable(o, TRUE).frames = rows
      /\ \A row \in rows : /\ GroupedTable(o, TRUE).frames[row] = GroupFrame(o, TRUE, row)
                           /\ GroupedTable(o, FALSE).frames[row] = GroupFrame(o, FALSE, row)
  <2>. DEFINE with == GroupedTable(o, TRUE)
              without == GroupedTable(o, FALSE)
              first(row) == GroupFrame(o, TRUE, row)
              second(row) == GroupFrame(o, FALSE, row)
  <2>. HIDE DEF rows, with, without, first, second
  <2>1. /\ with = [tag |-> "frames", frames |-> [row \in rows |-> first(row)]]
        /\ without = [tag |-> "frames", frames |-> [row \in rows |-> second(row)]]
    BY <1>7, Zenon DEF with, without, first, second
  <2>2. /\ without.tag = "frames" /\ DOMAIN with.frames = rows
        /\ \A row \in rows : with.frames[row] = first(row) /\ without.frames[row] = second(row)
    BY <2>1
  <2>. QED BY <2>2, Zenon DEF with, without, first, second
<1>9. \A row \in rows : SubSeq(GroupFrame(o, TRUE, row), Len(o.key.cols) + 1, Len(GroupFrame(o, TRUE, row))) =
                           GroupFrame(o, FALSE, row)
  BY KeysBeforeValues
<1>. HIDE DEF rows
<1>. QED BY <1>8, <1>9, Zenon

-----------------------------------------------------------------------------
(* Each parser: what makes it panic, and when its frames are even *)

AllEven(r) == \A i \in DOMAIN r.frames : Even(r.frames[i])

Joined(frame, f, n, g, m) ==
  /\ IsFrameOf(frame, n + m)
  /\ \A c \in 1..(n + m) : frame[c] = IF c \in 1..n THEN f[c] ELSE g[c - n]

LEMMA JoinedFrames ==
  ASSUME NEW n \in Nat, NEW f, IsFrameOf(f, n), NEW m \in Nat, NEW g, IsFrameOf(g, m)
  PROVE  Joined(f \o g, f, n, g, m)
<1>. DEFINE S == ToSet(f) \cup ToSet(g)
            joined == f \o g
<1>1. /\ f \in Seq(ToSet(f)) /\ Len(f) = n /\ DOMAIN f = 1..n
      /\ g \in Seq(ToSet(g)) /\ Len(g) = m /\ DOMAIN g = 1..m
  BY SeqOfFunction DEF IsFrameOf
<1>2. f \in Seq(S) /\ g \in Seq(S) BY <1>1
<1>. HIDE DEF S
<1>3. /\ joined \in Seq(S) /\ DOMAIN joined = 1..(n + m) /\ Len(joined) = n + m
      /\ \A c \in 1..(n + m) : joined[c] = IF c \in 1..n THEN f[c] ELSE g[c - n]
  BY <1>1, <1>2
<1>. HIDE DEF joined
<1>4. joined = [c \in 1..(n + m) |-> joined[c]]
  <2>1. joined = [c \in 1..Len(joined) |-> joined[c]] BY <1>3, SeqIsFunction
  <2>. QED BY <1>3, <2>1, Zenon
<1>5. \A c \in 1..(n + m) : IsField(joined[c])
  <2>. SUFFICES ASSUME NEW c \in 1..(n + m) PROVE IsField(joined[c]) OBVIOUS
  <2>1. joined[c] = IF c \in 1..n THEN f[c] ELSE g[c - n] BY <1>3
  <2>2. c \in 1..n \/ c - n \in 1..m OBVIOUS
  <2>. QED BY <2>1, <2>2 DEF IsFrameOf
<1>. QED BY <1>3, <1>4, <1>5 DEF IsFrameOf, Joined, joined

LEMMA KeyedTableIs ==
  ASSUME NEW o, o.t = "dict", WellFormed(o)
  PROVE  /\ IsResult(KeyedTable(o)) /\ AllEven(KeyedTable(o))
         /\ KeyedTable(o).tag # "error" => IsKeyedTable(o)
         /\ KeyedTable(o).tag = "panic" => ~(PlainTable(o.key) /\ PlainTable(o.value))
<1>. DEFINE keys == SimpleTable(o.key)
            values == SimpleTable(o.value)
            all == UniqueNames(keys \o values)
<1>1. CASE KeyedTable(o) = Failed BY <1>1, FailedIs DEF AllEven
<1>2. CASE KeyedTable(o) # Failed
  <2>1. IsKeyedTable(o) /\ KeyedTable(o) = Parsed(<<all>>) BY <1>2 DEF KeyedTable
  <2>2. o.key.t = "table" /\ o.value.t = "table" BY <2>1 DEF IsKeyedTable
  <2>3. \A part \in {o.key, o.value} : Shaped(part) /\ \A inner \in Parts(part) : Shaped(inner)
    BY DEF WellFormed, Parts
  <2>4. o.key.count = o.value.count BY <2>1, <2>2 DEF WellFormed, Shaped, Size, Count
  <2>. HIDE DEF keys, values
  <2>5. /\ IsFrame(keys) /\ o.key.count \in Nat
        /\ ~Unsupported(keys) => \A c \in DOMAIN keys : Len(keys[c].cells) = o.key.count
        /\ Unsupported(keys) => ~PlainTable(o.key)
    BY <2>2, <2>3, SimpleTableIs DEF keys
  <2>6. /\ IsFrame(values)
        /\ ~Unsupported(values) => \A c \in DOMAIN values : Len(values[c].cells) = o.value.count
        /\ Unsupported(values) => ~PlainTable(o.value)
    BY <2>2, <2>3, SimpleTableIs DEF values
  <2>7. PICK n \in Nat : IsFrameOf(keys, n) BY <2>5 DEF IsFrame
  <2>8. PICK m \in Nat : IsFrameOf(values, m) BY <2>6 DEF IsFrame
  <2>. DEFINE joined == keys \o values
  <2>9. /\ IsFrameOf(joined, n + m)
        /\ \A c \in 1..(n + m) : joined[c] = IF c \in 1..n THEN keys[c] ELSE values[c - n]
    <3>1. Joined(keys \o values, keys, n, values, m) BY <2>7, <2>8, JoinedFrames
    <3>. QED BY <3>1 DEF Joined
  <2>. HIDE DEF joined, all
  <2>10. /\ IsFrameOf(all, n + m)
         /\ \A c \in 1..(n + m) : all[c].ty = joined[c].ty /\ all[c].cells = joined[c].cells
    <3>1. n + m \in Nat BY <2>7, <2>8
    <3>. QED BY <2>9, <3>1, UniqueNamesAre, Zenon DEF all, joined
  <2>11. \A c \in 1..(n + m) : c \in DOMAIN keys \/ (c \notin 1..n /\ c - n \in DOMAIN values)
    BY <2>7, <2>8 DEF IsFrameOf
  <2>12. DOMAIN keys = 1..n /\ DOMAIN values = 1..m /\ DOMAIN all = 1..(n + m)
    BY <2>7, <2>8, <2>10 DEF IsFrameOf
  <2>13. Unsupported(all) => Unsupported(keys) \/ Unsupported(values)
    BY <2>9, <2>10, <2>11, <2>12 DEF Unsupported
  <2>14. Unsupported(keys) => Unsupported(all)
    BY <2>9, <2>10, <2>12 DEF Unsupported
  <2>15. Unsupported(values) => Unsupported(all)
    <3>. SUFFICES ASSUME NEW d \in 1..m, values[d].ty = "unsupported" PROVE \E c \in 1..(n + m) : all[c].ty = "unsupported"
      BY <2>12 DEF Unsupported
    <3>1. d + n \in 1..(n + m) /\ d + n \notin 1..n /\ (d + n) - n = d OBVIOUS
    <3>2. joined[d + n] = values[d] BY <2>9, <3>1
    <3>. QED BY <2>10, <3>1, <3>2
  <2>16. ~Unsupported(all) => Even(all) /\ Measured(all)
    <3>1. ASSUME ~Unsupported(all), NEW c \in 1..(n + m) PROVE Len(all[c].cells) = o.key.count
      <4>1. all[c].cells = joined[c].cells BY <2>10
      <4>2. CASE c \in 1..n
        <5>1. joined[c] = keys[c] BY <2>9, <4>2
        <5>2. Len(keys[c].cells) = o.key.count BY <2>5, <2>12, <2>14, <3>1, <4>2
        <5>. QED BY <4>1, <5>1, <5>2
      <4>3. CASE c \notin 1..n
        <5>1. joined[c] = values[c - n] /\ c - n \in DOMAIN values BY <2>9, <2>11, <2>12, <4>3
        <5>2. Len(values[c - n].cells) = o.key.count BY <2>4, <2>6, <2>15, <3>1, <5>1
        <5>. QED BY <4>1, <5>1, <5>2
      <4>. QED BY <4>2, <4>3
    <3>. QED BY <2>5, <2>12, <3>1 DEF Even, Measured
  <2>17. IsFrame(all) BY <2>10 DEF IsFrame
  <2>18. /\ IsResult(Parsed(<<all>>))
         /\ IF Unsupported(all)
            THEN Parsed(<<all>>).tag = "panic" /\ DOMAIN Parsed(<<all>>).frames = {}
            ELSE Parsed(<<all>>).tag = "frames" /\ Parsed(<<all>>).frames = <<all>>
    BY <2>16, <2>17, OneFrame
  <2>19. AllEven(Parsed(<<all>>)) BY <2>16, <2>18 DEF AllEven
  <2>. QED BY <2>1, <2>5, <2>6, <2>13, <2>18, <2>19
<1>. QED BY <1>1, <1>2

LEMMA ItemIs ==
  ASSUME NEW o, o.t \in {"chars", "vec", "list", "table"}, Shaped(o), \A part \in Parts(o) : Shaped(part),
         NEW i \in 1..Size(o)
  PROVE  Shaped(Item(o, i)) /\ (PlainList(o) => Plain(Item(o, i)))
<1>1. CASE o.t = "list"
  <2>1. Item(o, i) = o.items[i] /\ Size(o) = Len(o.items) BY <1>1 DEF Item, Size, Count
  <2>2. o.items \in Seq(ToSet(o.items)) BY <1>1 DEF Shaped
  <2>3. i \in DOMAIN o.items BY <2>1, <2>2
  <2>4. o.items[i] \in Parts(o) BY <1>1, <2>3 DEF Parts, ToSet
  <2>. QED BY <1>1, <2>1, <2>3, <2>4 DEF PlainList
<1>2. CASE o.t \in {"chars", "vec"}
  <2>. DEFINE of == IF o.t = "vec" THEN o.of ELSE "char"
              item == [t |-> "atom", of |-> of, vs |-> <<o.vs[i]>>]
  <2>1. Item(o, i) = item BY <1>2 DEF Item
  <2>2. of \in KdbTypes BY <1>2 DEF Shaped, KdbTypes
  <2>. HIDE DEF of
  <2>3. <<o.vs[i]>> \in Seq(ToSet(<<o.vs[i]>>)) BY DEF ToSet
  <2>4. item.t = "atom" /\ item.of = of /\ item.vs = <<o.vs[i]>> OBVIOUS
  <2>. HIDE DEF item
  <2>5. Shaped(item) BY <2>2, <2>3, <2>4 DEF Shaped
  <2>. QED BY <2>1, <2>4, <2>5 DEF Plain
<1>3. CASE o.t = "table"
  <2>1. /\ Item(o, i).t = "dict" /\ Item(o, i).value = [t |-> "other"]
    BY <1>3 DEF Item
  <2>2. ~IsKeyedTable(Item(o, i)) BY <2>1 DEF IsKeyedTable
  <2>. QED BY <1>3, <2>1, <2>2 DEF Shaped, PlainList, Plain
<1>. QED BY <1>1, <1>2, <1>3

LEMMA RowIs ==
  ASSUME NEW table, table.t = "table", Shaped(table), Indexable(table),
         \A part \in Parts(table) : Shaped(part) /\ \A inner \in Parts(part) : Shaped(inner),
         NEW row \in 1..table.count, NEW c \in 1..Len(table.cols)
  PROVE  Shaped(Row(table, row)[c]) /\ (PlainTable(table) => Plain(Row(table, row)[c]))
<1>. DEFINE column == table.data[c]
<1>1. /\ c \in DOMAIN table.data /\ column.t \notin {"atom", "other"} /\ Size(column) = table.count
      /\ Row(table, row)[c] = Item(column, row)
  BY RowIsSeq DEF Shaped
<1>2. Shaped(column) /\ \A part \in Parts(column) : Shaped(part) BY <1>1 DEF Parts, ToSet
<1>3. column.t # "dict" /\ (PlainTable(table) => PlainList(column)) BY <1>1 DEF Indexable, PlainTable
<1>. HIDE DEF column
<1>4. column.t \in {"chars", "vec", "list", "table"} BY <1>1, <1>2, <1>3 DEF Shaped
<1>. QED BY <1>1, <1>2, <1>3, <1>4, ItemIs

(* Every list among the values of a key is as deep as the key's frame. *)
LEMMA DepthIs ==
  ASSUME NEW n \in Nat, NEW items, DOMAIN items = 1..n,
         \A i \in 1..n : Shaped(items[i]) /\ Plain(items[i]),
         NEW depth \in GetDepth(items)
  PROVE  /\ depth \in Nat
         /\ \A i \in 1..n : items[i].t \notin {"atom", "chars"} => Size(items[i]) = depth
<1>. DEFINE lists == {i \in DOMAIN items : items[i].t \notin {"atom", "chars"}}
            sizes == {Size(items[i]) : i \in lists}
<1>1. CASE sizes # {}
  <2>1. GetDepth(items) = sizes /\ \A k, m \in sizes : k = m BY <1>1 DEF GetDepth
  <2>2. PICK i \in lists : depth = Size(items[i]) BY <2>1
  <2>3. Supported(items[i]) BY DEF Plain, Supported
  <2>4. depth \in Nat BY <2>2, <2>3, StandardColumnIs
  <2>. QED BY <2>1, <2>4
<1>2. CASE sizes = {}
  <2>1. lists = {} BY <1>2
  <2>2. GetDepth(items) \subseteq {1} BY <1>2, <2>1 DEF GetDepth
  <2>. QED BY <2>1, <2>2
<1>. QED BY <1>1, <1>2

(* The frame of a group whose items, some of them values and the others keys, *)
(* are as deep as depth, or repeated to be.                                  *)
GroupColumns(items, keys, depth) == [i \in DOMAIN items |-> GroupedColumn(items[i], i =< keys, depth)]

IsGroup(frame, n, items, depth) ==
  /\ IsFrame(frame)
  /\ Unsupported(frame) <=> \E i \in 1..n : ~Plain(items[i])
  /\ depth \in Nat => Unsupported(frame) \/ Measured(frame)
  /\ (/\ depth \in Nat
      /\ \A i \in 1..n : Plain(items[i]) /\ (items[i].t \in {"atom", "chars"} \/ Size(items[i]) = depth))
     => Even(frame)

LEMMA GroupColumnsAre ==
  ASSUME NEW n \in Nat, NEW names, DOMAIN names = 1..n, NEW items, DOMAIN items = 1..n,
         \A i \in 1..n : Shaped(items[i]), NEW keys, NEW depth
  PROVE  IsGroup(Fields(names, GroupColumns(items, keys, depth)), n, items, depth)
<1>. DEFINE columns == GroupColumns(items, keys, depth)
            frame == Fields(names, columns)
<1>1. \A i \in 1..n : columns[i] = GroupedColumn(items[i], i =< keys, depth) BY DEF GroupColumns
<1>. HIDE DEF columns, frame
<1>2. /\ IsFrameOf(frame, n)
      /\ \A i \in 1..n : frame[i].ty = columns[i].ty /\ frame[i].cells = columns[i].cells
  BY FieldsAre DEF frame
<1>3. IsFrame(frame) /\ DOMAIN frame = 1..n BY <1>2 DEF IsFrame, IsFrameOf
<1>4. \A i \in 1..n : frame[i].ty # "unsupported" <=> Plain(items[i])
  <2>. SUFFICES ASSUME NEW i \in 1..n PROVE columns[i].ty # "unsupported" <=> Plain(items[i]) BY <1>2
  <2>. QED BY <1>1, GroupedColumnIs
<1>5. Unsupported(frame) <=> \E i \in 1..n : ~Plain(items[i]) BY <1>3, <1>4 DEF Unsupported
<1>6. ASSUME depth \in Nat,
             \A i \in 1..n : Plain(items[i]) /\ (items[i].t \in {"atom", "chars"} \/ Size(items[i]) = depth)
      PROVE  Even(frame)
  <2>1. ASSUME NEW i \in 1..n PROVE Len(columns[i].cells) = depth
    <3>. DEFINE inKeyPlace == i =< keys
    <3>1. columns[i] = GroupedColumn(items[i], inKeyPlace, depth) BY <1>1
    <3>. HIDE DEF inKeyPlace
    <3>. QED BY <1>6, <3>1, GroupedColumnIs
  <2>. QED BY <1>2, <1>3, <2>1 DEF Even
<1>7. ASSUME depth \in Nat, ~Unsupported(frame) PROVE Measured(frame)
  <2>1. ASSUME NEW i \in 1..n PROVE Len(columns[i].cells) \in Nat
    <3>. DEFINE inKeyPlace == i =< keys
    <3>1. columns[i] = GroupedColumn(items[i], inKeyPlace, depth) BY <1>1
    <3>2. Shaped(items[i]) /\ Plain(items[i]) BY <1>5, <1>7
    <3>. HIDE DEF inKeyPlace
    <3>. QED BY <1>7, <3>1, <3>2, GroupedColumnIs
  <2>. QED BY <1>2, <1>3, <2>1 DEF Measured
<1>. QED BY <1>3, <1>5, <1>6, <1>7 DEF IsGroup, frame, columns

JoinOf(new, s, k, u, n) ==
  /\ DOMAIN new = 1..(k + n)
  /\ \A i \in 1..(k + n) : \/ i \in 1..k /\ new[i] = s[i]
                           \/ \E c \in 1..n : new[i] = u[c]
  /\ \A c \in 1..n : \E i \in 1..(k + n) : new[i] = u[c]

LEMMA JoinIs ==
  ASSUME NEW S, NEW s \in Seq(S), NEW T, NEW u \in Seq(T)
  PROVE  JoinOf(s \o u, s, Len(s), u, Len(u))
<1>. DEFINE k == Len(s)
            n == Len(u)
            new == s \o u
<1>1. k \in Nat /\ n \in Nat /\ s \in Seq(S \cup T) /\ u \in Seq(S \cup T) OBVIOUS
<1>2. DOMAIN new = 1..(k + n) /\ \A i \in 1..(k + n) : new[i] = IF i =< k THEN s[i] ELSE u[i - k] BY <1>1
<1>. HIDE DEF k, n, new
<1>3. ASSUME NEW i \in 1..(k + n) PROVE (i \in 1..k /\ new[i] = s[i]) \/ \E c \in 1..n : new[i] = u[c]
  <2>1. CASE i =< k BY <1>1, <1>2, <2>1
  <2>2. CASE ~(i =< k)
    <3>1. i - k \in 1..n /\ new[i] = u[i - k] BY <1>1, <1>2, <2>2
    <3>. QED BY <3>1
  <2>. QED BY <2>1, <2>2
<1>4. ASSUME NEW c \in 1..n PROVE \E i \in 1..(k + n) : new[i] = u[c]
  <2>1. k + c \in 1..(k + n) /\ ~(k + c =< k) /\ (k + c) - k = c BY <1>1
  <2>2. new[k + c] = u[c] BY <1>2, <2>1
  <2>. QED BY <2>1, <2>2
<1>. QED BY <1>2, <1>3, <1>4 DEF JoinOf, k, n, new

LEMMA GroupFrameIs ==
  ASSUME NEW o, o.t = "dict", IsKeyedTable(o), WellFormed(o), Indexable(o.key), Indexable(o.value),
         NEW includeKeys, NEW row \in 1..Size(o.key)
  PROVE  /\ IsFrame(GroupFrame(o, includeKeys, row))
         /\ Unsupported(GroupFrame(o, includeKeys, row)) => ~(PlainTable(o.key) /\ PlainTable(o.value))
         /\ GetDepth(Row(o.value, row)) # {} =>
              Unsupported(GroupFrame(o, includeKeys, row)) \/ Measured(GroupFrame(o, includeKeys, row))
         /\ (/\ GetDepth(Row(o.value, row)) # {}
             /\ ~Unsupported(GroupFrame(o, includeKeys, row))
             /\ includeKeys => \A i \in DOMAIN o.key.cols : Row(o.key, row)[i].t \in {"atom", "chars"})
            => Even(GroupFrame(o, includeKeys, row))
<1>. DEFINE keys == Len(o.key.cols)
            n == Len(o.value.cols)
            values == Row(o.value, row)
            keyValues == Row(o.key, row)
            items == IF includeKeys THEN keyValues \o values ELSE values
            names == IF includeKeys THEN o.key.cols \o o.value.cols ELSE o.value.cols
            size == IF includeKeys THEN keys + n ELSE n
            depth == CHOOSE d \in GetDepth(values) : TRUE
            frame == GroupFrame(o, includeKeys, row)
<1>1. /\ o.key.t = "table" /\ o.value.t = "table" /\ Size(o.key) = o.key.count /\ o.key.count = o.value.count
      /\ \A table \in {o.key, o.value} :
           Shaped(table) /\ \A part \in Parts(table) : Shaped(part) /\ \A inner \in Parts(part) : Shaped(inner)
  <2>1. o.key.t = "table" /\ o.value.t = "table" BY DEF IsKeyedTable
  <2>2. Size(o.key) = Size(o.value) BY DEF WellFormed, Shaped
  <2>3. Size(o.key) = o.key.count /\ Size(o.value) = o.value.count BY <2>1 DEF Size, Count
  <2>4. Parts(o) = {o.key, o.value} BY DEF Parts
  <2>5. \A table \in {o.key, o.value} :
          Shaped(table) /\ \A part \in Parts(table) : Shaped(part) /\ \A inner \in Parts(part) : Shaped(inner)
    BY <2>4, Zenon DEF WellFormed
  <2>. QED BY <2>1, <2>2, <2>3, <2>5
<1>2. /\ keys \in Nat /\ n \in Nat
      /\ \A c \in 1..n : Shaped(values[c]) /\ (PlainTable(o.value) => Plain(values[c]))
      /\ \A c \in 1..keys : Shaped(keyValues[c]) /\ (PlainTable(o.key) => Plain(keyValues[c]))
  <2>1. o.key.cols \in Seq(ToSet(o.key.cols)) /\ o.value.cols \in Seq(ToSet(o.value.cols)) BY <1>1 DEF Shaped
  <2>2. ASSUME NEW c \in 1..n PROVE Shaped(values[c]) /\ (PlainTable(o.value) => Plain(values[c]))
    BY <1>1, RowIs
  <2>3. ASSUME NEW c \in 1..keys PROVE Shaped(keyValues[c]) /\ (PlainTable(o.key) => Plain(keyValues[c]))
    BY <1>1, RowIs
  <2>. QED BY <2>1, <2>2, <2>3
<1>3. /\ size \in Nat /\ DOMAIN names = 1..size /\ DOMAIN items = 1..size /\ DOMAIN values = 1..n
      /\ \A i \in 1..size : \/ includeKeys /\ i \in 1..keys /\ items[i] = keyValues[i]
                            \/ \E c \in 1..n : items[i] = values[c]
      /\ \A c \in 1..n : \E i \in 1..size : items[i] = values[c]
      /\ DOMAIN o.key.cols = 1..keys
  <2>. DEFINE keyCols == o.key.cols
              cols == o.value.cols
  <2>1. keyCols \in Seq(ToSet(keyCols)) /\ cols \in Seq(ToSet(cols)) BY <1>1 DEF Shaped
  <2>2. /\ values \in Seq(ToSet(values)) /\ Len(values) = n
        /\ keyValues \in Seq(ToSet(keyValues)) /\ Len(keyValues) = keys
    BY <1>1, RowIsSeq
  <2>3. DOMAIN keyCols = 1..keys /\ DOMAIN cols = 1..n /\ DOMAIN values = 1..n BY <2>1, <2>2
  <2>4. JoinOf(keyCols \o cols, keyCols, keys, cols, n) /\ JoinOf(keyValues \o values, keyValues, keys, values, n)
    <3>1. JoinOf(keyCols \o cols, keyCols, Len(keyCols), cols, Len(cols)) BY <2>1, JoinIs
    <3>. HIDE DEF values, keyValues
    <3>2. values \in Seq(ToSet(values)) /\ keyValues \in Seq(ToSet(keyValues)) BY <2>2
    <3>3. JoinOf(keyValues \o values, keyValues, Len(keyValues), values, Len(values)) BY <3>2, JoinIs
    <3>. QED BY <2>2, <3>1, <3>3, Zenon
  <2>. HIDE DEF values, keyValues, keyCols, cols
  <2>. DEFINE joined == keyValues \o values
              joinedCols == keyCols \o cols
  <2>5. JoinOf(joinedCols, keyCols, keys, cols, n) /\ JoinOf(joined, keyValues, keys, values, n) BY <2>4
  <2>6. /\ names = IF includeKeys THEN joinedCols ELSE cols
        /\ items = IF includeKeys THEN joined ELSE values
    BY DEF keyCols, cols
  <2>. HIDE DEF joined, joinedCols, keys, n, names, items
  <2>7. CASE includeKeys
    <3>. DEFINE sum == keys + n
    <3>1. size = sum /\ sum \in Nat BY <1>2, <2>7
    <3>2. DOMAIN joinedCols = 1..sum BY <2>5, Zenon DEF JoinOf
    <3>3. /\ DOMAIN joined = 1..sum
          /\ \A i \in 1..sum : (i \in 1..keys /\ joined[i] = keyValues[i]) \/ \E c \in 1..n : joined[i] = values[c]
          /\ \A c \in 1..n : \E i \in 1..sum : joined[i] = values[c]
      BY <2>5, Zenon DEF JoinOf
    <3>. HIDE DEF sum, size
    <3>. QED BY <2>3, <2>6, <2>7, <3>1, <3>2, <3>3, Zenon DEF keyCols
  <2>8. CASE ~includeKeys
    <3>1. size = n /\ names = cols /\ items = values BY <2>6, <2>8
    <3>. HIDE DEF size
    <3>. QED BY <1>2, <2>3, <2>8, <3>1, Zenon DEF keyCols
  <2>. QED BY <2>7, <2>8
<1>4. frame = Fields(names, GroupColumns(items, keys, depth)) BY DEF GroupFrame, GroupColumns
<1>5. depth \in GetDepth(values) \/ GetDepth(values) = {} OBVIOUS
<1>. HIDE DEF keys, n, values, keyValues, items, names, size, depth, frame
<1>6. \A i \in 1..size : Shaped(items[i]) BY <1>2, <1>3
<1>7. /\ IsFrame(frame)
      /\ Unsupported(frame) <=> \E i \in 1..size : ~Plain(items[i])
      /\ (/\ depth \in Nat
          /\ \A i \in 1..size : Plain(items[i]) /\ (items[i].t \in {"atom", "chars"} \/ Size(items[i]) = depth))
         => Even(frame)
      /\ depth \in Nat => Unsupported(frame) \/ Measured(frame)
  <2>1. IsGroup(frame, size, items, depth) BY <1>3, <1>4, <1>6, GroupColumnsAre
  <2>. QED BY <2>1, Zenon DEF IsGroup
<1>8. Unsupported(frame) => ~(PlainTable(o.key) /\ PlainTable(o.value)) BY <1>2, <1>3, <1>7
<1>9. ASSUME GetDepth(values) # {}, ~Unsupported(frame),
             includeKeys => \A i \in DOMAIN o.key.cols : keyValues[i].t \in {"atom", "chars"}
      PROVE  Even(frame)
  <2>1. \A i \in 1..size : Plain(items[i]) BY <1>7, <1>9
  <2>2. \A c \in 1..n : Shaped(values[c]) /\ Plain(values[c]) BY <1>2, <1>3, <2>1
  <2>3. depth \in Nat /\ \A c \in 1..n : values[c].t \notin {"atom", "chars"} => Size(values[c]) = depth
    BY <1>2, <1>3, <1>5, <1>9, <2>2, DepthIs
  <2>4. \A i \in 1..size : items[i].t \in {"atom", "chars"} \/ Size(items[i]) = depth
    BY <1>3, <1>9, <2>3
  <2>. QED BY <1>7, <2>1, <2>3, <2>4
<1>10. ASSUME GetDepth(values) # {}, ~Unsupported(frame) PROVE Measured(frame)
  <2>1. \A i \in 1..size : Plain(items[i]) BY <1>7, <1>10
  <2>2. \A c \in 1..n : Shaped(values[c]) /\ Plain(values[c]) BY <1>2, <1>3, <2>1
  <2>3. depth \in Nat BY <1>2, <1>3, <1>5, <1>10, <2>2, DepthIs
  <2>. QED BY <1>7, <1>10, <2>3
<1>. QED BY <1>7, <1>8, <1>9, <1>10 DEF frame, values, keyValues

KeyItemsScalar(o, includeKeys) ==
  includeKeys => \A row \in 1..Size(o.key) : \A i \in DOMAIN o.key.cols : Row(o.key, row)[i].t \in {"atom", "chars"}

LEMMA GroupedTableIs ==
  ASSUME NEW o, o.t = "dict", WellFormed(o), NEW includeKeys
  PROVE  /\ IsResult(GroupedTable(o, includeKeys))
         /\ GroupedTable(o, includeKeys).tag = "panic" => IsKeyedTable(o) /\ ~(PlainTable(o.key) /\ PlainTable(o.value))
         /\ (IsKeyedTable(o) => KeyItemsScalar(o, includeKeys)) => AllEven(GroupedTable(o, includeKeys))
<1>. DEFINE rows == 1..Size(o.key)
            indexable == Indexable(o.key) /\ Indexable(o.value)
            Frame(row) == GroupFrame(o, includeKeys, row)
            Fails(row) == indexable /\ GetDepth(Row(o.value, row)) = {}
            Panics(row) == indexable => ~Fails(row) /\ Unsupported(Frame(row))
            stops == {row \in rows : Fails(row) \/ Panics(row)}
            frames == [row \in rows |-> Frame(row)]
            grouped == GroupedTable(o, includeKeys)
<1>1. CASE ~IsKeyedTable(o)
  <2>1. grouped = Failed BY <1>1 DEF GroupedTable
  <2>. QED BY <2>1, FailedIs, Zenon DEF AllEven
<1>2. CASE IsKeyedTable(o) /\ stops # {}
  <2>1. grouped = IF Fails(Min(stops)) THEN Failed ELSE Panicked BY <1>2 DEF GroupedTable
  <2>2. Min(stops) \in stops
    <3>1. stops \in SUBSET Nat OBVIOUS
    <3>. HIDE DEF stops
    <3>. QED BY <1>2, <3>1, MinIsLeast
  <2>3. ASSUME ~Fails(Min(stops)) PROVE ~(PlainTable(o.key) /\ PlainTable(o.value))
    <3>. DEFINE row == Min(stops)
    <3>1. row \in rows /\ Panics(row) BY <2>2, <2>3
    <3>. HIDE DEF row
    <3>2. CASE indexable
      <4>1. Unsupported(Frame(row)) BY <3>1, <3>2
      <4>. QED BY <1>2, <3>1, <3>2, <4>1, GroupFrameIs
    <3>3. CASE ~indexable BY <3>3 DEF Indexable, PlainTable, PlainList, Plain
    <3>. QED BY <3>2, <3>3
  <2>. HIDE DEF stops, grouped
  <2>4. /\ IsResult(grouped) /\ AllEven(grouped) BY <2>1, FailedIs DEF Panicked, IsResult, AllEven
  <2>5. grouped.tag = "panic" => ~Fails(Min(stops)) BY <2>1 DEF Failed
  <2>. QED BY <1>2, <2>3, <2>4, <2>5 DEF grouped
<1>3. CASE IsKeyedTable(o) /\ stops = {}
  <2>1. grouped = Parsed(frames) BY <1>3 DEF GroupedTable
  <2>2. \A row \in rows : indexable /\ GetDepth(Row(o.value, row)) # {} /\ ~Unsupported(Frame(row)) BY <1>3
  <2>3. \A row \in rows : /\ IsFrame(Frame(row)) /\ Measured(Frame(row))
                          /\ KeyItemsScalar(o, includeKeys) => Even(Frame(row))
    BY <1>3, <2>2, GroupFrameIs DEF KeyItemsScalar
  <2>7. \E n \in Nat : rows = 1..n
    <3>1. o.key.t = "table" /\ Shaped(o.key) BY <1>3 DEF IsKeyedTable, WellFormed, Parts
    <3>2. Size(o.key) \in Nat BY <3>1 DEF Size, Count, Shaped
    <3>. QED BY <3>2
  <2>. HIDE DEF rows, Frame
  <2>4. DOMAIN frames = rows /\ \A row \in rows : frames[row] = Frame(row) OBVIOUS
  <2>. HIDE DEF frames, grouped
  <2>5. IsResult(grouped) /\ grouped.tag = "frames" /\ grouped.frames = frames
    <3>1. \A i \in DOMAIN frames : IsFrame(frames[i]) BY <2>3, <2>4
    <3>2. ~\E i \in DOMAIN frames : Unsupported(frames[i]) BY <2>2, <2>4
    <3>3. \A i \in DOMAIN frames : Unsupported(frames[i]) \/ Measured(frames[i]) BY <2>3, <2>4
    <3>4. \E n \in Nat : DOMAIN frames = 1..n BY <2>4, <2>7
    <3>. QED BY <2>1, <3>1, <3>2, <3>3, <3>4, ParsedIs
  <2>6. KeyItemsScalar(o, includeKeys) => AllEven(grouped)
    BY <2>3, <2>4, <2>5 DEF AllEven
  <2>. QED BY <1>3, <2>5, <2>6 DEF grouped
<1>. QED BY <1>1, <1>2, <1>3

LEMMA NamesAre ==
  ASSUME NEW key, Shaped(key), HasNames(key)
  PROVE  Names(key) \in Seq(ToSet(Names(key)))
<1>1. CASE key.t \in {"atom", "vec"}
  <2>1. key.vs \in Seq(ToSet(key.vs)) BY <1>1 DEF Shaped
  <2>2. DOMAIN key.vs = 1..Len(key.vs) /\ Len(key.vs) \in Nat BY <2>1
  <2>3. Names(key) = [i \in DOMAIN key.vs |-> <<key.vs[i]>>] BY <1>1 DEF Names
  <2>4. Names(key) = [i \in 1..Len(key.vs) |-> Names(key)[i]] BY <2>2, <2>3
  <2>. QED BY <2>2, <2>4, SeqOfFunction
<1>2. CASE key.t = "chars"
  <2>1. Names(key) = <<key.vs>> BY <1>2 DEF Names
  <2>. QED BY <2>1 DEF ToSet
<1>3. CASE key.t = "list"
  <2>1. key.items \in Seq(ToSet(key.items)) BY <1>3 DEF Shaped
  <2>2. Names(key) = [i \in 1..Len(key.items) |-> Text(key.items[i])] /\ Len(key.items) \in Nat
    BY <1>3, <2>1 DEF Names, Texts
  <2>. QED BY <2>2 DEF ToSet
<1>. QED BY <1>1, <1>2, <1>3 DEF HasNames

LEMMA ValuesAre ==
  ASSUME NEW value, Shaped(value), \A part \in Parts(value) : Shaped(part),
         NEW count \in Nat, HasValues(value, count)
  PROVE  /\ DOMAIN Values(value, count) = 1..count
         /\ \A i \in 1..count : /\ Shaped(Values(value, count)[i])
                                /\ PlainList(value) => Plain(Values(value, count)[i])
<1>1. CASE value.t = "list"
  <2>1. Values(value, count) = value.items /\ Len(value.items) = count BY <1>1 DEF Values, HasValues
  <2>2. value.items \in Seq(ToSet(value.items)) BY <1>1 DEF Shaped
  <2>3. DOMAIN value.items = 1..count BY <2>1, <2>2
  <2>4. \A i \in 1..count : value.items[i] \in Parts(value) BY <1>1, <2>3 DEF Parts, ToSet
  <2>. QED BY <1>1, <2>1, <2>3, <2>4 DEF PlainList
<1>2. CASE value.t # "list" /\ count = 1
  <2>1. Values(value, count) = <<value>> BY <1>2 DEF Values
  <2>2. DOMAIN <<value>> = 1..1 /\ <<value>>[1] = value OBVIOUS
  <2>. QED BY <1>2, <2>1, <2>2 DEF PlainList
<1>3. CASE value.t # "list" /\ count # 1
  <2>1. value.t \in {"vec", "chars"} /\ Size(value) = count BY <1>3 DEF HasValues
  <2>2. Values(value, count) = [i \in 1..count |-> Item(value, i)] BY <1>3 DEF Values
  <2>3. \A i \in 1..count : Shaped(Item(value, i)) /\ (PlainList(value) => Plain(Item(value, i))) BY <2>1, ItemIs
  <2>. QED BY <2>2, <2>3
<1>. QED BY <1>1, <1>2, <1>3

(* A dictionary's frame is as deep as its longest value; if every list among  *)
(* the values has that depth or one value, the depth is that of one of them. *)
LEMMA DepthIsNumber ==
  ASSUME NEW n \in Nat, NEW items, DOMAIN items = 1..n,
         \A i \in 1..n : Shaped(items[i]) /\ Plain(items[i])
  PROVE  Depth(items) \in Nat \ {0}
<1>. DEFINE lists == {i \in DOMAIN items : items[i].t \notin {"atom", "chars"}}
            sizes == {Size(items[i]) : i \in lists} \cup {1}
            f == [i \in 1..n |-> IF i \in lists THEN Size(items[i]) ELSE 1]
<1>1. Depth(items) = Max(sizes) BY DEF Depth
<1>2. \A i \in lists : Size(items[i]) \in Nat
  <2>. SUFFICES ASSUME NEW i \in lists PROVE Size(items[i]) \in Nat OBVIOUS
  <2>1. Supported(items[i]) BY DEF Plain, Supported
  <2>. QED BY <2>1, StandardColumnIs
<1>3. f \in [1..n -> Nat] /\ \A i \in lists : i \in 1..n /\ f[i] = Size(items[i]) BY <1>2
<1>. HIDE DEF f
<1>4. PICK b \in Nat : \A i \in 1..n : f[i] =< b BY <1>3, HaveBound
<1>5. b + 1 \in Nat /\ sizes \in SUBSET (0..(b + 1)) /\ 1 \in sizes BY <1>2, <1>3, <1>4
<1>. HIDE DEF sizes
<1>6. Max(sizes) \in sizes /\ 1 =< Max(sizes) BY <1>5, MaxIsGreatest
<1>7. Max(sizes) \in 0..(b + 1) BY <1>5, <1>6
<1>8. Max(sizes) \in Nat \ {0} BY <1>5, <1>6, <1>7
<1>. QED BY <1>1, <1>8

LEMMA DictDepthIs ==
  ASSUME NEW n \in Nat, NEW items, DOMAIN items = 1..n,
         \A i \in 1..n : Shaped(items[i]) /\ Plain(items[i]),
         \A i \in 1..n : items[i].t \in {"atom", "chars"} \/ Size(items[i]) \in {1, Depth(items)}
  PROVE  Depth(items) \in Nat \ {0}
<1>. DEFINE lists == {i \in DOMAIN items : items[i].t \notin {"atom", "chars"}}
            sizes == {Size(items[i]) : i \in lists} \cup {1}
            D == Depth(items)
<1>1. D = Max(sizes) BY DEF Depth
<1>2. sizes \subseteq {1, D} OBVIOUS
<1>3. \A i \in lists : Size(items[i]) \in Nat
  <2>. SUFFICES ASSUME NEW i \in lists PROVE Size(items[i]) \in Nat OBVIOUS
  <2>1. Supported(items[i]) BY DEF Plain, Supported
  <2>. QED BY <2>1, StandardColumnIs
<1>4. sizes \subseteq Nat /\ 1 \in sizes BY <1>3
<1>. HIDE DEF sizes, D
<1>5. CASE D \in sizes
  <2>1. D + 1 \in Nat /\ sizes \in SUBSET (0..(D + 1)) BY <1>2, <1>4, <1>5
  <2>2. Max(sizes) \in sizes /\ \A y \in sizes : y =< Max(sizes) BY <1>4, <2>1, MaxIsGreatest
  <2>3. D \in Nat /\ 1 =< D BY <1>1, <1>4, <2>2
  <2>. QED BY <2>3 DEF D
<1>6. CASE D \notin sizes
  <2>1. sizes \in SUBSET (0..1) BY <1>2, <1>4, <1>6
  <2>2. Max(sizes) \in sizes BY <1>4, <2>1, MaxIsGreatest
  <2>. QED BY <1>1, <1>6, <2>2
<1>. QED BY <1>5, <1>6

ObjectColumns(items, depth) == [i \in DOMAIN items |-> ObjectColumn(items[i], depth)]

IsObjects(frame, n, items, depth) ==
  /\ IsFrame(frame)
  /\ Unsupported(frame) <=> \E i \in 1..n : ~Plain(items[i])
  /\ depth \in Nat => Unsupported(frame) \/ Measured(frame)
  /\ (/\ depth \in Nat \ {0}
      /\ \A i \in 1..n : Plain(items[i]) /\ (items[i].t \in {"atom", "chars"} \/ Size(items[i]) \in {1, depth}))
     => Even(frame)

LEMMA ObjectColumnsAre ==
  ASSUME NEW n \in Nat, NEW names, DOMAIN names = 1..n, NEW items, DOMAIN items = 1..n,
         \A i \in 1..n : Shaped(items[i]), NEW depth
  PROVE  IsObjects(Fields(names, ObjectColumns(items, depth)), n, items, depth)
<1>. DEFINE columns == ObjectColumns(items, depth)
            frame == Fields(names, columns)
<1>1. \A i \in 1..n : columns[i] = ObjectColumn(items[i], depth) BY DEF ObjectColumns
<1>. HIDE DEF columns, frame
<1>2. /\ IsFrameOf(frame, n)
      /\ \A i \in 1..n : frame[i].ty = columns[i].ty /\ frame[i].cells = columns[i].cells
  BY FieldsAre DEF frame
<1>3. IsFrame(frame) /\ DOMAIN frame = 1..n BY <1>2 DEF IsFrame, IsFrameOf
<1>4. \A i \in 1..n : frame[i].ty # "unsupported" <=> Plain(items[i])
  <2>. SUFFICES ASSUME NEW i \in 1..n PROVE columns[i].ty # "unsupported" <=> Plain(items[i]) BY <1>2
  <2>. QED BY <1>1, ObjectColumnIs
<1>5. Unsupported(frame) <=> \E i \in 1..n : ~Plain(items[i]) BY <1>3, <1>4 DEF Unsupported
<1>6. ASSUME depth \in Nat \ {0},
             \A i \in 1..n : Plain(items[i]) /\ (items[i].t \in {"atom", "chars"} \/ Size(items[i]) \in {1, depth})
      PROVE  Even(frame)
  <2>1. ASSUME NEW i \in 1..n PROVE Len(columns[i].cells) = depth
    BY <1>1, <1>6, ObjectColumnIs
  <2>. QED BY <1>2, <1>3, <2>1 DEF Even
<1>7. ASSUME depth \in Nat, ~Unsupported(frame) PROVE Measured(frame)
  <2>1. ASSUME NEW i \in 1..n PROVE Len(columns[i].cells) \in Nat
    <3>1. Shaped(items[i]) /\ Plain(items[i]) BY <1>5, <1>7
    <3>. QED BY <1>1, <1>7, <3>1, ObjectColumnIs
  <2>. QED BY <1>2, <1>3, <2>1 DEF Measured
<1>. QED BY <1>3, <1>5, <1>6, <1>7 DEF IsObjects, frame, columns

(* The values of a dictionary that are lists have one item, or as many as the *)
(* longest.                                                                  *)
ValuesFit(o) ==
  LET values == Values(o.value, Len(Names(o.key)))
  IN \A i \in DOMAIN values : values[i].t \in {"atom", "chars"} \/ Size(values[i]) \in {1, Depth(values)}

LEMMA DictFrameIs ==
  ASSUME NEW o, o.t = "dict", WellFormed(o)
  PROVE  /\ IsResult(DictFrame(o))
         /\ DictFrame(o).tag = "panic" => IsDict(o) /\ ~PlainList(o.value)
         /\ (IsDict(o) => ValuesFit(o)) => AllEven(DictFrame(o))
<1>1. CASE ~IsDict(o)
  <2>1. DictFrame(o) = Failed BY <1>1 DEF DictFrame
  <2>. QED BY <2>1, FailedIs, Zenon DEF AllEven
<1>2. CASE IsDict(o)
  <2>. DEFINE names == Names(o.key)
              n == Len(names)
              values == Values(o.value, n)
              depth == Depth(values)
              frame == Fields(names, ObjectColumns(values, depth))
  <2>1. Parts(o) = {o.key, o.value} BY DEF Parts
  <2>2. Shaped(o.key) /\ Shaped(o.value) /\ \A part \in Parts(o.value) : Shaped(part) BY <2>1, Zenon DEF WellFormed
  <2>3. HasNames(o.key) /\ HasValues(o.value, n) BY <1>2 DEF IsDict
  <2>4. names \in Seq(ToSet(names)) BY <2>2, <2>3, NamesAre
  <2>5. DictFrame(o) = Parsed(<<frame>>) BY <1>2 DEF DictFrame, ObjectColumns
  <2>6. ValuesFit(o) <=> \A i \in DOMAIN values : values[i].t \in {"atom", "chars"} \/ Size(values[i]) \in {1, depth}
    BY DEF ValuesFit
  <2>. HIDE DEF names
  <2>7. n \in Nat /\ DOMAIN names = 1..n BY <2>4
  <2>. HIDE DEF n
  <2>8. DOMAIN values = 1..n /\ \A i \in 1..n : Shaped(values[i]) /\ (PlainList(o.value) => Plain(values[i]))
    BY <2>2, <2>3, <2>7, ValuesAre
  <2>. HIDE DEF values, depth, frame
  <2>9. IsObjects(frame, n, values, depth) BY <2>7, <2>8, ObjectColumnsAre DEF frame
  <2>10. /\ IsFrame(frame)
         /\ Unsupported(frame) <=> \E i \in 1..n : ~Plain(values[i])
         /\ depth \in Nat => Unsupported(frame) \/ Measured(frame)
    BY <2>9, Zenon DEF IsObjects
  <2>11. Unsupported(frame) => ~PlainList(o.value) BY <2>8, <2>10
  <2>12. ASSUME ~Unsupported(frame), ValuesFit(o) PROVE Even(frame)
    <3>1. \A i \in 1..n : Plain(values[i]) /\ (values[i].t \in {"atom", "chars"} \/ Size(values[i]) \in {1, depth})
      BY <2>6, <2>8, <2>10, <2>12
    <3>2. depth \in Nat \ {0} BY <2>7, <2>8, <3>1, DictDepthIs DEF depth
    <3>. QED BY <2>9, <3>1, <3>2, Zenon DEF IsObjects
  <2>13. /\ IsResult(Parsed(<<frame>>))
         /\ IF Unsupported(frame)
            THEN Parsed(<<frame>>).tag = "panic" /\ DOMAIN Parsed(<<frame>>).frames = {}
            ELSE Parsed(<<frame>>).tag = "frames" /\ Parsed(<<frame>>).frames = <<frame>>
    <3>1. ASSUME ~Unsupported(frame) PROVE depth \in Nat
      <4>1. \A i \in 1..n : Shaped(values[i]) /\ Plain(values[i]) BY <2>8, <2>10, <3>1
      <4>. QED BY <2>7, <2>8, <4>1, DepthIsNumber DEF depth
    <3>2. Unsupported(frame) \/ Measured(frame) BY <2>10, <3>1
    <3>. QED BY <2>10, <3>2, OneFrame
  <2>14. ValuesFit(o) => AllEven(Parsed(<<frame>>)) BY <2>12, <2>13 DEF AllEven
  <2>. QED BY <1>2, <2>5, <2>11, <2>13, <2>14
<1>. QED BY <1>1, <1>2

LEMMA ObjectFrameIs ==
  ASSUME NEW o, Shaped(o), Plain(o)
  PROVE  IsResult(ObjectFrame(o)) /\ ObjectFrame(o).tag # "panic" /\ AllEven(ObjectFrame(o))
<1>. DEFINE depth == IF o.t \in {"atom", "chars"} THEN 1 ELSE Size(o)
            names == <<ValueName>>
            items == <<o>>
            frame == Fields(names, ObjectColumns(items, depth))
<1>1. DOMAIN names = 1..1 /\ DOMAIN items = 1..1 /\ items[1] = o OBVIOUS
<1>2. ObjectFrame(o) = Parsed(<<frame>>)
  <2>1. ObjectColumns(items, depth) = <<ObjectColumn(o, depth)>> BY DEF ObjectColumns
  <2>. QED BY <2>1 DEF ObjectFrame
<1>. HIDE DEF names, items, depth, frame
<1>3. IsObjects(frame, 1, items, depth)
  <2>1. 1 \in Nat /\ \A i \in 1..1 : Shaped(items[i]) BY <1>1
  <2>. QED BY <1>1, <2>1, ObjectColumnsAre DEF frame
<1>7. depth \in Nat
  <2>1. o.t \notin {"atom", "chars"} => Supported(o) BY DEF Plain, Supported
  <2>. QED BY <2>1, StandardColumnIs DEF depth
<1>4. IsFrame(frame) /\ ~Unsupported(frame) /\ Measured(frame) BY <1>1, <1>3, <1>7 DEF IsObjects
<1>5. Even(frame)
  <2>1. IsFrameOf(frame, 1) BY <1>1, FieldsAre DEF frame
  <2>2. DOMAIN frame = 1..1 BY <2>1 DEF IsFrameOf
  <2>. QED BY <2>2 DEF Even
<1>6. /\ IsResult(Parsed(<<frame>>))
      /\ IF Unsupported(frame)
         THEN Parsed(<<frame>>).tag = "panic" /\ DOMAIN Parsed(<<frame>>).frames = {}
         ELSE Parsed(<<frame>>).tag = "frames" /\ Parsed(<<frame>>).frames = <<frame>>
  BY <1>4, OneFrame
<1>. QED BY <1>2, <1>4, <1>5, <1>6 DEF AllEven

-----------------------------------------------------------------------------
(* Lists of row dictionaries *)

(* The values a row has under a name. *)
ValuesUnder(row, name) ==
  {CellValue(RowValues(row)[k]).v : k \in {j \in DOMAIN RowNames(row) : RowNames(row)[j] = name}}

CellShows(v, row, name) == IF name \in ToSet(RowNames(row)) THEN v \in ValuesUnder(row, name) ELSE v = Null

ShowsRows(field, rows) ==
  /\ DOMAIN field.cells = DOMAIN rows
  /\ \A i \in DOMAIN rows : CellShows(field.cells[i], rows[i], field.name)

NamesOf(frame) == {frame[c].name : c \in DOMAIN frame}

AllNames(rows) == UNION {ToSet(RowNames(rows[i])) : i \in DOMAIN rows}

LEMMA TypedColumnIs ==
  ASSUME NEW N \in Nat, NEW cells, DOMAIN cells = 1..N
  PROVE  /\ TypedColumn(cells).ty # "unsupported"
         /\ DOMAIN TypedColumn(cells).cells = 1..N /\ Len(TypedColumn(cells).cells) = N
         /\ \A i \in 1..N : TypedColumn(cells).cells[i] = cells[i].v
<1>. DEFINE values == [i \in DOMAIN cells |-> cells[i].v]
            kind == CHOOSE k \in Kinds(cells) : TRUE
            ty == IF MixedNumeric(cells) THEN "float64" ELSE IF Uniform(cells) THEN kind ELSE "string"
<1>1. Uniform(cells) => kind \in Typed
  <2>1. ASSUME Uniform(cells) PROVE Kinds(cells) # {}
    <3>. SUFFICES ASSUME Kinds(cells) = {} PROVE FALSE OBVIOUS
    <3>1. Cardinality(Kinds(cells)) = 0 BY FS_EmptySet, Zenon
    <3>2. Cardinality(Kinds(cells)) = 1 BY <2>1 DEF Uniform
    <3>. QED BY <3>1, <3>2
  <2>. QED BY <2>1 DEF Uniform
<1>2. ty # "unsupported" BY <1>1 DEF Typed
<1>3. TypedColumn(cells) = Column(ty, values)
  <2>4. ~(MixedNumeric(cells) /\ Uniform(cells)) BY DEF MixedNumeric, Uniform
  <2>1. CASE MixedNumeric(cells) BY <2>1, <2>4 DEF TypedColumn
  <2>2. CASE ~MixedNumeric(cells) /\ Uniform(cells) BY <2>2 DEF TypedColumn
  <2>3. CASE ~MixedNumeric(cells) /\ ~Uniform(cells) BY <2>3 DEF TypedColumn
  <2>. QED BY <2>1, <2>2, <2>3
<1>4. DOMAIN values = 1..N /\ Len(values) = N /\ \A i \in 1..N : values[i] = cells[i].v OBVIOUS
<1>. HIDE DEF ty, values
<1>. QED BY <1>2, <1>3, <1>4 DEF Column

(* A frame whose columns are made of the cells of all rows. *)
FrameOfCells(names, cells) == Fields(names, [c \in DOMAIN names |-> TypedColumn(cells[c])])

LEMMA FrameOfCellsIs ==
  ASSUME NEW N \in Nat, NEW rows, DOMAIN rows = 1..N,
         NEW n \in Nat, NEW names, DOMAIN names = 1..n,
         NEW cells, \A c \in 1..n : DOMAIN cells[c] = 1..N,
         \A c \in 1..n, i \in 1..N : CellShows(cells[c][i].v, rows[i], names[c])
  PROVE  /\ IsFrame(FrameOfCells(names, cells)) /\ ~Unsupported(FrameOfCells(names, cells))
         /\ Measured(FrameOfCells(names, cells))
         /\ Even(FrameOfCells(names, cells)) /\ NamesOf(FrameOfCells(names, cells)) = ToSet(names)
         /\ \A c \in DOMAIN FrameOfCells(names, cells) : ShowsRows(FrameOfCells(names, cells)[c], rows)
<1>. DEFINE columns == [c \in DOMAIN names |-> TypedColumn(cells[c])]
            frame == FrameOfCells(names, cells)
<1>1. \A c \in 1..n : columns[c] = TypedColumn(cells[c]) OBVIOUS
<1>2. frame = Fields(names, columns) BY DEF FrameOfCells
<1>. HIDE DEF columns, frame
<1>3. /\ IsFrameOf(frame, n)
      /\ \A c \in 1..n : frame[c].name = names[c] /\ frame[c].ty = columns[c].ty /\ frame[c].cells = columns[c].cells
  BY <1>2, FieldsAre
<1>4. DOMAIN frame = 1..n /\ IsFrame(frame) BY <1>3 DEF IsFrameOf, IsFrame
<1>5. ASSUME NEW c \in 1..n
      PROVE  /\ columns[c].ty # "unsupported"
             /\ DOMAIN columns[c].cells = 1..N /\ Len(columns[c].cells) = N
             /\ \A i \in 1..N : columns[c].cells[i] = cells[c][i].v
  <2>. DEFINE these == cells[c]
  <2>1. DOMAIN these = 1..N OBVIOUS
  <2>. HIDE DEF these
  <2>2. /\ TypedColumn(these).ty # "unsupported"
        /\ DOMAIN TypedColumn(these).cells = 1..N /\ Len(TypedColumn(these).cells) = N
        /\ \A i \in 1..N : TypedColumn(these).cells[i] = these[i].v
    BY <2>1, TypedColumnIs
  <2>. QED BY <1>1, <2>2 DEF these
<1>6. ~Unsupported(frame) /\ Even(frame) /\ Measured(frame) BY <1>3, <1>4, <1>5 DEF Unsupported, Even, Measured
<1>7. NamesOf(frame) = ToSet(names) BY <1>3, <1>4 DEF NamesOf, ToSet
<1>8. ASSUME NEW c \in 1..n PROVE ShowsRows(frame[c], rows)
  <2>1. frame[c].name = names[c] /\ frame[c].cells = columns[c].cells BY <1>3
  <2>2. DOMAIN frame[c].cells = DOMAIN rows BY <1>5, <2>1
  <2>3. ASSUME NEW i \in 1..N PROVE CellShows(frame[c].cells[i], rows[i], frame[c].name)
    <3>1. frame[c].cells[i] = cells[c][i].v BY <1>5, <2>1
    <3>2. CellShows(cells[c][i].v, rows[i], names[c]) OBVIOUS
    <3>. QED BY <2>1, <3>1, <3>2, Zenon
  <2>. QED BY <2>2, <2>3 DEF ShowsRows
<1>. QED BY <1>4, <1>6, <1>7, <1>8 DEF frame

HaveNames(rows, N) ==
  /\ DOMAIN rows = 1..N
  /\ \A i \in 1..N : RowNames(rows[i]) \in Seq(ToSet(RowNames(rows[i])))

(* What a frame made of row dictionaries is. *)
IsRowsFrame(frame, rows) ==
  /\ IsFrame(frame) /\ ~Unsupported(frame) /\ Even(frame) /\ Measured(frame)
  /\ NamesOf(frame) = AllNames(rows)
  /\ \A c \in DOMAIN frame : ShowsRows(frame[c], rows)

LEMMA UniformFrameIs ==
  ASSUME NEW N \in Nat \ {0}, NEW rows, HaveNames(rows, N), UniformRows(rows)
  PROVE  IsRowsFrame(UniformFrame(rows), rows)
<1>. DEFINE names == RowNames(rows[1])
            n == Len(names)
            cells == [c \in DOMAIN names |-> [i \in DOMAIN rows |-> CellValue(RowValues(rows[i])[c])]]
            frame == FrameOfCells(names, cells)
<1>1. UniformFrame(rows) = frame BY Zenon DEF UniformFrame, FrameOfCells
<1>2. n \in Nat /\ DOMAIN names = 1..n BY DEF HaveNames
<1>3. DOMAIN rows = 1..N /\ \A i \in 1..N : RowNames(rows[i]) = names BY DEF HaveNames, UniformRows
<1>. HIDE DEF n, names
<1>4. /\ \A c \in 1..n : DOMAIN cells[c] = 1..N
      /\ \A c \in 1..n, i \in 1..N : cells[c][i] = CellValue(RowValues(rows[i])[c])
  BY <1>2, <1>3
<1>. HIDE DEF cells, frame
<1>5. ASSUME NEW c \in 1..n, NEW i \in 1..N PROVE CellShows(cells[c][i].v, rows[i], names[c])
  <2>1. RowNames(rows[i]) = names BY <1>3
  <2>2. names[c] \in ToSet(names) BY <1>2 DEF ToSet
  <2>3. cells[c][i].v \in ValuesUnder(rows[i], names[c])
    <3>1. c \in {j \in DOMAIN RowNames(rows[i]) : RowNames(rows[i])[j] = names[c]} BY <1>2, <2>1
    <3>2. cells[c][i].v = CellValue(RowValues(rows[i])[c]).v BY <1>4
    <3>. QED BY <3>1, <3>2 DEF ValuesUnder
  <2>. QED BY <2>1, <2>2, <2>3, Zenon DEF CellShows
<1>6. /\ IsFrame(frame) /\ ~Unsupported(frame) /\ Even(frame) /\ Measured(frame) /\ NamesOf(frame) = ToSet(names)
      /\ \A c \in DOMAIN frame : ShowsRows(frame[c], rows)
  BY <1>2, <1>3, <1>4, <1>5, FrameOfCellsIs, SMTT(30) DEF frame
<1>7. AllNames(rows) = ToSet(names) BY <1>3 DEF AllNames
<1>. QED BY <1>1, <1>6, <1>7, Zenon DEF IsRowsFrame

LEMMA CellOfIs ==
  ASSUME NEW row, RowNames(row) \in Seq(ToSet(RowNames(row))), NEW name
  PROVE  CellShows(CellOf(row, name).v, row, name)
<1>. DEFINE places == {c \in DOMAIN RowNames(row) : RowNames(row)[c] = name}
<1>1. CASE places = {}
  <2>1. CellOf(row, name) = Nil BY <1>1 DEF CellOf
  <2>2. Nil.v = Null BY DEF Nil
  <2>3. name \notin ToSet(RowNames(row)) BY <1>1 DEF ToSet
  <2>. QED BY <2>1, <2>2, <2>3, Zenon DEF CellShows
<1>2. CASE places # {}
  <2>1. CellOf(row, name) = CellValue(RowValues(row)[Max(places)]) BY <1>2 DEF CellOf
  <2>2. name \in ToSet(RowNames(row)) BY <1>2 DEF ToSet
  <2>3. Max(places) \in places
    <3>1. Len(RowNames(row)) \in Nat /\ places \in SUBSET (0..Len(RowNames(row))) OBVIOUS
    <3>. HIDE DEF places
    <3>. QED BY <1>2, <3>1, MaxIsGreatest
  <2>4. CellOf(row, name).v \in ValuesUnder(row, name) BY <2>1, <2>3 DEF ValuesUnder
  <2>. QED BY <2>2, <2>4, Zenon DEF CellShows
<1>. QED BY <1>1, <1>2

LEMMA UnionFrameIs ==
  ASSUME NEW N \in Nat, NEW rows, HaveNames(rows, N)
  PROVE  IsRowsFrame(UnionFrame(rows), rows)
<1>. DEFINE names == UnionNames(rows)
            n == Len(names)
            cells == [c \in DOMAIN names |-> [i \in DOMAIN rows |-> CellOf(rows[i], names[c])]]
            frame == FrameOfCells(names, cells)
            S == AllNames(rows)
<1>1. UnionFrame(rows) = frame BY Zenon DEF UnionFrame, FrameOfCells
<1>2. DOMAIN rows = 1..N BY DEF HaveNames
<1>3. names \in Seq(S) /\ ToSet(names) = S
  <2>1. \A i \in 1..N : RowNames(rows[i]) \in Seq(S)
    <3>. SUFFICES ASSUME NEW i \in 1..N PROVE RowNames(rows[i]) \in Seq(S) OBVIOUS
    <3>1. ToSet(RowNames(rows[i])) \subseteq S BY <1>2 DEF AllNames
    <3>2. RowNames(rows[i]) \in Seq(ToSet(RowNames(rows[i]))) BY DEF HaveNames
    <3>. HIDE DEF S
    <3>. QED BY <3>1, <3>2
  <2>. HIDE DEF S
  <2>2. names \in Seq(S) /\ ToSet(names) = UNION {ToSet(RowNames(rows[i])) : i \in 1..N} BY <1>2, <2>1, NamesOfAll
  <2>. QED BY <1>2, <2>2, Zenon DEF AllNames, S
<1>. HIDE DEF names, S
<1>4. n \in Nat /\ DOMAIN names = 1..n BY <1>3
<1>. HIDE DEF n
<1>5. /\ \A c \in 1..n : DOMAIN cells[c] = 1..N
      /\ \A c \in 1..n, i \in 1..N : cells[c][i] = CellOf(rows[i], names[c])
  BY <1>2, <1>4
<1>. HIDE DEF cells, frame
<1>6. ASSUME NEW c \in 1..n, NEW i \in 1..N PROVE CellShows(cells[c][i].v, rows[i], names[c])
  <2>1. RowNames(rows[i]) \in Seq(ToSet(RowNames(rows[i]))) BY DEF HaveNames
  <2>2. CellShows(CellOf(rows[i], names[c]).v, rows[i], names[c]) BY <2>1, CellOfIs
  <2>. QED BY <1>5, <2>2, Zenon
<1>7. /\ IsFrame(frame) /\ ~Unsupported(frame) /\ Even(frame) /\ Measured(frame) /\ NamesOf(frame) = ToSet(names)
      /\ \A c \in DOMAIN frame : ShowsRows(frame[c], rows)
  BY <1>2, <1>4, <1>5, <1>6, FrameOfCellsIs DEF frame
<1>. QED BY <1>1, <1>3, <1>7, Zenon DEF IsRowsFrame, S

LEMMA DictListIs ==
  ASSUME NEW o, o.t = "list", WellFormed(o)
  PROVE  /\ IsResult(DictList(o)) /\ DictList(o).tag # "panic" /\ AllEven(DictList(o))
         /\ DictList(o).tag # "error" <=> IsDictList(o)
         /\ IsDictList(o) => DOMAIN DictList(o).frames = {1} /\ IsRowsFrame(DictList(o).frames[1], o.items)
<1>. DEFINE rows == o.items
            N == Len(rows)
            frame == IF UniformRows(rows) THEN UniformFrame(rows) ELSE UnionFrame(rows)
<1>1. CASE ~IsDictList(o)
  <2>1. DictList(o) = Failed BY <1>1 DEF DictList
  <2>. QED BY <1>1, <2>1, FailedIs, Zenon DEF AllEven
<1>2. CASE IsDictList(o)
  <2>1. DictList(o) = Parsed(<<frame>>) BY <1>2 DEF DictList
  <2>2. rows \in Seq(ToSet(rows)) /\ rows # <<>> BY <1>2 DEF WellFormed, Shaped, IsDictList
  <2>3. DOMAIN rows = 1..N /\ N \in Nat \ {0} BY <2>2
  <2>4. ASSUME NEW i \in 1..N PROVE RowNames(rows[i]) \in Seq(ToSet(RowNames(rows[i])))
    <3>1. IsDict(rows[i]) BY <1>2, <2>3 DEF IsDictList
    <3>2. rows[i] \in Parts(o) BY <2>3 DEF Parts, ToSet
    <3>3. rows[i].key \in Parts(rows[i]) BY <3>1 DEF IsDict, Parts
    <3>4. Shaped(rows[i].key) BY <3>2, <3>3, Zenon DEF WellFormed
    <3>. QED BY <3>1, <3>4, NamesAre DEF IsDict, RowNames
  <2>5. HaveNames(rows, N) BY <2>3, <2>4, Zenon DEF HaveNames
  <2>. HIDE DEF rows, N
  <2>6. IsRowsFrame(frame, rows)
    <3>1. CASE UniformRows(rows) BY <2>3, <2>5, <3>1, UniformFrameIs
    <3>2. CASE ~UniformRows(rows) BY <2>3, <2>5, <3>2, UnionFrameIs
    <3>. QED BY <3>1, <3>2
  <2>. HIDE DEF frame
  <2>7. IsFrame(frame) /\ ~Unsupported(frame) /\ Even(frame) /\ Measured(frame) BY <2>6, Zenon DEF IsRowsFrame
  <2>8. IsResult(DictList(o)) /\ DictList(o).tag = "frames" /\ DictList(o).frames = <<frame>>
    BY <2>1, <2>7, OneFrame
  <2>9. AllEven(DictList(o)) /\ DOMAIN DictList(o).frames = {1} /\ DictList(o).frames[1] = frame
    BY <2>7, <2>8 DEF AllEven
  <2>. QED BY <1>2, <2>6, <2>8, <2>9 DEF rows
<1>. QED BY <1>1, <1>2

-----------------------------------------------------------------------------
(* parseKdbResponseToFrames *)

(* The frames parsed, before a column is moved. *)
Unmoved(o, panopticon, includeKeys) ==
  CASE o.t = "table" -> Parsed(<<SimpleTable(o)>>)
    [] o.t = "dict" /\ panopticon -> OrElse(KeyedTable(o), DictFrame(o))
    [] o.t = "dict" /\ ~panopticon -> GroupedTable(o, includeKeys)
    [] o.t = "list" /\ panopticon -> OrElse(DictList(o), ObjectFrame(o))
    [] o.t \in {"atom", "chars", "vec"} /\ panopticon -> ObjectFrame(o)
    [] OTHER -> Failed

NotRagged(o, panopticon, includeKeys) ==
  o.t = "dict" =>
    /\ ~panopticon /\ IsKeyedTable(o) => KeyItemsScalar(o, includeKeys)
    /\ ~IsKeyedTable(o) /\ IsDict(o) => ValuesFit(o)

LEMMA UnmovedIs ==
  ASSUME NEW o, WellFormed(o), NEW panopticon, NEW includeKeys
  PROVE  /\ IsResult(Unmoved(o, panopticon, includeKeys))
         /\ Unmoved(o, panopticon, includeKeys).tag = "panic" =>
              \/ o.t = "table" /\ ~PlainTable(o)
              \/ o.t = "dict" /\ IF IsKeyedTable(o) THEN ~(PlainTable(o.key) /\ PlainTable(o.value)) ELSE ~PlainList(o.value)
         /\ NotRagged(o, panopticon, includeKeys) => AllEven(Unmoved(o, panopticon, includeKeys))
         /\ panopticon /\ IsDictList(o) => /\ DOMAIN Unmoved(o, panopticon, includeKeys).frames = {1}
                                           /\ IsRowsFrame(Unmoved(o, panopticon, includeKeys).frames[1], o.items)
<1>. DEFINE unmoved == Unmoved(o, panopticon, includeKeys)
<1>1. CASE o.t = "table"
  <2>. DEFINE frame == SimpleTable(o)
  <2>1. unmoved = Parsed(<<frame>>) BY <1>1 DEF Unmoved
  <2>2. Shaped(o) /\ \A part \in Parts(o) : Shaped(part) BY Zenon DEF WellFormed
  <2>. HIDE DEF frame
  <2>3. /\ IsFrame(frame) /\ o.count \in Nat
        /\ ~Unsupported(frame) => \A c \in DOMAIN frame : Len(frame[c].cells) = o.count
        /\ Unsupported(frame) => ~PlainTable(o)
    BY <1>1, <2>2, SimpleTableIs DEF frame
  <2>4. ~Unsupported(frame) => Even(frame) /\ Measured(frame) BY <2>3 DEF Even, Measured
  <2>5. /\ IsResult(Parsed(<<frame>>))
        /\ IF Unsupported(frame)
           THEN Parsed(<<frame>>).tag = "panic" /\ DOMAIN Parsed(<<frame>>).frames = {}
           ELSE Parsed(<<frame>>).tag = "frames" /\ Parsed(<<frame>>).frames = <<frame>>
    BY <2>3, <2>4, OneFrame
  <2>6. AllEven(Parsed(<<frame>>)) BY <2>4, <2>5 DEF AllEven
  <2>7. ~IsDictList(o) BY <1>1 DEF IsDictList
  <2>. QED BY <1>1, <2>1, <2>3, <2>5, <2>6, <2>7
<1>2. CASE o.t = "dict"
  <2>1. ~IsDictList(o) BY <1>2 DEF IsDictList
  <2>2. CASE panopticon
    <3>1. unmoved = OrElse(KeyedTable(o), DictFrame(o)) BY <1>2, <2>2 DEF Unmoved
    <3>2. /\ IsResult(KeyedTable(o)) /\ AllEven(KeyedTable(o))
          /\ KeyedTable(o).tag # "error" => IsKeyedTable(o)
          /\ KeyedTable(o).tag = "panic" => ~(PlainTable(o.key) /\ PlainTable(o.value))
      BY <1>2, KeyedTableIs
    <3>3. /\ IsResult(DictFrame(o))
          /\ DictFrame(o).tag = "panic" => IsDict(o) /\ ~PlainList(o.value)
          /\ (IsDict(o) => ValuesFit(o)) => AllEven(DictFrame(o))
      BY <1>2, DictFrameIs
    <3>4. IsDict(o) => ~IsKeyedTable(o) BY DEF IsDict, HasNames, IsKeyedTable
    <3>5. unmoved = IF KeyedTable(o).tag = "error" THEN DictFrame(o) ELSE KeyedTable(o) BY <3>1 DEF OrElse
    <3>. HIDE DEF unmoved
    <3>. QED BY <1>2, <2>1, <2>2, <3>2, <3>3, <3>4, <3>5 DEF NotRagged, unmoved
  <2>3. CASE ~panopticon
    <3>1. unmoved = GroupedTable(o, includeKeys) BY <1>2, <2>3 DEF Unmoved
    <3>. QED BY <1>2, <2>3, <3>1, GroupedTableIs DEF NotRagged
  <2>. QED BY <2>2, <2>3
<1>3. CASE o.t = "list"
  <2>1. CASE panopticon
    <3>1. unmoved = OrElse(DictList(o), ObjectFrame(o)) BY <1>3, <2>1 DEF Unmoved
    <3>2. unmoved = IF DictList(o).tag = "error" THEN ObjectFrame(o) ELSE DictList(o) BY <3>1 DEF OrElse
    <3>3. Shaped(o) /\ Plain(o) BY <1>3, Zenon DEF WellFormed, Plain
    <3>4. IsResult(ObjectFrame(o)) /\ ObjectFrame(o).tag # "panic" /\ AllEven(ObjectFrame(o)) BY <3>3, ObjectFrameIs
    <3>. HIDE DEF unmoved
    <3>. QED BY <1>3, <3>2, <3>4, DictListIs DEF unmoved
  <2>2. CASE ~panopticon
    <3>1. unmoved = Failed BY <1>3, <2>2 DEF Unmoved
    <3>. QED BY <2>2, <3>1, FailedIs DEF AllEven
  <2>. QED BY <2>1, <2>2
<1>4. CASE o.t \notin {"table", "dict", "list"}
  <2>1. ~IsDictList(o) BY <1>4 DEF IsDictList
  <2>2. CASE panopticon /\ o.t \in {"atom", "chars", "vec"}
    <3>1. unmoved = ObjectFrame(o) BY <1>4, <2>2 DEF Unmoved
    <3>2. Shaped(o) /\ Plain(o) BY <2>2 DEF WellFormed, Plain
    <3>3. IsResult(ObjectFrame(o)) /\ ObjectFrame(o).tag # "panic" /\ AllEven(ObjectFrame(o)) BY <3>2, ObjectFrameIs
    <3>. QED BY <2>1, <3>1, <3>3
  <2>3. CASE ~(panopticon /\ o.t \in {"atom", "chars", "vec"})
    <3>1. unmoved = Failed BY <1>4, <2>3 DEF Unmoved
    <3>. QED BY <2>1, <3>1, FailedIs DEF AllEven
  <2>. QED BY <2>2, <2>3
<1>. QED BY <1>1, <1>2, <1>3, <1>4

LEMMA RearrangedShows ==
  ASSUME NEW new, NEW old, Rearranged(new, old), NEW rows, IsRowsFrame(old, rows)
  PROVE  NamesOf(new) = AllNames(rows) /\ \A c \in DOMAIN new : ShowsRows(new[c], rows)
<1>1. NamesOf(new) = NamesOf(old)
  <2>1. ASSUME NEW c \in DOMAIN new PROVE new[c].name \in NamesOf(old) BY DEF NamesOf, Rearranged
  <2>2. ASSUME NEW d \in DOMAIN old PROVE old[d].name \in NamesOf(new) BY DEF NamesOf, Rearranged
  <2>. QED BY <2>1, <2>2 DEF NamesOf
<1>2. ASSUME NEW c \in DOMAIN new PROVE ShowsRows(new[c], rows)
  <2>1. PICK d \in DOMAIN old : new[c] = old[d] BY DEF Rearranged
  <2>. QED BY <2>1 DEF IsRowsFrame
<1>. QED BY <1>1, <1>2 DEF IsRowsFrame

(* What is parsed of any answer: only values that are nested in columns make  *)
(* the parser panic, only an answer that is ragged a frame that is, and rows  *)
(* as dictionaries make one frame that shows every one of them.              *)
LEMMA ParseIs ==
  ASSUME NEW o, WellFormed(o), NEW panopticon, NEW includeKeys, NEW time,
         NEW result, result = Parse(o, panopticon, includeKeys, time)
  PROVE  /\ result.tag = "panic" =>
              \/ o.t = "table" /\ ~PlainTable(o)
              \/ o.t = "dict" /\ IF IsKeyedTable(o) THEN ~(PlainTable(o.key) /\ PlainTable(o.value)) ELSE ~PlainList(o.value)
         /\ \E n \in Nat : DOMAIN result.frames = 1..n
         /\ \A i \in DOMAIN result.frames :
              (\E n \in Nat : DOMAIN result.frames[i] = 1..n) /\ Measured(result.frames[i])
         /\ NotRagged(o, panopticon, includeKeys) => AllEven(result)
         /\ panopticon /\ IsDictList(o) /\ result.tag = "frames" =>
              /\ NamesOf(result.frames[1]) = AllNames(o.items)
              /\ \A c \in DOMAIN result.frames[1] : ShowsRows(result.frames[1][c], o.items)
<1>. DEFINE unmoved == Unmoved(o, panopticon, includeKeys)
<1>1. result = MoveTime(unmoved, time) BY Zenon DEF Parse, Unmoved
<1>. HIDE DEF unmoved
<1>2. /\ IsResult(unmoved)
      /\ unmoved.tag = "panic" =>
           \/ o.t = "table" /\ ~PlainTable(o)
           \/ o.t = "dict" /\ IF IsKeyedTable(o) THEN ~(PlainTable(o.key) /\ PlainTable(o.value)) ELSE ~PlainList(o.value)
      /\ NotRagged(o, panopticon, includeKeys) => AllEven(unmoved)
      /\ panopticon /\ IsDictList(o) => DOMAIN unmoved.frames = {1} /\ IsRowsFrame(unmoved.frames[1], o.items)
  BY UnmovedIs DEF unmoved
<1>3. /\ result.tag \in {unmoved.tag, "error"}
      /\ DOMAIN result.frames \subseteq DOMAIN unmoved.frames
      /\ result.tag = "frames" => DOMAIN result.frames = DOMAIN unmoved.frames
      /\ \A i \in DOMAIN result.frames : Rearranged(result.frames[i], unmoved.frames[i])
  BY <1>1, <1>2, MoveTimeRearranges
<1>4. AllEven(unmoved) => AllEven(result)
  <2>. SUFFICES ASSUME AllEven(unmoved), NEW i \in DOMAIN result.frames PROVE Even(result.frames[i]) BY DEF AllEven
  <2>1. Even(unmoved.frames[i]) BY <1>3 DEF AllEven
  <2>. QED BY <1>3, <2>1, RearrangedIsEven
<1>5. ASSUME panopticon, IsDictList(o), result.tag = "frames"
      PROVE  /\ NamesOf(result.frames[1]) = AllNames(o.items)
             /\ \A c \in DOMAIN result.frames[1] : ShowsRows(result.frames[1][c], o.items)
  <2>1. Rearranged(result.frames[1], unmoved.frames[1]) /\ IsRowsFrame(unmoved.frames[1], o.items)
    BY <1>2, <1>3, <1>5
  <2>. QED BY <2>1, RearrangedShows
<1>6. ASSUME NEW i \in DOMAIN result.frames
      PROVE  (\E n \in Nat : DOMAIN result.frames[i] = 1..n) /\ Measured(result.frames[i])
  <2>1. IsFrame(unmoved.frames[i]) /\ Measured(unmoved.frames[i]) BY <1>2, <1>3 DEF IsResult
  <2>2. Rearranged(result.frames[i], unmoved.frames[i]) BY <1>3
  <2>3. \E n \in Nat : DOMAIN result.frames[i] = 1..n BY <2>1, <2>2 DEF Rearranged, IsFrame, IsFrameOf
  <2>4. Measured(result.frames[i]) BY <2>1, <2>2 DEF Rearranged, Measured
  <2>. QED BY <2>3, <2>4
<1>7. \E n \in Nat : DOMAIN result.frames = 1..n BY <1>1, <1>2, MoveTimeRearranges DEF IsResult
<1>. QED BY <1>2, <1>3, <1>4, <1>5, <1>6, <1>7
===============================================================================
