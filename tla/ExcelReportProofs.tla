---------------------------- MODULE ExcelReportProofs ----------------------------
(***************************************************************************)
(* The generation of workbooks keeps to the protocol of the one-time links:  *)
(* whatever the settings, the answers of kdb+ and the workbooks are, each    *)
(* step of it is a step of ExcelDownloads or changes nothing of its state.   *)
(* What is proved of the links then holds of the reports.  An invariant of    *)
(* the generation itself says, of each stage, what its bindings, its workbook *)
(* and the reason of its failure are; one of the frames, that they are whole *)
(* in every workbook that fits the bindings written to it so far.            *)
(***************************************************************************)
EXTENDS ExcelReport, ExcelDownloadsProofs, KdbFramesProofs

LEMMA FailIsLinkStep ==
  ASSUME NEW g \in Links, NEW why, Fail(g, why)
  PROVE  DNext
BY DEF Fail, DNext, LinkStep

LEMMA StayStutters == Stay => UNCHANGED dvars
BY DEF Stay, dvars

LEMMA PrepareStep == ASSUME NEW g \in Links, Prepare(g) PROVE [DNext]_dvars
<1>1. (\E why : Fail(g, why)) \/ Stay BY DEF Prepare
<1>. QED BY <1>1, FailIsLinkStep, StayStutters

LEMMA CollectStep == ASSUME NEW g \in Links, NEW shapes, Collect(g, shapes) PROVE [DNext]_dvars
<1>1. (\E why : Fail(g, why)) \/ Stay BY DEF Collect
<1>. QED BY <1>1, FailIsLinkStep, StayStutters

LEMMA QueryBindingStep == ASSUME NEW g \in Links, QueryBinding(g) PROVE [DNext]_dvars
<1>1. ASSUME RunBinding(g) PROVE [DNext]_dvars
  <2>1. (\E why : Fail(g, why)) \/ (\E shapes : Collect(g, shapes)) BY <1>1 DEF RunBinding
  <2>. QED BY <2>1, FailIsLinkStep, CollectStep
<1>2. ASSUME BuildSubmitted(g) PROVE [DNext]_dvars
  <2>1. (\E why : Fail(g, why)) \/ (\E shapes : Collect(g, shapes)) BY <1>2 DEF BuildSubmitted
  <2>. QED BY <2>1, FailIsLinkStep, CollectStep
<1>3. Fail(g, "ended") \/ RunBinding(g) \/ BuildSubmitted(g) BY DEF QueryBinding
<1>. QED BY <1>1, <1>2, <1>3, FailIsLinkStep

LEMMA OpenWorkbookStep == ASSUME NEW g \in Links, OpenWorkbook(g) PROVE [DNext]_dvars
<1>1. Fail(g, "template") \/ Stay BY DEF OpenWorkbook
<1>. QED BY <1>1, FailIsLinkStep, StayStutters

LEMMA WriteBindingStep == ASSUME NEW g \in Links, WriteBinding(g) PROVE [DNext]_dvars
<1>1. ASSUME NEW b, NEW cells, WriteFrames(g, b, cells) PROVE [DNext]_dvars
  <2>1. (\E why : Fail(g, why)) \/ (\E bk : Written(g, bk)) BY <1>1 DEF WriteFrames
  <2>2. (\E bk : Written(g, bk)) => Stay BY DEF Written
  <2>. QED BY <2>1, <2>2, FailIsLinkStep, StayStutters
<1>2. \/ Fail(g, "ended")
      \/ Written(g, book[g])
      \/ \E b, cells : WriteFrames(g, b, cells)
  BY DEF WriteBinding
<1>3. Written(g, book[g]) => Stay BY DEF Written
<1>. QED BY <1>1, <1>2, <1>3, FailIsLinkStep, StayStutters

LEMMA SaveStep == ASSUME NEW g \in Links, Save(g) PROVE [DNext]_dvars
<1>1. Fail(g, "size") \/ Generated(g) BY DEF Save
<1>2. Generated(g) => DNext BY DEF DNext, LinkStep
<1>. QED BY <1>1, <1>2, FailIsLinkStep

LEMMA NextIsDNext == ASSUME [Next]_vars PROVE [DNext]_dvars
<1>1. ASSUME NEW g \in Links, GenerateStep(g) PROVE [DNext]_dvars
  <2>1. ASSUME Receive(g) PROVE DNext BY <2>1 DEF Receive, DNext, LinkStep
  <2>2. ASSUME ContextEnds(g) PROVE UNCHANGED dvars BY <2>2, StayStutters DEF ContextEnds
  <2>. QED BY <1>1, <2>1, <2>2, PrepareStep, QueryBindingStep, OpenWorkbookStep, WriteBindingStep, SaveStep
    DEF GenerateStep
<1>2. ASSUME StoreStep \/ TakeStep \/ WorldStep PROVE DNext BY <1>2 DEF DNext
<1>3. ASSUME UNCHANGED vars PROVE UNCHANGED dvars BY <1>3 DEF vars
<1>. QED BY <1>1, <1>2, <1>3 DEF Next

(* The generation of reports implements the protocol of the links. *)
THEOREM ReportsImplementDownloads == Spec => DSpec
<1>1. Init => DInit BY DEF Init
<1>. QED BY <1>1, NextIsDNext, PTL DEF Spec, DSpec

(* A workbook is handed out once, for the token made for it, by whatever     *)
(* way it was generated.                                                     *)
THEOREM ReportServedOnce == Spec => []ServedOnce
BY ReportsImplementDownloads, EachServedOnce, PTL

(* report/download serves what is due and nothing else, while reports are    *)
(* being generated.                                                          *)
THEOREM ReportTakesExact == Spec => TakesAreExact
BY ReportsImplementDownloads, EveryTakeExact, PTL DEF TakesAreExact

-----------------------------------------------------------------------------
(* The cells of a binding: where each of its frames is, and what is there. *)

(* What the writer goes by, for one binding. *)
Shapes == Seq([width : Nat, rows : Nat])

LEMMA LinesAre ==
  ASSUME NEW binding, NEW shapes \in Shapes, NEW n \in DOMAIN shapes
  PROVE  /\ n \in 1..Len(shapes) /\ Len(shapes) \in Nat
         /\ shapes[n].width \in Nat /\ shapes[n].rows \in Nat /\ Lines(binding, shapes[n]) \in Nat
<1>. DEFINE S == [width : Nat, rows : Nat]
<1>1. n \in 1..Len(shapes) /\ Len(shapes) \in Nat /\ shapes[n] \in S
  <2>1. shapes \in Seq(S) BY DEF Shapes
  <2>. HIDE DEF S
  <2>. QED BY <2>1
<1>2. shapes[n].width \in Nat /\ shapes[n].rows \in Nat BY <1>1
<1>3. Lines(binding, shapes[n]) = shapes[n].rows \/ Lines(binding, shapes[n]) = shapes[n].rows + 1 BY <1>2 DEF Lines
<1>. QED BY <1>1, <1>2, <1>3

(* Cursor, as a list of rows: the next frame is below the one before. *)
Moves(after, binding, shapes) ==
  /\ after[0] = binding.row
  /\ \A n \in 1..Len(shapes) :
       after[n] = IF shapes[n].width = 0 THEN after[n - 1]
                  ELSE after[n - 1] + (IF n > 1 THEN 1 ELSE 0) + Lines(binding, shapes[n])
  /\ \A n \in 0..Len(shapes) : after[n] \in Nat

LEMMA CursorMoves ==
  ASSUME NEW binding, binding.row \in Nat, NEW shapes \in Shapes
  PROVE  Moves(Cursor(binding, shapes), binding, shapes)
<1>. DEFINE N == Len(shapes)
            Past(row, n) == IF shapes[n].width = 0 THEN row
                            ELSE row + (IF n > 1 THEN 1 ELSE 0) + Lines(binding, shapes[n])
            Fits(f) == f = [n \in 0..N |-> IF n = 0 THEN binding.row
                                          ELSE IF shapes[n].width = 0 THEN f[n - 1]
                                          ELSE f[n - 1] + (IF n > 1 THEN 1 ELSE 0) + Lines(binding, shapes[n])]
            after == CHOOSE f : Fits(f)
            step == [row \in Nat |-> [n \in 1..N |-> Past(row, n)]]
<1>1. N \in Nat /\ DOMAIN shapes = 1..N BY DEF Shapes
<1>2. Cursor(binding, shapes) = after BY DEF Cursor
<1>3. \A row \in Nat, n \in 1..N : Past(row, n) \in Nat
  <2>. SUFFICES ASSUME NEW row \in Nat, NEW n \in 1..N PROVE Past(row, n) \in Nat OBVIOUS
  <2>1. Lines(binding, shapes[n]) \in Nat BY <1>1, LinesAre
  <2>. QED BY <2>1
<1>4. \E f : Fits(f)
  <2>1. step \in [Nat -> [1..N -> Nat]]
    <3>. HIDE DEF Past, N
    <3>. QED BY <1>3
  <2>2. \A row \in Nat, n \in 1..N : step[row][n] = Past(row, n)
    <3>. HIDE DEF Past, N
    <3>. QED OBVIOUS
  <2>. HIDE DEF step, Past, N
  <2>3. PICK g \in [0..N -> Nat] : Recursive(g, N, binding.row, step) BY <1>1, <2>1, Recursion
  <2>4. ASSUME NEW n \in 0..N PROVE g[n] = IF n = 0 THEN binding.row ELSE Past(g[n - 1], n)
    <3>1. g[n] = IF n = 0 THEN binding.row ELSE step[g[n - 1]][n] BY <2>3 DEF Recursive
    <3>2. n # 0 => n \in 1..N /\ n - 1 \in 0..N BY <1>1
    <3>3. n # 0 => g[n - 1] \in Nat BY <3>2
    <3>. QED BY <2>2, <3>1, <3>2, <3>3
  <2>5. g = [n \in 0..N |-> IF n = 0 THEN binding.row ELSE Past(g[n - 1], n)] BY <2>4
  <2>. QED BY <2>5 DEF Past
<1>5. Fits(after)
  <2>. HIDE DEF Fits
  <2>. QED BY <1>4
<1>. HIDE DEF after, N
<1>6. /\ after[0] = binding.row
      /\ \A n \in 1..N : after[n] = Past(after[n - 1], n)
  <2>1. 0 \in 0..N /\ \A n \in 1..N : n \in 0..N /\ n # 0 BY <1>1
  <2>. QED BY <1>5, <2>1
<1>7. \A n \in 0..N : after[n] \in Nat
  <2>. DEFINE P == {n \in 0..N : after[n] \in Nat}
  <2>1. 0 \in P BY <1>1, <1>6
  <2>2. ASSUME NEW n \in 1..N, n - 1 \in P PROVE n \in P
    <3>1. after[n - 1] \in Nat BY <2>2
    <3>2. Past(after[n - 1], n) \in Nat
      <4>. HIDE DEF Past
      <4>. QED BY <1>3, <3>1
    <3>. HIDE DEF Past
    <3>. QED BY <1>1, <1>6, <3>2
  <2>3. \A n \in 1..N : n - 1 \in P => n \in P BY <2>2
  <2>. HIDE DEF P
  <2>4. \A n \in 0..N : n \in P BY <1>1, <2>1, <2>3, Induction
  <2>. QED BY <2>4 DEF P
<1>. QED BY <1>2, <1>6, <1>7 DEF Moves, N

LEMMA CursorDescends ==
  ASSUME NEW binding, NEW shapes \in Shapes, NEW after, Moves(after, binding, shapes),
         NEW n \in 0..Len(shapes), NEW m \in 0..Len(shapes), n =< m
  PROVE  after[n] =< after[m]
<1>. DEFINE N == Len(shapes)
            P == {k \in 0..N : n =< k => after[n] =< after[k]}
<1>1. N \in Nat /\ \A k \in 0..N : after[k] \in Nat BY DEF Shapes, Moves
<1>2. 0 \in P BY <1>1
<1>3. ASSUME NEW k \in 1..N, k - 1 \in P PROVE k \in P
  <2>1. k \in 0..N /\ k - 1 \in 0..N BY <1>1
  <2>2. after[k - 1] =< after[k]
    <3>1. k \in DOMAIN shapes BY DEF Shapes
    <3>2. Lines(binding, shapes[k]) \in Nat BY <3>1, LinesAre
    <3>. QED BY <1>1, <2>1, <3>2 DEF Moves
  <2>3. n =< k - 1 => after[n] =< after[k - 1] BY <1>3
  <2>4. n = k \/ n =< k - 1 \/ ~(n =< k) BY <1>1, <2>1
  <2>. HIDE DEF N
  <2>. QED BY <1>1, <2>1, <2>2, <2>3, <2>4
<1>4. \A k \in 1..N : k - 1 \in P => k \in P BY <1>3
<1>. HIDE DEF P
<1>5. \A k \in 0..N : k \in P BY <1>1, <1>2, <1>4, Induction
<1>. QED BY <1>5 DEF P

(* A frame ends above the row that is left free before the next. *)
LEMMA FramesBelow ==
  ASSUME NEW binding, binding.row \in Nat, NEW shapes \in Shapes,
         NEW n \in DOMAIN shapes, shapes[n].width > 0
  PROVE  /\ Top(binding, shapes, n) \in Nat
         /\ n = 1 => Top(binding, shapes, n) = binding.row
         /\ \A m \in DOMAIN shapes :
              n < m /\ shapes[m].width > 0 =>
                Top(binding, shapes, n) + Lines(binding, shapes[n]) < Top(binding, shapes, m)
<1>. DEFINE N == Len(shapes)
            after == Cursor(binding, shapes)
<1>1. N \in Nat /\ DOMAIN shapes = 1..N BY DEF Shapes
<1>2. Moves(after, binding, shapes) BY CursorMoves
<1>3. \A m \in DOMAIN shapes : Top(binding, shapes, m) = after[m - 1] + (IF m > 1 THEN 1 ELSE 0) BY DEF Top
<1>. HIDE DEF after, N
<1>4. n - 1 \in 0..N /\ after[n - 1] \in Nat /\ after[n] \in Nat
  <2>1. n - 1 \in 0..N /\ n \in 0..N BY <1>1
  <2>. QED BY <1>2, <2>1 DEF Moves, N
<1>5. after[n] = Top(binding, shapes, n) + Lines(binding, shapes[n])
  <2>1. shapes[n].width # 0 /\ Lines(binding, shapes[n]) \in Nat BY LinesAre
  <2>2. n \in 1..Len(shapes) BY <1>1 DEF N
  <2>3. after[n] = after[n - 1] + (IF n > 1 THEN 1 ELSE 0) + Lines(binding, shapes[n]) BY <1>2, <2>1, <2>2 DEF Moves
  <2>. QED BY <1>3, <1>4, <2>1, <2>3
<1>6. ASSUME NEW m \in DOMAIN shapes, n < m PROVE after[n] < Top(binding, shapes, m)
  <2>1. n \in 0..N /\ m - 1 \in 0..N /\ n =< m - 1 /\ m > 1 BY <1>1, <1>6
  <2>2. after[n] =< after[m - 1] BY <1>2, <2>1, CursorDescends DEF N
  <2>3. after[m - 1] \in Nat BY <1>2, <2>1 DEF Moves, N
  <2>. QED BY <1>3, <1>4, <2>1, <2>2, <2>3
<1>. QED BY <1>1, <1>2, <1>3, <1>4, <1>5, <1>6 DEF Moves

(* A frame's place on a sheet, and what its cells show. *)
Place(binding, shapes, n) ==
  {binding.sheet.key} \X (Top(binding, shapes, n)..(Top(binding, shapes, n) + Lines(binding, shapes[n]) - 1))
                      \X (binding.col..(binding.col + shapes[n].width - 1))

FirstLine(binding) == IF binding.header THEN 0 ELSE 1

Shown(binding, b, shapes, n, p) ==
  <<b, n, p[2] - Top(binding, shapes, n) + FirstLine(binding), p[3] - binding.col + 1>>

LEMMA FrameCellsAre ==
  ASSUME NEW binding, NEW b, NEW shapes, NEW n
  PROVE  /\ DOMAIN FrameCells(binding, b, shapes, n) = Place(binding, shapes, n)
         /\ \A p \in Place(binding, shapes, n) : FrameCells(binding, b, shapes, n)[p] = Shown(binding, b, shapes, n, p)
<1>1. FrameCells(binding, b, shapes, n) = [p \in Place(binding, shapes, n) |-> Shown(binding, b, shapes, n, p)]
  BY DEF FrameCells, Place, Shown, FirstLine
<1>. QED BY <1>1, Zenon

(* The frames with fields. *)
Filled(shapes) == {n \in DOMAIN shapes : shapes[n].width > 0}

LEMMA PlaceIs ==
  ASSUME NEW binding, NEW shapes, NEW n, NEW p \in Place(binding, shapes, n)
  PROVE  /\ p[1] = binding.sheet.key
         /\ p[2] \in Top(binding, shapes, n)..(Top(binding, shapes, n) + Lines(binding, shapes[n]) - 1)
         /\ p[3] \in binding.col..(binding.col + shapes[n].width - 1)
         /\ p = <<binding.sheet.key, p[2], p[3]>>
BY DEF Place

LEMMA PlacesApart ==
  ASSUME NEW binding, binding.row \in Nat, NEW shapes \in Shapes,
         NEW n \in Filled(shapes), NEW m \in Filled(shapes), NEW p,
         p \in Place(binding, shapes, n), p \in Place(binding, shapes, m)
  PROVE  n = m
<1>1. n \in Nat /\ m \in Nat BY DEF Filled, Shapes
<1>2. ASSUME NEW x \in Filled(shapes), NEW y \in Filled(shapes), x < y,
             p \in Place(binding, shapes, x), p \in Place(binding, shapes, y)
      PROVE  FALSE
  <2>1. p[2] =< Top(binding, shapes, x) + Lines(binding, shapes[x]) - 1 /\ p[2] \in Int
    <3>1. Top(binding, shapes, x) \in Nat /\ Lines(binding, shapes[x]) \in Nat BY LinesAre, FramesBelow DEF Filled
    <3>. QED BY <1>2, <3>1, PlaceIs
  <2>2. Top(binding, shapes, y) =< p[2] /\ Top(binding, shapes, y) \in Nat
    <3>1. Top(binding, shapes, y) \in Nat /\ Lines(binding, shapes[y]) \in Nat BY LinesAre, FramesBelow DEF Filled
    <3>. QED BY <1>2, <3>1, PlaceIs
  <2>3. Top(binding, shapes, x) + Lines(binding, shapes[x]) < Top(binding, shapes, y) BY <1>2, FramesBelow DEF Filled
  <2>4. Top(binding, shapes, x) \in Nat /\ Lines(binding, shapes[x]) \in Nat BY LinesAre, FramesBelow DEF Filled
  <2>. QED BY <2>1, <2>2, <2>3, <2>4
<1>. QED BY <1>1, <1>2

(* Together they are the cells of a binding: each frame's is its own. *)
LEMMA BindingCellsAre ==
  ASSUME NEW binding, binding.row \in Nat, NEW b, NEW shapes \in Shapes
  PROVE  /\ \A p \in DOMAIN BindingCells(binding, b, shapes) : \E n \in Filled(shapes) : p \in Place(binding, shapes, n)
         /\ \A n \in Filled(shapes) : \A p \in Place(binding, shapes, n) :
              /\ p \in DOMAIN BindingCells(binding, b, shapes)
              /\ BindingCells(binding, b, shapes)[p] = Shown(binding, b, shapes, n, p)
<1>. DEFINE Cells(n) == FrameCells(binding, b, shapes, n)
            written == Filled(shapes)
            On(p) == {n \in written : p \in DOMAIN Cells(n)}
            places == UNION {DOMAIN Cells(n) : n \in written}
            all == BindingCells(binding, b, shapes)
<1>1. all = [p \in places |-> Cells(Max(On(p)))[p]] BY Zenon DEF BindingCells, Filled
<1>2. \A n : /\ DOMAIN Cells(n) = Place(binding, shapes, n)
             /\ \A p \in Place(binding, shapes, n) : Cells(n)[p] = Shown(binding, b, shapes, n, p)
  BY FrameCellsAre
<1>. HIDE DEF Cells, written, all
<1>3. DOMAIN all = places /\ \A p \in places : all[p] = Cells(Max(On(p)))[p]
  <2>. HIDE DEF On, places
  <2>. QED BY <1>1, Zenon
<1>4. ASSUME NEW n \in written, NEW p \in Place(binding, shapes, n)
      PROVE  p \in places /\ all[p] = Shown(binding, b, shapes, n, p)
  <2>1. p \in places BY <1>2, <1>4
  <2>2. On(p) = {n}
    <3>1. n \in On(p) BY <1>2, <1>4
    <3>2. \A m \in On(p) : m \in written /\ p \in Place(binding, shapes, m) BY <1>2
    <3>3. \A m \in On(p) : m = n BY <1>4, <3>2, PlacesApart DEF written
    <3>. QED BY <3>1, <3>3
  <2>3. n \in Nat BY DEF written, Filled, Shapes
  <2>4. Max({n}) = n BY <2>3 DEF Max
  <2>. HIDE DEF On, places
  <2>. QED BY <1>2, <1>3, <1>4, <2>1, <2>2, <2>4
<1>5. ASSUME NEW p \in places PROVE \E n \in written : p \in Place(binding, shapes, n) BY <1>2
<1>. QED BY <1>3, <1>4, <1>5 DEF written, all

LEMMA PlaceSize ==
  ASSUME NEW binding, binding.row \in Nat, binding.col \in Nat, NEW shapes \in Shapes, NEW n \in Filled(shapes)
  PROVE  Cardinality(Place(binding, shapes, n)) = shapes[n].width * Lines(binding, shapes[n])
<1>. DEFINE top == Top(binding, shapes, n)
            lines == Lines(binding, shapes[n])
            width == shapes[n].width
            Span == top..(top + lines - 1)
            Cols == binding.col..(binding.col + width - 1)
            place == Place(binding, shapes, n)
            f == [q \in Span \X Cols |-> <<binding.sheet.key, q[1], q[2]>>]
<1>1. top \in Nat /\ lines \in Nat /\ width \in Nat BY LinesAre, FramesBelow DEF Filled
<1>2. place = {binding.sheet.key} \X Span \X Cols BY DEF Place
<1>. HIDE DEF top, lines, width
<1>3. IsFiniteSet(Span) /\ Cardinality(Span) = lines
  <2>1. top \in Int /\ top + lines - 1 \in Int BY <1>1
  <2>2. IsFiniteSet(Span) /\ Cardinality(Span) = IF top > top + lines - 1 THEN 0 ELSE (top + lines - 1) - top + 1
    BY <2>1, FS_Interval
  <2>. HIDE DEF Span
  <2>. QED BY <1>1, <2>2
<1>4. IsFiniteSet(Cols) /\ Cardinality(Cols) = width
  <2>1. binding.col \in Int /\ binding.col + width - 1 \in Int BY <1>1
  <2>2. /\ IsFiniteSet(Cols)
        /\ Cardinality(Cols) = IF binding.col > binding.col + width - 1 THEN 0
                               ELSE (binding.col + width - 1) - binding.col + 1
    BY <2>1, FS_Interval
  <2>. HIDE DEF Cols
  <2>. QED BY <1>1, <2>2
<1>. HIDE DEF Span, Cols, place
<1>5. IsFiniteSet(Span \X Cols) /\ Cardinality(Span \X Cols) = lines * width BY <1>3, <1>4, FS_Product
<1>6. f \in Bijection(Span \X Cols, place)
  <2>1. f \in [Span \X Cols -> place] BY <1>2
  <2>2. ASSUME NEW q \in Span \X Cols, NEW r \in Span \X Cols, f[q] = f[r] PROVE q = r
    <3>1. q = <<q[1], q[2]>> /\ r = <<r[1], r[2]>> OBVIOUS
    <3>2. q[1] = r[1] /\ q[2] = r[2] BY <2>2
    <3>. QED BY <3>1, <3>2
  <2>3. ASSUME NEW p \in place PROVE \E q \in Span \X Cols : f[q] = p
    <3>1. p = <<binding.sheet.key, p[2], p[3]>> /\ p[2] \in Span /\ p[3] \in Cols BY <1>2
    <3>2. <<p[2], p[3]>> \in Span \X Cols BY <3>1
    <3>3. f[<<p[2], p[3]>>] = <<binding.sheet.key, p[2], p[3]>> BY <3>2
    <3>. QED BY <3>1, <3>2, <3>3
  <2>. HIDE DEF f
  <2>4. f \in Injection(Span \X Cols, place) BY <2>1, <2>2 DEF Injection, IsInjective
  <2>5. f \in Surjection(Span \X Cols, place) BY <2>1, <2>3 DEF Surjection
  <2>. QED BY <2>4, <2>5 DEF Bijection
<1>. HIDE DEF f
<1>7. ExistsBijection(Span \X Cols, place) BY <1>6 DEF ExistsBijection
<1>8. Cardinality(place) = Cardinality(Span \X Cols) BY <1>5, <1>7, FS_Bijection
<1>9. lines * width = width * lines BY <1>1
<1>. QED BY <1>5, <1>8, <1>9 DEF place, lines, width

(* A sheet shows the cells of binding i, and nothing else of it. *)
Shows(sheet, i, cells) ==
  /\ \A p \in DOMAIN sheet : sheet[p][1] = i => p \in DOMAIN cells /\ sheet[p] = cells[p]
  /\ \A p \in DOMAIN cells : p \in DOMAIN sheet /\ sheet[p] = cells[p]

LEMMA ShownFrame ==
  ASSUME NEW binding, binding.row \in Nat, binding.col \in Nat, NEW i, NEW shapes \in Shapes, NEW sheet,
         Shows(sheet, i, BindingCells(binding, i, shapes)), NEW n \in Filled(shapes)
  PROVE  /\ {p \in DOMAIN sheet : sheet[p][1] = i /\ sheet[p][2] = n} = Place(binding, shapes, n)
         /\ \A p \in Place(binding, shapes, n) : p \in DOMAIN sheet /\ sheet[p] = Shown(binding, i, shapes, n, p)
<1>. DEFINE cells == BindingCells(binding, i, shapes)
            this == {p \in DOMAIN sheet : sheet[p][1] = i /\ sheet[p][2] = n}
<1>1. /\ \A p \in DOMAIN cells : \E m \in Filled(shapes) : p \in Place(binding, shapes, m)
      /\ \A m \in Filled(shapes) : \A p \in Place(binding, shapes, m) :
           p \in DOMAIN cells /\ cells[p] = Shown(binding, i, shapes, m, p)
  BY BindingCellsAre
<1>. HIDE DEF cells
<1>2. /\ \A p \in DOMAIN sheet : sheet[p][1] = i => p \in DOMAIN cells /\ sheet[p] = cells[p]
      /\ \A p \in DOMAIN cells : p \in DOMAIN sheet /\ sheet[p] = cells[p]
  BY DEF Shows, cells
<1>3. \A m, p : Shown(binding, i, shapes, m, p)[1] = i /\ Shown(binding, i, shapes, m, p)[2] = m BY DEF Shown
<1>4. ASSUME NEW p \in this PROVE p \in Place(binding, shapes, n)
  <2>1. p \in DOMAIN cells /\ sheet[p] = cells[p] /\ sheet[p][2] = n BY <1>2
  <2>2. PICK m \in Filled(shapes) : p \in Place(binding, shapes, m) BY <1>1, <2>1
  <2>3. cells[p] = Shown(binding, i, shapes, m, p) BY <1>1, <2>2
  <2>4. m = n BY <1>3, <2>1, <2>3
  <2>. QED BY <2>2, <2>4
<1>5. ASSUME NEW p \in Place(binding, shapes, n)
      PROVE  p \in DOMAIN sheet /\ sheet[p] = Shown(binding, i, shapes, n, p) /\ p \in this
  <2>1. p \in DOMAIN sheet /\ sheet[p] = Shown(binding, i, shapes, n, p) BY <1>1, <1>2, <1>5
  <2>. QED BY <1>3, <2>1
<1>. QED BY <1>4, <1>5

(* The first line of a frame is found at its top, in the first column. *)
TopsOn(sheet, i, n, first) == {p[2] : p \in {q \in DOMAIN sheet : sheet[q] = <<i, n, first, 1>>}}

LEMMA ShownTop ==
  ASSUME NEW binding, binding.row \in Nat, binding.col \in Nat, NEW i, NEW shapes \in Shapes, NEW sheet,
         Shows(sheet, i, BindingCells(binding, i, shapes)),
         NEW n \in Filled(shapes), Lines(binding, shapes[n]) > 0
  PROVE  TopsOn(sheet, i, n, FirstLine(binding)) = {Top(binding, shapes, n)}
<1>. DEFINE top == Top(binding, shapes, n)
            place == Place(binding, shapes, n)
            first == FirstLine(binding)
            found == {q \in DOMAIN sheet : sheet[q] = <<i, n, first, 1>>}
            corner == <<binding.sheet.key, top, binding.col>>
<1>1. top \in Nat /\ Lines(binding, shapes[n]) \in Nat /\ shapes[n].width \in Nat /\ shapes[n].width > 0
  BY LinesAre, FramesBelow DEF Filled
<1>2. /\ {p \in DOMAIN sheet : sheet[p][1] = i /\ sheet[p][2] = n} = place
      /\ \A p \in place : p \in DOMAIN sheet /\ sheet[p] = <<i, n, p[2] - top + first, p[3] - binding.col + 1>>
  BY ShownFrame DEF Shown
<1>3. first \in {0, 1} BY DEF FirstLine
<1>4. corner \in place
  <2>1. top \in top..(top + Lines(binding, shapes[n]) - 1) BY <1>1
  <2>2. binding.col \in binding.col..(binding.col + shapes[n].width - 1) BY <1>1
  <2>. QED BY <2>1, <2>2 DEF Place
<1>5. \A p \in place : p[2] \in Int
  <2>. SUFFICES ASSUME NEW p \in place PROVE p[2] \in Int OBVIOUS
  <2>1. p[2] \in top..(top + Lines(binding, shapes[n]) - 1) BY PlaceIs
  <2>. QED BY <2>1
<1>. HIDE DEF top, place, first
<1>6. corner \in found
  <2>1. corner[2] - top + first = first /\ corner[3] - binding.col + 1 = 1 BY <1>1, <1>3
  <2>2. corner \in DOMAIN sheet /\ sheet[corner] = <<i, n, corner[2] - top + first, corner[3] - binding.col + 1>>
    <3>. HIDE DEF corner
    <3>. QED BY <1>2, <1>4
  <2>. QED BY <2>1, <2>2
<1>7. ASSUME NEW q \in found PROVE q[2] = top
  <2>1. sheet[q][1] = i /\ sheet[q][2] = n /\ sheet[q][3] = first /\ q \in DOMAIN sheet OBVIOUS
  <2>2. q \in place BY <1>2, <2>1
  <2>3. sheet[q] = <<i, n, q[2] - top + first, q[3] - binding.col + 1>> BY <1>2, <2>2
  <2>4. q[2] - top + first = first /\ q[2] \in Int BY <1>5, <2>1, <2>2, <2>3
  <2>. QED BY <1>1, <1>3, <2>4
<1>8. corner[2] = top OBVIOUS
<1>. HIDE DEF found, corner
<1>9. {p[2] : p \in found} = {top} BY <1>6, <1>7, <1>8
<1>. QED BY <1>9 DEF found, first, top, TopsOn

-----------------------------------------------------------------------------
(* The sheets of a workbook *)

Streaming(j) == WriteMode(Report, Bindings[j]) = "stream"
StreamSheets == {Bindings[j].sheet : j \in {k \in DOMAIN Bindings : Streaming(k)}}
NormalSheets == {Bindings[j].sheet : j \in {k \in DOMAIN Bindings : ~Streaming(k)}}

(* A workbook has the sheets of bindings only, each written in their mode. *)
OfBindings(bk) == IsBook(bk) /\ Streamed(bk) \subseteq StreamSheets /\ bk.normal \subseteq NormalSheets

LEMMA SeqOfItself ==
  ASSUME NEW S, NEW s \in Seq(S)
  PROVE  s \in Seq(ToSet(s))
BY DEF ToSet

(* What is written over something else hides it. *)
LEMMA WrittenOver ==
  ASSUME NEW new, NEW old
  PROVE  /\ DOMAIN Over(new, old) = DOMAIN new \cup DOMAIN old
         /\ \A p \in DOMAIN new : Over(new, old)[p] = new[p]
         /\ \A p \in DOMAIN old \ DOMAIN new : Over(new, old)[p] = old[p]
BY DEF Over

LEMMA Restricted ==
  ASSUME NEW f, NEW S
  PROVE  DOMAIN Restrict(f, S) = S /\ \A p \in S : Restrict(f, S)[p] = f[p]
BY DEF Restrict

(* What streamWriter and setRow leave of a workbook: x is the writer, old    *)
(* and last its cells and its last row before.                               *)
StreamedOn(new, bk, sheet, cells, x, old, last) ==
  /\ new.cells = bk.cells
  /\ DOMAIN new.streams = DOMAIN bk.streams \cup {x}
  /\ new.streams[x].sheet = sheet /\ new.streams[x].cells = Over(cells, old)
  /\ new.streams[x].lastRow = Max(RowsOf(cells) \cup {last})
  /\ \A y \in DOMAIN bk.streams \ {x} : new.streams[y] = bk.streams[y]
  /\ IF sheet \in Streamed(bk)
     THEN /\ x = StreamOf(bk, sheet) /\ x \in DOMAIN bk.streams /\ bk.streams[x].sheet = sheet
          /\ old = bk.streams[x].cells /\ last = bk.streams[x].lastRow
     ELSE x \notin DOMAIN bk.streams /\ old = <<>> /\ last = 0

LEMMA StreamIsWritten ==
  ASSUME NEW bk, NEW binding, NEW cells, IsBook(bk)
  PROVE  \E x, old, last : StreamedOn(WriteStream(bk, binding, cells), bk, binding.sheet, cells, x, old, last)
<1>. DEFINE sheet == binding.sheet
            with == StreamWriter(bk, sheet)
            x == StreamOf(with, sheet)
            streams == with.streams
            old == streams[x].cells
            last == streams[x].lastRow
            row == Max(RowsOf(cells) \cup {last})
            all == Over(cells, old)
            w == [[streams[x] EXCEPT !.cells = all] EXCEPT !.lastRow = row]
            new == [streams EXCEPT ![x] = w]
            written == WriteStream(bk, binding, cells)
<1>1. /\ DOMAIN with = {"cells", "streams", "normal"} /\ with.cells = bk.cells
      /\ x \in DOMAIN streams /\ streams[x].sheet = sheet
      /\ DOMAIN streams[x] = {"sheet", "cells", "lastRow"}
      /\ DOMAIN streams = DOMAIN bk.streams \cup {x}
      /\ \A y \in DOMAIN bk.streams : streams[y] = bk.streams[y]
      /\ IF sheet \in Streamed(bk)
         THEN x = StreamOf(bk, sheet) /\ x \in DOMAIN bk.streams
         ELSE x \notin DOMAIN bk.streams /\ old = <<>> /\ last = 0
  <2>1. CASE sheet \in Streamed(bk)
    <3>1. with = bk BY <2>1 DEF StreamWriter
    <3>2. \E y \in DOMAIN bk.streams : bk.streams[y].sheet = sheet BY <2>1 DEF Streamed
    <3>3. x \in DOMAIN bk.streams /\ bk.streams[x].sheet = sheet BY <3>1, <3>2 DEF StreamOf
    <3>. HIDE DEF with, x
    <3>. QED BY <2>1, <3>1, <3>3 DEF IsBook, x
  <2>2. CASE sheet \notin Streamed(bk)
    <3>. DEFINE first == [sheet |-> sheet, cells |-> <<>>, lastRow |-> 0]
                before == bk.streams
                N == Len(before)
    <3>1. with = [bk EXCEPT !.streams = Append(before, first)] BY <2>2 DEF StreamWriter
    <3>2. /\ with.streams = Append(before, first) /\ with.cells = bk.cells
          /\ DOMAIN with = {"cells", "streams", "normal"}
      <4>. HIDE DEF with, first
      <4>. QED BY <3>1 DEF IsBook
    <3>3. first.sheet = sheet /\ first.cells = <<>> /\ first.lastRow = 0 /\ DOMAIN first = {"sheet", "cells", "lastRow"}
      OBVIOUS
    <3>4. before \in Seq(ToSet(before)) /\ N \in Nat /\ DOMAIN before = 1..N BY DEF IsBook
    <3>5. \A y \in DOMAIN before : before[y].sheet # sheet BY <2>2 DEF Streamed
    <3>. HIDE DEF first, before, with
    <3>6. /\ DOMAIN Append(before, first) = 1..(N + 1)
          /\ Append(before, first)[N + 1] = first
          /\ \A y \in DOMAIN before : Append(before, first)[y] = before[y]
      BY <3>4
    <3>. HIDE DEF N
    <3>7. \A y \in 1..(N + 1) : streams[y].sheet = sheet <=> y = N + 1
      <4>1. \A y \in 1..(N + 1) : y = N + 1 \/ y \in DOMAIN before BY <3>4
      <4>2. N + 1 \notin DOMAIN before BY <3>4
      <4>. QED BY <3>2, <3>3, <3>5, <3>6, <4>1, <4>2
    <3>8. x = N + 1
      <4>1. DOMAIN with.streams = 1..(N + 1) /\ N + 1 \in 1..(N + 1) BY <3>2, <3>4, <3>6
      <4>2. x = CHOOSE y \in 1..(N + 1) : streams[y].sheet = sheet BY <4>1 DEF StreamOf
      <4>3. \E y \in 1..(N + 1) : streams[y].sheet = sheet BY <3>7, <4>1
      <4>. HIDE DEF x
      <4>. QED BY <3>7, <4>2, <4>3
    <3>9. N + 1 \notin 1..N /\ 1..(N + 1) = 1..N \cup {N + 1} BY <3>4
    <3>. HIDE DEF x
    <3>. QED BY <2>2, <3>2, <3>3, <3>4, <3>6, <3>8, <3>9 DEF before
  <2>. QED BY <2>1, <2>2
<1>2. written.streams = new /\ written.cells = bk.cells BY <1>1 DEF WriteStream
<1>. HIDE DEF row, all
<1>3. w.sheet = sheet /\ w.cells = all /\ w.lastRow = row BY <1>1
<1>. HIDE DEF w, x
<1>4. /\ DOMAIN new = DOMAIN streams /\ new[x] = w
      /\ \A y \in DOMAIN bk.streams \ {x} : new[y] = bk.streams[y]
  <2>1. \A y \in DOMAIN bk.streams \ {x} : y \in DOMAIN streams BY <1>1
  <2>. HIDE DEF streams
  <2>. QED BY <1>1, <2>1
<1>. HIDE DEF new, streams, with, written
<1>5. sheet \in Streamed(bk) => bk.streams[x].sheet = sheet /\ old = bk.streams[x].cells /\ last = bk.streams[x].lastRow
  BY <1>1
<1>6. StreamedOn(written, bk, sheet, cells, x, old, last)
  <2>. HIDE DEF old, last
  <2>. QED BY <1>1, <1>2, <1>3, <1>4, <1>5 DEF StreamedOn, all, row
<1>. QED BY <1>6 DEF written

-----------------------------------------------------------------------------
CellsOf(r, i) == BindingCells(Bindings[i], i, r[i])

(* The cells of the first bindings, those before k, and no others. *)
FromBefore(cells, k) == \A p \in DOMAIN cells : cells[p][1] \in 0..(k - 1)

OneStreamPerSheet(bk) == \A x, y \in DOMAIN bk.streams : bk.streams[x].sheet = bk.streams[y].sheet => x = y

Ordered(stream) == stream.lastRow \in 0..SheetRows /\ RowsOf(stream.cells) \subseteq 0..stream.lastRow

HaveStreams(bk, r, k) == \A i \in 1..(k - 1) : Streaming(i) /\ r[i] # <<>> => Bindings[i].sheet \in Streamed(bk)

Drawn(bk, r, k) == \A i \in 1..(k - 1) : Undisturbed(i) => Shows(Saved(bk, Bindings[i].sheet.key), i, CellsOf(r, i))

BookFits(bk, r, k) ==
  /\ FromBefore(bk.cells, k)
  /\ \A x \in DOMAIN bk.streams : FromBefore(bk.streams[x].cells, k) /\ Ordered(bk.streams[x])
  /\ OneStreamPerSheet(bk)
  /\ HaveStreams(bk, r, k)
  /\ Drawn(bk, r, k)

(* The cells of the k-th binding, once its lines are on the sheet. *)
CellsFit(cells, k) == /\ \A p \in DOMAIN cells : cells[p][1] = k /\ p[1] = Bindings[k].sheet.key
                      /\ RowsOf(cells) \subseteq 0..SheetRows

(* What is saved of the sheet of an undisturbed binding: its one stream, if  *)
(* it has one.                                                               *)
LEMMA SavedIs ==
  ASSUME NEW bk, OfBindings(bk), OneStreamPerSheet(bk), NEW i \in DOMAIN Bindings, Undisturbed(i)
  PROVE  /\ Bindings[i].sheet \notin Streamed(bk) =>
              /\ StreamsOf(bk, Bindings[i].sheet.key) = {}
              /\ Saved(bk, Bindings[i].sheet.key) = Restrict(bk.cells, {p \in DOMAIN bk.cells : p[1] = Bindings[i].sheet.key})
         /\ \A x \in DOMAIN bk.streams : bk.streams[x].sheet = Bindings[i].sheet =>
              /\ StreamsOf(bk, Bindings[i].sheet.key) = {x}
              /\ Saved(bk, Bindings[i].sheet.key) = bk.streams[x].cells
<1>. DEFINE sheet == Bindings[i].sheet
            mine == StreamsOf(bk, sheet.key)
<1>1. \A y \in mine : y \in DOMAIN bk.streams /\ bk.streams[y].sheet = sheet
  <2>. SUFFICES ASSUME NEW y \in mine PROVE y \in DOMAIN bk.streams /\ bk.streams[y].sheet = sheet OBVIOUS
  <2>1. y \in DOMAIN bk.streams /\ bk.streams[y].sheet.key = sheet.key BY DEF StreamsOf
  <2>2. bk.streams[y].sheet \in StreamSheets BY <2>1 DEF OfBindings, Streamed
  <2>3. PICK j \in DOMAIN Bindings : bk.streams[y].sheet = Bindings[j].sheet BY <2>2 DEF StreamSheets
  <2>4. j = i \/ Bindings[j].sheet = sheet BY <2>1, <2>3 DEF Undisturbed
  <2>. QED BY <2>1, <2>3, <2>4
<1>2. ASSUME sheet \notin Streamed(bk) PROVE mine = {} BY <1>1, <1>2 DEF Streamed
<1>3. ASSUME NEW x \in DOMAIN bk.streams, bk.streams[x].sheet = sheet PROVE mine = {x} /\ Max(mine) = x
  <2>1. x \in mine BY <1>3 DEF StreamsOf
  <2>2. mine = {x} BY <1>1, <1>3, <2>1 DEF OneStreamPerSheet
  <2>3. x \in Nat BY <1>3 DEF OfBindings, IsBook
  <2>4. Max({x}) = x BY <2>3 DEF Max
  <2>. QED BY <2>2, <2>4
<1>. HIDE DEF mine
<1>. QED BY <1>2, <1>3 DEF Saved, mine

LEMMA SavedBefore ==
  ASSUME NEW bk, OfBindings(bk), NEW r, NEW k, BookFits(bk, r, k), NEW i \in DOMAIN Bindings, Undisturbed(i)
  PROVE  FromBefore(Saved(bk, Bindings[i].sheet.key), k)
<1>. DEFINE sheet == Bindings[i].sheet
            saved == Saved(bk, sheet.key)
            own == {p \in DOMAIN bk.cells : p[1] = sheet.key}
<1>1. CASE sheet \notin Streamed(bk)
  <2>1. saved = Restrict(bk.cells, own) BY <1>1, SavedIs DEF BookFits
  <2>2. DOMAIN saved = own /\ \A p \in own : saved[p] = bk.cells[p] BY <2>1, Restricted
  <2>. HIDE DEF saved
  <2>. QED BY <2>2 DEF FromBefore, BookFits, saved
<1>2. CASE sheet \in Streamed(bk)
  <2>1. PICK x \in DOMAIN bk.streams : bk.streams[x].sheet = sheet BY <1>2 DEF Streamed
  <2>2. saved = bk.streams[x].cells BY <2>1, SavedIs DEF BookFits
  <2>. QED BY <2>2 DEF BookFits
<1>. QED BY <1>1, <1>2

(* Nothing is written to the sheet of the i-th binding. *)
Untouched(bk, new, i) ==
  /\ \A x \in DOMAIN bk.streams :
        bk.streams[x].sheet = Bindings[i].sheet => x \in DOMAIN new.streams /\ new.streams[x] = bk.streams[x]
  /\ Bindings[i].sheet \in Streamed(new) => Bindings[i].sheet \in Streamed(bk)
  /\ \A p : p[1] = Bindings[i].sheet.key =>
        /\ p \in DOMAIN new.cells <=> p \in DOMAIN bk.cells
        /\ p \in DOMAIN bk.cells => new.cells[p] = bk.cells[p]

(* A sheet that nothing is written to goes on to show what it showed. *)
LEMMA SavedAsBefore ==
  ASSUME NEW bk, NEW new, NEW i \in DOMAIN Bindings, Undisturbed(i),
         OfBindings(bk), OneStreamPerSheet(bk), OfBindings(new), OneStreamPerSheet(new), Untouched(bk, new, i)
  PROVE  Saved(new, Bindings[i].sheet.key) = Saved(bk, Bindings[i].sheet.key)
<1>. DEFINE sheet == Bindings[i].sheet
<1>1. CASE sheet \notin Streamed(bk)
  <2>. DEFINE own == {p \in DOMAIN bk.cells : p[1] = sheet.key}
              there == {p \in DOMAIN new.cells : p[1] = sheet.key}
  <2>0. sheet \notin Streamed(new) BY <1>1 DEF Untouched
  <2>1. Saved(bk, sheet.key) = Restrict(bk.cells, own) BY <1>1, SavedIs
  <2>2. Saved(new, sheet.key) = Restrict(new.cells, there) BY <2>0, SavedIs
  <2>3. own = there /\ \A p \in own : new.cells[p] = bk.cells[p] BY DEF Untouched
  <2>. HIDE DEF own, there
  <2>4. Restrict(bk.cells, own) = Restrict(new.cells, own) BY <2>3 DEF Restrict
  <2>. QED BY <2>1, <2>2, <2>3, <2>4
<1>2. CASE sheet \in Streamed(bk)
  <2>1. PICK x \in DOMAIN bk.streams : bk.streams[x].sheet = sheet BY <1>2 DEF Streamed
  <2>2. Saved(bk, sheet.key) = bk.streams[x].cells BY <2>1, SavedIs
  <2>3. x \in DOMAIN new.streams /\ new.streams[x] = bk.streams[x] BY <2>1 DEF Untouched
  <2>4. new.streams[x].sheet = sheet BY <2>1, <2>3
  <2>5. Saved(new, sheet.key) = new.streams[x].cells BY <2>3, <2>4, SavedIs
  <2>. QED BY <2>2, <2>3, <2>5
<1>. QED BY <1>1, <1>2

LEMMA BeforeLater ==
  ASSUME NEW cells, NEW k \in Nat \ {0}, FromBefore(cells, k)
  PROVE  FromBefore(cells, k + 1)
BY DEF FromBefore

(* Nothing is shown of a binding that was not written. *)
LEMMA OnlyItsOwn ==
  ASSUME NEW sheet, NEW old, NEW cells, NEW k \in Nat \ {0},
         FromBefore(old, k), sheet = Over(cells, old)
  PROVE  Shows(sheet, k, cells)
<1>1. /\ DOMAIN Over(cells, old) = DOMAIN cells \cup DOMAIN old
      /\ \A p \in DOMAIN cells : Over(cells, old)[p] = cells[p]
      /\ \A p \in DOMAIN old \ DOMAIN cells : Over(cells, old)[p] = old[p]
  BY WrittenOver
<1>2. \A p \in DOMAIN old : old[p][1] # k BY DEF FromBefore
<1>. QED BY <1>1, <1>2 DEF Shows

(* A binding without frames writes nothing. *)
LEMMA BookFitsWithout ==
  ASSUME NEW bk, NEW r, NEW k \in DOMAIN Bindings, k \in Nat \ {0}, OfBindings(bk), BookFits(bk, r, k),
         r[k] = <<>>, DOMAIN CellsOf(r, k) = {}
  PROVE  BookFits(bk, r, k + 1)
<1>. DEFINE M == k + 1
<1>1. \A i \in 1..(M - 1) : i \in 1..(k - 1) \/ i = k OBVIOUS
<1>2. \A cells : FromBefore(cells, k) => FromBefore(cells, M) BY BeforeLater
<1>. HIDE DEF M
<1>3. HaveStreams(bk, r, M) BY <1>1 DEF HaveStreams, BookFits
<1>4. ASSUME NEW i \in 1..(M - 1), Undisturbed(i) PROVE Shows(Saved(bk, Bindings[i].sheet.key), i, CellsOf(r, i))
  <2>1. CASE i \in 1..(k - 1) BY <1>4, <2>1 DEF BookFits, Drawn
  <2>2. CASE i = k
    <3>. DEFINE saved == Saved(bk, Bindings[k].sheet.key)
    <3>1. FromBefore(saved, k) BY <1>4, <2>2, SavedBefore
    <3>. HIDE DEF saved
    <3>2. \A p \in DOMAIN saved : saved[p][1] # k BY <3>1 DEF FromBefore
    <3>3. Shows(saved, k, CellsOf(r, k)) BY <3>2 DEF Shows
    <3>. QED BY <2>2, <3>3 DEF saved
  <2>. QED BY <1>1, <2>1, <2>2
<1>5. Drawn(bk, r, M) BY <1>4 DEF Drawn
<1>6. BookFits(bk, r, M) BY <1>2, <1>3, <1>5 DEF BookFits
<1>. QED BY <1>6 DEF M

(* A binding written in a normal mode: no other one whose cells are to last  *)
(* writes to its sheet.                                                      *)
LEMMA BookFitsNormal ==
  ASSUME NEW bk, NEW r, NEW k \in DOMAIN Bindings, k \in Nat \ {0}, OfBindings(bk), BookFits(bk, r, k),
         1..(k - 1) \subseteq DOMAIN Bindings, SameModesPerSheet(Report), ~Streaming(k), CellsFit(CellsOf(r, k), k),
         NEW new, new = WriteNormal(bk, Bindings[k], CellsOf(r, k)), OfBindings(new)
  PROVE  BookFits(new, r, k + 1)
<1>. DEFINE b == Bindings[k]
            cells == CellsOf(r, k)
            kept == ClearRange(bk.cells, b)
            M == k + 1
<1>1. new.streams = bk.streams /\ new.cells = Over(cells, kept) BY DEF WriteNormal, OfBindings, IsBook
<1>2. /\ DOMAIN kept \subseteq DOMAIN bk.cells
      /\ \A p \in DOMAIN kept : kept[p] = bk.cells[p]
      /\ \A p \in DOMAIN bk.cells : p[1] # b.sheet.key => p \in DOMAIN kept
  <2>1. CASE b.clear.kind = "none" BY <2>1 DEF ClearRange
  <2>2. CASE b.clear.kind # "none"
    <3>. DEFINE box == b.clear.box
                rows == Min({box[1], box[3]})..Max({box[1], box[3]})
                cols == Min({box[2], box[4]})..Max({box[2], box[4]})
                cleared == {b.sheet.key} \X rows \X cols
                left == DOMAIN bk.cells \ cleared
    <3>1. kept = Restrict(bk.cells, left) BY <2>2 DEF ClearRange
    <3>. HIDE DEF kept, rows, cols
    <3>2. \A p \in cleared : p[1] = b.sheet.key OBVIOUS
    <3>. HIDE DEF cleared
    <3>3. DOMAIN kept = left /\ \A p \in left : kept[p] = bk.cells[p] BY <3>1, Restricted
    <3>. QED BY <3>2, <3>3
  <2>. QED BY <2>1, <2>2
<1>. HIDE DEF kept
<1>0. /\ DOMAIN Over(cells, kept) = DOMAIN cells \cup DOMAIN kept
      /\ \A p \in DOMAIN cells : Over(cells, kept)[p] = cells[p]
      /\ \A p \in DOMAIN kept \ DOMAIN cells : Over(cells, kept)[p] = kept[p]
  BY WrittenOver
<1>3. /\ DOMAIN new.cells = DOMAIN cells \cup DOMAIN kept
      /\ \A p \in DOMAIN cells : new.cells[p] = cells[p]
      /\ \A p \in DOMAIN kept \ DOMAIN cells : new.cells[p] = kept[p]
  BY <1>0, <1>1
<1>4. \A p \in DOMAIN cells : cells[p][1] = k /\ p[1] = b.sheet.key BY DEF CellsFit
<1>5. FromBefore(kept, k) BY <1>2 DEF FromBefore, BookFits
<1>. HIDE DEF cells
<1>6. \A i \in 1..(M - 1) : i \in 1..(k - 1) \/ i = k OBVIOUS
<1>7. k \in 0..(M - 1) /\ \A c : FromBefore(c, k) => FromBefore(c, M) BY BeforeLater
<1>. HIDE DEF M
<1>8. FromBefore(new.cells, M)
  <2>. SUFFICES ASSUME NEW p \in DOMAIN new.cells PROVE new.cells[p][1] \in 0..(M - 1) BY DEF FromBefore
  <2>1. CASE p \in DOMAIN cells BY <1>3, <1>4, <1>7, <2>1
  <2>2. CASE p \notin DOMAIN cells
    <3>1. FromBefore(kept, M) /\ p \in DOMAIN kept /\ new.cells[p] = kept[p] BY <1>3, <1>5, <1>7, <2>2
    <3>. QED BY <3>1 DEF FromBefore
  <2>. QED BY <2>1, <2>2
<1>9. /\ \A x \in DOMAIN new.streams : FromBefore(new.streams[x].cells, M) /\ Ordered(new.streams[x])
      /\ OneStreamPerSheet(new) /\ Streamed(new) = Streamed(bk)
  BY <1>1, <1>7 DEF BookFits, OneStreamPerSheet, Streamed
<1>10. HaveStreams(new, r, M) BY <1>6, <1>9 DEF HaveStreams, BookFits
<1>11. OneStreamPerSheet(bk) BY DEF BookFits
<1>12. ASSUME NEW i \in 1..(k - 1), Undisturbed(i) PROVE Shows(Saved(new, Bindings[i].sheet.key), i, CellsOf(r, i))
  <2>1. i \in DOMAIN Bindings /\ i # k /\ Shows(Saved(bk, Bindings[i].sheet.key), i, CellsOf(r, i))
    BY <1>12 DEF BookFits, Drawn
  <2>2. Bindings[i].sheet.key # b.sheet.key
    <3>. SUFFICES ASSUME Bindings[k].sheet.key = Bindings[i].sheet.key PROVE FALSE OBVIOUS
    <3>1. WriteMode(Report, Bindings[i]) = "stream" BY <1>12, <2>1 DEF Undisturbed
    <3>2. WriteMode(Report, Bindings[k]) = WriteMode(Report, Bindings[i]) BY <2>1 DEF SameModesPerSheet, Bindings
    <3>. QED BY <3>1, <3>2 DEF Streaming
  <2>3. \A p : p[1] = Bindings[i].sheet.key =>
             /\ p \in DOMAIN new.cells <=> p \in DOMAIN bk.cells
             /\ p \in DOMAIN bk.cells => new.cells[p] = bk.cells[p]
    BY <1>2, <1>3, <1>4, <2>2
  <2>4. \A x \in DOMAIN bk.streams : x \in DOMAIN new.streams /\ new.streams[x] = bk.streams[x] BY <1>1
  <2>6. Untouched(bk, new, i) BY <1>9, <2>3, <2>4 DEF Untouched
  <2>5. Saved(new, Bindings[i].sheet.key) = Saved(bk, Bindings[i].sheet.key)
    BY <1>9, <1>11, <1>12, <2>1, <2>6, SavedAsBefore
  <2>. QED BY <2>1, <2>5
<1>13. ASSUME Undisturbed(k) PROVE Shows(Saved(new, b.sheet.key), k, cells)
  <2>. DEFINE own == {p \in DOMAIN new.cells : p[1] = b.sheet.key}
              saved == Saved(new, b.sheet.key)
  <2>1. b.sheet \notin Streamed(new)
    <3>. SUFFICES ASSUME b.sheet \in Streamed(new) PROVE FALSE OBVIOUS
    <3>1. b.sheet \in StreamSheets BY DEF OfBindings
    <3>2. PICK j \in DOMAIN Bindings : Streaming(j) /\ Bindings[j].sheet = b.sheet BY <3>1 DEF StreamSheets
    <3>3. WriteMode(Report, Bindings[k]) = WriteMode(Report, Bindings[j]) BY <3>2 DEF SameModesPerSheet, Bindings
    <3>. QED BY <3>2, <3>3 DEF Streaming
  <2>2. saved = Restrict(new.cells, own) BY <1>9, <1>13, <2>1, SavedIs
  <2>3. DOMAIN saved = own /\ \A p \in own : saved[p] = new.cells[p] BY <2>2, Restricted
  <2>. HIDE DEF saved
  <2>4. Shows(new.cells, k, cells) BY <1>1, <1>5, OnlyItsOwn
  <2>5. \A p \in DOMAIN cells : p \in own BY <1>3, <1>4
  <2>6. Shows(saved, k, cells) BY <2>3, <2>4, <2>5 DEF Shows
  <2>. QED BY <2>6 DEF saved
<1>14. Drawn(new, r, M)
  <2>. SUFFICES ASSUME NEW i \in 1..(M - 1), Undisturbed(i) PROVE Shows(Saved(new, Bindings[i].sheet.key), i, CellsOf(r, i))
    BY DEF Drawn
  <2>. QED BY <1>6, <1>12, <1>13 DEF cells
<1>15. BookFits(new, r, M) BY <1>8, <1>9, <1>10, <1>14 DEF BookFits
<1>. QED BY <1>15 DEF M

LEMMA NothingWritten ==
  ASSUME NEW binding, NEW i
  PROVE  DOMAIN BindingCells(binding, i, <<>>) = {}
<1>1. DOMAIN <<>> = {} OBVIOUS
<1>. QED BY <1>1 DEF BindingCells

LEMMA LowerRow ==
  ASSUME NEW cells, RowsOf(cells) \subseteq 0..SheetRows, NEW last \in 0..SheetRows, SheetRows \in Nat
  PROVE  LET row == Max(RowsOf(cells) \cup {last})
         IN row \in 0..SheetRows /\ last =< row /\ \A p \in RowsOf(cells) : p =< row
<1>. DEFINE S == RowsOf(cells) \cup {last}
            row == Max(S)
<1>1. S \subseteq 0..SheetRows /\ S # {} /\ last \in S OBVIOUS
<1>. HIDE DEF S
<1>2. \A n \in S : n \in Nat /\ n =< SheetRows BY <1>1
<1>3. row \in S /\ \A n \in S : n =< row BY <1>1, <1>2, MaxIsGreatest
<1>. HIDE DEF row
<1>. QED BY <1>1, <1>3 DEF S, row

(* The rows that a stream takes are below the ones it has. *)
LEMMA RowsBelow ==
  ASSUME NEW bk, NEW binding, NEW cells, RowsOf(cells) \subseteq 0..SheetRows, SheetRows \in Nat,
         ~Descends(bk, binding, cells), binding.sheet \in Streamed(bk),
         NEW last \in Nat, last = bk.streams[StreamOf(bk, binding.sheet)].lastRow
  PROVE  \A p \in DOMAIN cells : p[2] > last
<1>. DEFINE R == RowsOf(cells)
<1>. SUFFICES ASSUME NEW p \in DOMAIN cells PROVE p[2] > last OBVIOUS
<1>1. p[2] \in R BY DEF RowsOf
<1>2. R \subseteq Nat /\ R # {} BY <1>1
<1>. HIDE DEF R
<1>3. Min(R) \in R /\ \A n \in R : Min(R) =< n BY <1>2, MinIsLeast
<1>4. ~(Min(R) =< last) BY <1>2 DEF Descends, R
<1>. DEFINE m == Min(R)
<1>5. m \in Nat /\ m =< p[2] /\ p[2] \in Nat /\ ~(m =< last) BY <1>1, <1>2, <1>3, <1>4
<1>. HIDE DEF m
<1>. QED BY <1>5

(* A binding written as a stream, below what its sheet has. *)
LEMMA BookFitsStreamed ==
  ASSUME NEW bk, NEW r, NEW k \in DOMAIN Bindings, k \in Nat \ {0}, OfBindings(bk), BookFits(bk, r, k),
         1..(k - 1) \subseteq DOMAIN Bindings, SheetRows \in Nat, Streaming(k), CellsFit(CellsOf(r, k), k),
         ~Descends(bk, Bindings[k], CellsOf(r, k)),
         NEW new, new = WriteStream(bk, Bindings[k], CellsOf(r, k)), OfBindings(new)
  PROVE  BookFits(new, r, k + 1)
<1>. DEFINE b == Bindings[k]
            cells == CellsOf(r, k)
            M == k + 1
<1>1. PICK x, old, last : StreamedOn(new, bk, b.sheet, cells, x, old, last) BY StreamIsWritten DEF OfBindings
<1>2. \A p \in DOMAIN cells : cells[p][1] = k /\ p[1] = b.sheet.key BY DEF CellsFit
<1>3. FromBefore(old, k) /\ last \in 0..SheetRows /\ RowsOf(old) \subseteq 0..last
  <2>1. CASE b.sheet \in Streamed(bk)
    BY <1>1, <2>1 DEF StreamedOn, BookFits, Ordered
  <2>2. CASE b.sheet \notin Streamed(bk)
    <3>1. old = <<>> /\ last = 0 BY <1>1, <2>2 DEF StreamedOn
    <3>2. DOMAIN old = {} BY <3>1
    <3>. QED BY <3>1, <3>2 DEF FromBefore, RowsOf
  <2>. QED BY <2>1, <2>2
<1>4. RowsOf(cells) \subseteq 0..SheetRows BY DEF CellsFit
<1>5. b.sheet \in Streamed(bk) => \A p \in DOMAIN cells : p[2] > last
  <2>. SUFFICES ASSUME b.sheet \in Streamed(bk) PROVE \A p \in DOMAIN cells : p[2] > last OBVIOUS
  <2>1. last = bk.streams[StreamOf(bk, b.sheet)].lastRow BY <1>1 DEF StreamedOn
  <2>2. last \in Nat BY <1>3
  <2>. QED BY <1>4, <2>1, <2>2, RowsBelow
<1>. HIDE DEF cells
<1>6. \A i \in 1..(M - 1) : i \in 1..(k - 1) \/ i = k OBVIOUS
<1>7. k \in 0..(M - 1) /\ \A c : FromBefore(c, k) => FromBefore(c, M) BY BeforeLater
<1>8. \A i \in 1..(k - 1) : i # k OBVIOUS
<1>. HIDE DEF M
<1>9. /\ DOMAIN Over(cells, old) = DOMAIN cells \cup DOMAIN old
      /\ \A p \in DOMAIN cells : Over(cells, old)[p] = cells[p]
      /\ \A p \in DOMAIN old \ DOMAIN cells : Over(cells, old)[p] = old[p]
  BY WrittenOver
<1>10. FromBefore(Over(cells, old), M)
  <2>. SUFFICES ASSUME NEW p \in DOMAIN Over(cells, old) PROVE Over(cells, old)[p][1] \in 0..(M - 1) BY DEF FromBefore
  <2>1. CASE p \in DOMAIN cells BY <1>2, <1>7, <1>9, <2>1
  <2>2. CASE p \notin DOMAIN cells
    <3>1. FromBefore(old, M) /\ p \in DOMAIN old /\ Over(cells, old)[p] = old[p] BY <1>3, <1>7, <1>9, <2>2
    <3>. QED BY <3>1 DEF FromBefore
  <2>. QED BY <2>1, <2>2
<1>11. Ordered(new.streams[x])
  <2>. DEFINE row == Max(RowsOf(cells) \cup {last})
  <2>1. row \in 0..SheetRows /\ last =< row /\ \A p \in RowsOf(cells) : p =< row BY <1>3, <1>4, LowerRow
  <2>2. new.streams[x].lastRow = row /\ new.streams[x].cells = Over(cells, old) BY <1>1 DEF StreamedOn
  <2>. HIDE DEF row
  <2>3. ASSUME NEW p \in DOMAIN Over(cells, old) PROVE p[2] \in 0..row
    <3>1. CASE p \in DOMAIN cells
      <4>1. p[2] \in RowsOf(cells) BY <3>1 DEF RowsOf
      <4>. QED BY <1>4, <2>1, <4>1
    <3>2. CASE p \in DOMAIN old
      <4>1. p[2] \in RowsOf(old) BY <3>2 DEF RowsOf
      <4>. QED BY <1>3, <2>1, <4>1
    <3>. QED BY <1>9, <3>1, <3>2
  <2>4. RowsOf(new.streams[x].cells) \subseteq 0..row BY <2>2, <2>3 DEF RowsOf
  <2>. QED BY <2>1, <2>2, <2>4 DEF Ordered
<1>12. ASSUME NEW y \in DOMAIN new.streams PROVE FromBefore(new.streams[y].cells, M) /\ Ordered(new.streams[y])
  <2>1. CASE y = x BY <1>1, <1>10, <1>11, <2>1 DEF StreamedOn
  <2>2. CASE y # x
    <3>1. y \in DOMAIN bk.streams /\ new.streams[y] = bk.streams[y] BY <1>1, <2>2 DEF StreamedOn
    <3>. QED BY <1>7, <3>1 DEF BookFits
  <2>. QED BY <2>1, <2>2
<1>13. OneStreamPerSheet(bk) BY DEF BookFits
<1>14. \A y \in DOMAIN bk.streams : bk.streams[y].sheet = b.sheet => y = x
  BY <1>1, <1>13 DEF StreamedOn, OneStreamPerSheet, Streamed
<1>15. OneStreamPerSheet(new)
  <2>. SUFFICES ASSUME NEW y \in DOMAIN new.streams, NEW z \in DOMAIN new.streams, new.streams[y].sheet = new.streams[z].sheet
                PROVE  y = z
    BY DEF OneStreamPerSheet
  <2>1. ASSUME NEW w \in DOMAIN new.streams, w # x
        PROVE  w \in DOMAIN bk.streams /\ new.streams[w] = bk.streams[w] /\ new.streams[w].sheet # new.streams[x].sheet
    <3>1. w \in DOMAIN bk.streams /\ new.streams[w] = bk.streams[w] /\ new.streams[x].sheet = b.sheet
      BY <1>1, <2>1 DEF StreamedOn
    <3>. QED BY <1>14, <2>1, <3>1
  <2>. QED BY <1>13, <2>1 DEF OneStreamPerSheet
<1>16. \A sheet : sheet \in Streamed(new) => sheet \in Streamed(bk) \/ sheet = b.sheet
  <2>. SUFFICES ASSUME NEW y \in DOMAIN new.streams PROVE new.streams[y].sheet \in Streamed(bk) \/ new.streams[y].sheet = b.sheet
    BY DEF Streamed
  <2>. QED BY <1>1 DEF StreamedOn, Streamed
<1>17. b.sheet \in Streamed(new) /\ Streamed(bk) \subseteq Streamed(new)
  <2>1. x \in DOMAIN new.streams /\ new.streams[x].sheet = b.sheet BY <1>1 DEF StreamedOn
  <2>2. ASSUME NEW y \in DOMAIN bk.streams PROVE bk.streams[y].sheet \in Streamed(new)
    <3>1. CASE y = x
      <4>1. b.sheet = bk.streams[y].sheet BY <1>1, <3>1 DEF StreamedOn
      <4>. QED BY <2>1, <4>1 DEF Streamed
    <3>2. CASE y # x
      <4>1. y \in DOMAIN new.streams /\ new.streams[y] = bk.streams[y] BY <1>1, <3>2 DEF StreamedOn
      <4>2. new.streams[y].sheet \in Streamed(new) BY <4>1 DEF Streamed
      <4>. QED BY <4>1, <4>2
    <3>. QED BY <3>1, <3>2
  <2>. QED BY <2>1, <2>2 DEF Streamed
<1>18. HaveStreams(new, r, M)
  <2>. SUFFICES ASSUME NEW i \in 1..(M - 1), Streaming(i), r[i] # <<>> PROVE Bindings[i].sheet \in Streamed(new) BY DEF HaveStreams
  <2>. QED BY <1>6, <1>17 DEF HaveStreams, BookFits
<1>19. ASSUME NEW i \in 1..(k - 1), Undisturbed(i), Bindings[i].sheet.key # b.sheet.key
       PROVE  Shows(Saved(new, Bindings[i].sheet.key), i, CellsOf(r, i))
  <2>1. i \in DOMAIN Bindings /\ Shows(Saved(bk, Bindings[i].sheet.key), i, CellsOf(r, i)) BY <1>19 DEF BookFits, Drawn
  <2>2. Bindings[i].sheet # b.sheet BY <1>19
  <2>3. \A y \in DOMAIN bk.streams : bk.streams[y].sheet = Bindings[i].sheet => y \in DOMAIN new.streams /\ new.streams[y] = bk.streams[y]
    <3>. SUFFICES ASSUME NEW y \in DOMAIN bk.streams, bk.streams[y].sheet = Bindings[i].sheet
                  PROVE  y \in DOMAIN new.streams /\ new.streams[y] = bk.streams[y]
      OBVIOUS
    <3>1. y # x
      <4>. SUFFICES ASSUME y = x PROVE FALSE OBVIOUS
      <4>1. b.sheet = bk.streams[y].sheet BY <1>1 DEF StreamedOn
      <4>. QED BY <2>2, <4>1
    <3>. QED BY <1>1, <3>1 DEF StreamedOn
  <2>4. Bindings[i].sheet \in Streamed(new) => Bindings[i].sheet \in Streamed(bk) BY <1>16, <2>2
  <2>5. new.cells = bk.cells BY <1>1 DEF StreamedOn
  <2>6. Untouched(bk, new, i) BY <2>3, <2>4, <2>5 DEF Untouched
  <2>7. Saved(new, Bindings[i].sheet.key) = Saved(bk, Bindings[i].sheet.key) BY <1>13, <1>15, <1>19, <2>1, <2>6, SavedAsBefore
  <2>. QED BY <2>1, <2>7
<1>20. ASSUME NEW i \in 1..(k - 1), Undisturbed(i), Bindings[i].sheet.key = b.sheet.key
       PROVE  Shows(Saved(new, Bindings[i].sheet.key), i, CellsOf(r, i))
  <2>. DEFINE mine == CellsOf(r, i)
              sheet == Bindings[i].sheet
              saved == Saved(new, sheet.key)
  <2>1. i \in DOMAIN Bindings /\ i # k /\ Shows(Saved(bk, Bindings[i].sheet.key), i, mine) BY <1>8, <1>20 DEF BookFits, Drawn
  <2>2. b.sheet = sheet /\ Streaming(i) BY <1>20, <2>1 DEF Undisturbed, Streaming
  <2>3. x \in DOMAIN new.streams /\ new.streams[x].sheet = sheet /\ new.streams[x].cells = Over(cells, old)
    BY <1>1, <2>2 DEF StreamedOn
  <2>4. saved = new.streams[x].cells BY <1>15, <1>20, <2>1, <2>3, SavedIs
  <2>. HIDE DEF saved
  <2>5. CASE sheet \in Streamed(bk)
    <3>1. x \in DOMAIN bk.streams /\ bk.streams[x].sheet = sheet /\ old = bk.streams[x].cells
      BY <1>1, <2>2, <2>5 DEF StreamedOn
    <3>2. Saved(bk, Bindings[i].sheet.key) = bk.streams[x].cells BY <1>13, <1>20, <2>1, <3>1, SavedIs
    <3>3. Shows(old, i, mine) BY <2>1, <3>1, <3>2
    <3>4. \A p \in DOMAIN old : p \notin DOMAIN cells
      <4>. SUFFICES ASSUME NEW p \in DOMAIN old, p \in DOMAIN cells PROVE FALSE OBVIOUS
      <4>1. p[2] \in RowsOf(old) BY DEF RowsOf
      <4>2. p[2] > last BY <1>5, <2>2, <2>5
      <4>. QED BY <1>3, <4>1, <4>2
    <3>. HIDE DEF mine
    <3>4a. saved = Over(cells, old) BY <2>3, <2>4
    <3>5. /\ DOMAIN saved = DOMAIN cells \cup DOMAIN old
          /\ \A p \in DOMAIN cells : saved[p][1] = k
          /\ \A p \in DOMAIN old : saved[p] = old[p]
      BY <1>2, <1>9, <3>4, <3>4a
    <3>6. Shows(saved, i, mine) BY <2>1, <3>3, <3>5 DEF Shows
    <3>. QED BY <3>6 DEF saved, mine
  <2>6. CASE sheet \notin Streamed(bk)
    <3>1. r[i] = <<>> BY <1>20, <2>2, <2>6 DEF BookFits, HaveStreams
    <3>2. DOMAIN mine = {} BY <3>1, NothingWritten DEF CellsOf
    <3>3. old = <<>> /\ DOMAIN <<>> = {} BY <1>1, <2>2, <2>6 DEF StreamedOn
    <3>. HIDE DEF mine
    <3>4. saved = Over(cells, old) BY <2>3, <2>4
    <3>5. \A p \in DOMAIN saved : saved[p][1] = k BY <1>2, <1>9, <3>3, <3>4
    <3>6. Shows(saved, i, mine) BY <2>1, <3>2, <3>5 DEF Shows
    <3>. QED BY <3>6 DEF saved, mine
  <2>. QED BY <2>5, <2>6
<1>21. ASSUME Undisturbed(k) PROVE Shows(Saved(new, b.sheet.key), k, cells)
  <2>. DEFINE saved == Saved(new, b.sheet.key)
  <2>1. x \in DOMAIN new.streams /\ new.streams[x].sheet = b.sheet /\ new.streams[x].cells = Over(cells, old)
    BY <1>1 DEF StreamedOn
  <2>2. saved = new.streams[x].cells BY <1>15, <1>21, <2>1, SavedIs
  <2>. HIDE DEF saved
  <2>3. saved = Over(cells, old) BY <2>1, <2>2
  <2>4. Shows(saved, k, cells) BY <1>3, <2>3, OnlyItsOwn
  <2>. QED BY <2>4 DEF saved
<1>22. Drawn(new, r, M)
  <2>. SUFFICES ASSUME NEW i \in 1..(M - 1), Undisturbed(i) PROVE Shows(Saved(new, Bindings[i].sheet.key), i, CellsOf(r, i))
    BY DEF Drawn
  <2>. QED BY <1>6, <1>19, <1>20, <1>21 DEF cells
<1>23. FromBefore(new.cells, M) BY <1>1, <1>7 DEF StreamedOn, BookFits
<1>24. BookFits(new, r, M) BY <1>12, <1>15, <1>18, <1>22, <1>23 DEF BookFits
<1>. QED BY <1>24 DEF M

-----------------------------------------------------------------------------
(* The generation itself.  The invariant ties where a generation is to its   *)
(* handler, keeps what was checked of the settings, which do not change      *)
(* under way, and says where the sheets of a workbook come from.             *)

Phases == {"none", "prepare", "query", "write", "saved", "failed"}
Reasons ==
  {"", "catalog", "unknown", "time", "ended", "async", "query", "answer", "frames", "rows",
   "template", "mixed", "clear", "cell", "order", "size"}

(* excelReportCatalog has accepted the settings, and the report was found in them. *)
Settled == ValidCatalog(world.reports) /\ Found # {}

StageFits(p, l, why) ==
  /\ p = "none" <=> l = "idle"
  /\ p \in {"prepare", "query", "write"} <=> l = "generating"
  /\ why # "" <=> p = "failed"

Founded(why) ==
  /\ why = "catalog" => ~ValidCatalog(world.reports)
  /\ why = "template" => Settled /\ ~OpensTemplate(Report)
  /\ why # "mixed"

GTypes ==
  /\ world \in Worlds
  /\ phase \in [Links -> Phases]
  /\ at \in [Links -> Nat \ {0}]
  /\ ended \in [Links -> BOOLEAN]
  /\ reason \in [Links -> Reasons]
  /\ book = [g \in Links |-> book[g]]

GenInv ==
  /\ DInv
  /\ GTypes
  /\ \A g \in Links :
       /\ StageFits(phase[g], link[g], reason[g])
       /\ Founded(reason[g])
       /\ phase[g] \in {"query", "write", "saved"} => Settled
       /\ phase[g] \in {"write", "saved"} => OfBindings(book[g])

USE RowsAssumption, WorldsAssumption

LEMMA InitGenInv == Init => GenInv
<1>. SUFFICES ASSUME Init PROVE GenInv OBVIOUS
<1>1. DInv BY InitDInv DEF Init
<1>2. GTypes
  <2>1. reason \in [Links -> Reasons] BY DEF Init, Reasons
  <2>2. book = [g \in Links |-> book[g]] BY DEF Init
  <2>3. phase \in [Links -> Phases] BY DEF Init, Phases
  <2>4. 1 \in Nat \ {0} OBVIOUS
  <2>5. at \in [Links -> Nat \ {0}] BY <2>4 DEF Init
  <2>6. ended \in [Links -> BOOLEAN] /\ world \in Worlds BY DEF Init
  <2>. QED BY <2>1, <2>2, <2>3, <2>5, <2>6 DEF GTypes
<1>3. \A g \in Links : phase[g] = "none" /\ link[g] = "idle" /\ reason[g] = "" BY DEF Init, DInit
<1>. QED BY <1>1, <1>2, <1>3 DEF GenInv, StageFits, Founded

(* A catalog without two reports of one ID has one that is found: a valid one. *)
LEMMA OneFound ==
  ASSUME world \in Worlds, Settled
  PROVE  /\ \E i \in DOMAIN world.reports : Report = world.reports[i]
         /\ ValidReport(Report)
         /\ Bindings \in Seq(ToSet(Bindings))
<1>1. PICK i \in Found : TRUE BY DEF Settled
<1>2. i \in DOMAIN world.reports /\ DOMAIN world.reports = 1..Len(world.reports) BY <1>1 DEF Found
<1>3. i \in Nat BY <1>2
<1>4. \A j \in Found : j = i BY <1>1 DEF Found, Settled, ValidCatalog
<1>5. Found = {i} BY <1>1, <1>4
<1>6. Min({i}) = i BY <1>3 DEF Min
<1>7. Report = world.reports[i] BY <1>5, <1>6 DEF Report
<1>. QED BY <1>2, <1>7 DEF Settled, ValidCatalog, Bindings

(* No key is of both a sheet that is streamed and one written otherwise. *)
LEMMA ModesApart ==
  ASSUME world \in Worlds, Settled, NEW x \in StreamSheets, NEW y \in NormalSheets
  PROVE  x.key # y.key
<1>1. SameModesPerSheet(Report) BY OneFound DEF ValidReport
<1>2. PICK i \in DOMAIN Bindings : Streaming(i) /\ x = Bindings[i].sheet BY DEF StreamSheets
<1>3. PICK j \in DOMAIN Bindings : ~Streaming(j) /\ y = Bindings[j].sheet BY DEF NormalSheets
<1>. QED BY <1>1, <1>2, <1>3 DEF SameModesPerSheet, Streaming, Bindings

(* The settings, and all that follows from them, stay. *)
LEMMA WorldStays ==
  ASSUME world' = world
  PROVE  /\ Settled' = Settled
         /\ Report' = Report
         /\ \A why : Founded(why)' = Founded(why)
         /\ \A bk : OfBindings(bk)' = OfBindings(bk)
<1>1. Found' = Found BY DEF Found
<1>2. Report' = Report BY <1>1 DEF Report
<1>3. Settled' = Settled BY <1>1 DEF Settled
<1>4. StreamSheets' = StreamSheets /\ NormalSheets' = NormalSheets
  BY <1>2 DEF StreamSheets, NormalSheets, Streaming, Bindings
<1>5. \A bk : OfBindings(bk)' = OfBindings(bk) BY <1>4 DEF OfBindings
<1>6. OpensTemplate(Report)' = OpensTemplate(Report)
  BY <1>2 DEF OpensTemplate, ResolvesTemplate, TemplateDirs
<1>7. \A why : Founded(why)' = Founded(why) BY <1>3, <1>6 DEF Founded
<1>. QED BY <1>2, <1>3, <1>5, <1>7

(* A step of one generation, which leads to where it may be. *)
LEMMA Moved ==
  ASSUME GenInv, DInv', world' = world,
         NEW g \in Links, NEW p \in Phases, NEW l, NEW why \in Reasons, NEW bk,
         phase' = [phase EXCEPT ![g] = p],
         link' = [link EXCEPT ![g] = l],
         reason' = [reason EXCEPT ![g] = why],
         book' = [book EXCEPT ![g] = bk],
         at' \in [Links -> Nat \ {0}],
         ended' \in [Links -> BOOLEAN],
         StageFits(p, l, why),
         Founded(why),
         p \in {"query", "write", "saved"} => Settled,
         p \in {"write", "saved"} => OfBindings(bk)
  PROVE  GenInv'
<1>0. link \in [Links -> {"idle", "generating", "store", "open", "sent", "failed"}] BY DEF GenInv, DInv, DTypeOK
<1>1. GTypes'
  <2>1. phase' \in [Links -> Phases] BY DEF GenInv, GTypes
  <2>2. reason' \in [Links -> Reasons] BY DEF GenInv, GTypes
  <2>3. book' = [h \in Links |-> book'[h]] BY DEF GenInv, GTypes
  <2>. QED BY <2>1, <2>2, <2>3 DEF GenInv, GTypes
<1>2. ASSUME NEW h \in Links
      PROVE  /\ StageFits(phase'[h], link'[h], reason'[h])
             /\ Founded(reason'[h])
             /\ phase'[h] \in {"query", "write", "saved"} => Settled
             /\ phase'[h] \in {"write", "saved"} => OfBindings(book'[h])
  <2>1. CASE h = g
    <3>1. phase'[g] = p /\ link'[g] = l /\ reason'[g] = why /\ book'[g] = bk BY <1>0 DEF GenInv, GTypes
    <3>. QED BY <2>1, <3>1
  <2>2. CASE h # g
    <3>1. phase'[h] = phase[h] /\ link'[h] = link[h] /\ reason'[h] = reason[h] BY <2>2, <1>0 DEF GenInv, GTypes
    <3>2. book'[h] = book[h] BY <2>2 DEF GenInv, GTypes
    <3>. QED BY <2>2, <3>1, <3>2 DEF GenInv
  <2>. QED BY <2>1, <2>2
<1>3. ASSUME NEW h \in Links
      PROVE  /\ StageFits(phase[h], link[h], reason[h])'
             /\ Founded(reason[h])'
             /\ (phase[h] \in {"query", "write", "saved"} => Settled)'
             /\ (phase[h] \in {"write", "saved"} => OfBindings(book[h]))'
  <2>1. Founded(reason[h])' BY <1>2, WorldStays DEF Founded
  <2>2. (phase[h] \in {"query", "write", "saved"} => Settled)' BY <1>2, WorldStays
  <2>3. (phase[h] \in {"write", "saved"} => OfBindings(book[h]))' BY <1>2, WorldStays DEF OfBindings
  <2>. QED BY <1>2, <2>1, <2>2, <2>3 DEF StageFits
<1>. QED BY <1>1, <1>3 DEF GenInv

(* A generation fails for a reason that holds. *)
LEMMA FailKeeps ==
  ASSUME GenInv, NEW g \in Links, NEW why \in Reasons, why # "", Fail(g, why), Founded(why)
  PROVE  GenInv'
<1>1. DInv' BY FailIsLinkStep, NextDInv DEF GenInv
<1>2. link' = [link EXCEPT ![g] = "failed"] BY DEF Fail, GenerationFails, Goto
<1>3. book' = [book EXCEPT ![g] = book[g]] BY DEF Fail, GenInv, GTypes
<1>4. phase' = [phase EXCEPT ![g] = "failed"] /\ reason' = [reason EXCEPT ![g] = why] /\ world' = world
  BY DEF Fail
<1>5. at' \in [Links -> Nat \ {0}] /\ ended' \in [Links -> BOOLEAN] BY DEF Fail, GenInv, GTypes
<1>6. StageFits("failed", "failed", why) BY DEF StageFits
<1>. QED BY <1>1, <1>2, <1>3, <1>4, <1>5, <1>6, Moved DEF Phases

(* A generation goes on, to phase p with the workbook bk. *)
LEMMA GoesOn ==
  ASSUME GenInv, NEW g \in Links, NEW p \in {"prepare", "query", "write"}, NEW bk,
         Stay, UNCHANGED <<world, reason>>,
         phase' = [phase EXCEPT ![g] = p],
         book' = [book EXCEPT ![g] = bk],
         at' \in [Links -> Nat \ {0}],
         ended' \in [Links -> BOOLEAN],
         phase[g] \in {"prepare", "query", "write"},
         p \in {"query", "write"} => Settled,
         p = "write" => OfBindings(bk)
  PROVE  GenInv'
<1>1. DInv' BY StayStutters, NextDInv DEF GenInv
<1>2. link \in [Links -> {"idle", "generating", "store", "open", "sent", "failed"}] BY DEF GenInv, DInv, DTypeOK
<1>3. link' = [link EXCEPT ![g] = link[g]] BY <1>2 DEF Stay
<1>4. reason' = [reason EXCEPT ![g] = reason[g]] /\ reason[g] \in Reasons BY DEF GenInv, GTypes
<1>5. StageFits(phase[g], link[g], reason[g]) /\ Founded(reason[g]) BY DEF GenInv
<1>6. StageFits(p, link[g], reason[g]) BY <1>5 DEF StageFits
<1>7. p \in Phases /\ p \notin {"none", "saved", "failed"} BY DEF Phases
<1>8. p \in {"query", "write", "saved"} => Settled BY <1>7
<1>9. p \in {"write", "saved"} => OfBindings(bk) BY <1>7
<1>10. world' = world OBVIOUS
<1>. QED BY <1>1, <1>3, <1>4, <1>5, <1>6, <1>7, <1>8, <1>9, <1>10, Moved

-----------------------------------------------------------------------------
(* The steps of a generation *)

LEMMA InPhase ==
  ASSUME GenInv, NEW g \in Links
  PROVE  /\ StageFits(phase[g], link[g], reason[g])
         /\ phase[g] \in Phases /\ at[g] \in Nat \ {0} /\ ended[g] \in BOOLEAN
         /\ phase[g] \in {"query", "write", "saved"} => Settled
         /\ phase[g] \in {"write", "saved"} => OfBindings(book[g])
BY DEF GenInv, GTypes

LEMMA ReceiveKeeps == ASSUME GenInv, NEW g \in Links, Receive(g) PROVE GenInv'
<1>1. DInv'
  <2>1. DNext BY DEF Receive, DNext, LinkStep
  <2>. QED BY <2>1, NextDInv DEF GenInv
<1>2. /\ link' = [link EXCEPT ![g] = "generating"]
      /\ phase[g] = "none"
      /\ phase' = [phase EXCEPT ![g] = "prepare"]
  BY DEF Receive, Begin, Goto, Advance
<1>3. /\ reason' = [reason EXCEPT ![g] = reason[g]] /\ reason[g] \in Reasons
      /\ book' = [book EXCEPT ![g] = book[g]]
      /\ at' \in [Links -> Nat \ {0}] /\ ended' \in [Links -> BOOLEAN] /\ world' = world
  BY DEF Receive, GenInv, GTypes
<1>4. Founded(reason[g]) BY DEF GenInv
<1>5. StageFits("prepare", "generating", reason[g]) BY <1>2, InPhase DEF StageFits
<1>. QED BY <1>1, <1>2, <1>3, <1>4, <1>5, Moved DEF Phases

LEMMA PrepareKeeps == ASSUME GenInv, NEW g \in Links, Prepare(g) PROVE GenInv'
<1>1. CASE ~ValidCatalog(world.reports)
  <2>1. Fail(g, "catalog") BY <1>1 DEF Prepare
  <2>. QED BY <1>1, <2>1, FailKeeps DEF Founded, Reasons
<1>2. ASSUME Fail(g, "unknown") \/ Fail(g, "time") PROVE GenInv'
  BY <1>2, FailKeeps DEF Founded, Reasons
<1>3. CASE Settled /\ ~(Fail(g, "time"))
  <2>1. Advance(g, "prepare", "query") /\ Stay /\ UNCHANGED <<world, at, results, book, ended, reason>>
    BY <1>3 DEF Prepare, Settled
  <2>2. phase[g] = "prepare" /\ phase' = [phase EXCEPT ![g] = "query"] BY <2>1 DEF Advance
  <2>3. book' = [book EXCEPT ![g] = book[g]] /\ at' \in [Links -> Nat \ {0}] /\ ended' \in [Links -> BOOLEAN]
    BY <2>1 DEF GenInv, GTypes
  <2>. QED BY <1>3, <2>1, <2>2, <2>3, GoesOn
<1>4. ~ValidCatalog(world.reports) \/ Fail(g, "unknown") \/ Fail(g, "time") \/ Settled
  BY DEF Prepare, Settled
<1>. QED BY <1>1, <1>2, <1>3, <1>4

LEMMA ContextEndsKeeps == ASSUME GenInv, NEW g \in Links, ContextEnds(g) PROVE GenInv'
<1>1. /\ phase[g] \in {"query", "write"} /\ Stay /\ world' = world /\ reason' = reason
      /\ phase' = phase /\ book' = book /\ at' = at /\ ended' = [ended EXCEPT ![g] = TRUE]
  BY DEF ContextEnds
<1>2. phase' = [phase EXCEPT ![g] = phase[g]] /\ book' = [book EXCEPT ![g] = book[g]]
  BY <1>1 DEF GenInv, GTypes
<1>3. at' \in [Links -> Nat \ {0}] /\ ended' \in [Links -> BOOLEAN] BY <1>1 DEF GenInv, GTypes
<1>4. phase[g] \in {"prepare", "query", "write"} BY <1>1
<1>. QED BY <1>1, <1>2, <1>3, <1>4, InPhase, GoesOn

LEMMA CollectKeeps ==
  ASSUME GenInv, NEW g \in Links, phase[g] = "query", NEW shapes, Collect(g, shapes)
  PROVE  GenInv'
<1>1. CASE Fail(g, "rows") BY <1>1, FailKeeps DEF Founded, Reasons
<1>2. CASE ~Fail(g, "rows")
  <2>1. at' = [at EXCEPT ![g] = @ + 1] /\ Stay /\ UNCHANGED <<world, phase, book, ended, reason>>
    BY <1>2 DEF Collect
  <2>2. phase' = [phase EXCEPT ![g] = "query"] /\ book' = [book EXCEPT ![g] = book[g]]
    BY <2>1 DEF GenInv, GTypes
  <2>3. at' \in [Links -> Nat \ {0}] /\ ended' \in [Links -> BOOLEAN] BY <2>1 DEF GenInv, GTypes
  <2>. QED BY <2>1, <2>2, <2>3, InPhase, GoesOn
<1>. QED BY <1>1, <1>2

LEMMA QueryBindingKeeps == ASSUME GenInv, NEW g \in Links, QueryBinding(g) PROVE GenInv'
<1>1. phase[g] = "query" BY DEF QueryBinding
<1>2. ASSUME RunBinding(g) PROVE GenInv'
  <2>1. \/ Fail(g, "async") \/ Fail(g, "query") \/ Fail(g, "answer")
        \/ \E shapes : Collect(g, shapes)
    BY <1>2 DEF RunBinding
  <2>. QED BY <1>1, <2>1, FailKeeps, CollectKeeps DEF Founded, Reasons
<1>3. ASSUME BuildSubmitted(g) PROVE GenInv'
  <2>1. Fail(g, "frames") \/ \E shapes : Collect(g, shapes) BY <1>3 DEF BuildSubmitted
  <2>. QED BY <1>1, <2>1, FailKeeps, CollectKeeps DEF Founded, Reasons
<1>4. Fail(g, "ended") \/ RunBinding(g) \/ BuildSubmitted(g) BY DEF QueryBinding
<1>. QED BY <1>2, <1>3, <1>4, FailKeeps DEF Founded, Reasons

LEMMA OpenWorkbookKeeps == ASSUME GenInv, NEW g \in Links, OpenWorkbook(g) PROVE GenInv'
<1>1. phase[g] = "query" /\ Settled BY InPhase DEF OpenWorkbook
<1>2. CASE ~OpensTemplate(Report)
  <2>1. Fail(g, "template") BY <1>2 DEF OpenWorkbook
  <2>. QED BY <1>1, <1>2, <2>1, FailKeeps DEF Founded, Reasons
<1>3. CASE OpensTemplate(Report)
  <2>. DEFINE bk == IF Report.template = "" THEN EmptyBook
                    ELSE [EmptyBook EXCEPT !.cells = [p \in {world.cell} |-> TemplateCell]]
  <2>1. /\ book' = [book EXCEPT ![g] = bk]
        /\ at' = [at EXCEPT ![g] = 1]
        /\ phase' = [phase EXCEPT ![g] = "write"]
        /\ Stay
        /\ UNCHANGED <<world, results, ended, reason>>
    BY <1>3 DEF OpenWorkbook, Advance
  <2>. HIDE DEF bk
  <2>2. at' \in [Links -> Nat \ {0}] /\ ended' \in [Links -> BOOLEAN]
    <3>1. 1 \in Nat \ {0} OBVIOUS
    <3>2. at \in [Links -> Nat \ {0}] /\ ended \in [Links -> BOOLEAN] BY DEF GenInv, GTypes
    <3>. QED BY <2>1, <3>1, <3>2
  <2>3. DOMAIN bk = {"cells", "streams", "normal"} /\ bk.streams = <<>> /\ bk.normal = {} BY DEF EmptyBook, bk
  <2>4. OfBindings(bk) BY <2>3 DEF OfBindings, IsBook, Streamed, ToSet
  <2>. QED BY <1>1, <2>1, <2>2, <2>4, GoesOn
<1>. QED BY <1>2, <1>3

(* Writing a stream makes a writer for its sheet at most; another sheet has   *)
(* the writer it had.                                                         *)
LEMMA StreamWriterKeeps ==
  ASSUME NEW bk, NEW sheet, IsBook(bk)
  PROVE  /\ IsBook(StreamWriter(bk, sheet))
         /\ Streamed(StreamWriter(bk, sheet)) = Streamed(bk) \cup {sheet}
         /\ StreamWriter(bk, sheet).normal = bk.normal
<1>1. CASE sheet \in Streamed(bk) BY <1>1 DEF StreamWriter
<1>2. CASE sheet \notin Streamed(bk)
  <2>. DEFINE w == [sheet |-> sheet, cells |-> <<>>, lastRow |-> 0]
              old == bk.streams
              with == StreamWriter(bk, sheet)
  <2>1. with = [bk EXCEPT !.streams = Append(old, w)] BY <1>2 DEF StreamWriter
  <2>2. DOMAIN w = {"sheet", "cells", "lastRow"} /\ w.sheet = sheet OBVIOUS
  <2>3. old \in Seq(ToSet(old)) BY DEF IsBook
  <2>. HIDE DEF w, old, with
  <2>4. /\ Append(old, w) \in Seq(ToSet(old) \cup {w})
        /\ DOMAIN Append(old, w) = DOMAIN old \cup {Len(old) + 1}
        /\ Append(old, w)[Len(old) + 1] = w
        /\ \A i \in DOMAIN old : Append(old, w)[i] = old[i]
    BY <2>3
  <2>5. /\ with.streams = Append(old, w) /\ with.normal = bk.normal
        /\ DOMAIN with = {"cells", "streams", "normal"}
    BY <2>1 DEF IsBook
  <2>6. \A i \in DOMAIN old : DOMAIN old[i] = {"sheet", "cells", "lastRow"} BY DEF IsBook, old
  <2>7. IsBook(with) BY <2>2, <2>4, <2>5, <2>6, SeqOfItself DEF IsBook
  <2>8. Streamed(with) = {old[i].sheet : i \in DOMAIN old} \cup {w.sheet} BY <2>4, <2>5 DEF Streamed
  <2>9. Streamed(bk) = {old[i].sheet : i \in DOMAIN old} BY DEF Streamed, old
  <2>. QED BY <2>2, <2>5, <2>7, <2>8, <2>9 DEF with
<1>. QED BY <1>1, <1>2

LEMMA WriteStreamKeeps ==
  ASSUME NEW bk, NEW binding, NEW cells, IsBook(bk)
  PROVE  /\ IsBook(WriteStream(bk, binding, cells))
         /\ Streamed(WriteStream(bk, binding, cells)) = Streamed(bk) \cup {binding.sheet}
         /\ WriteStream(bk, binding, cells).normal = bk.normal
<1>. DEFINE with == StreamWriter(bk, binding.sheet)
            i == StreamOf(with, binding.sheet)
            old == with.streams
            row == Max(RowsOf(cells) \cup {old[i].lastRow})
            all == Over(cells, old[i].cells)
            w == [[old[i] EXCEPT !.cells = all] EXCEPT !.lastRow = row]
            new == [old EXCEPT ![i] = w]
            written == WriteStream(bk, binding, cells)
<1>1. IsBook(with) /\ Streamed(with) = Streamed(bk) \cup {binding.sheet} /\ with.normal = bk.normal
  BY StreamWriterKeeps
<1>2. i \in DOMAIN old BY <1>1 DEF Streamed, StreamOf
<1>3. written.streams = new /\ written.normal = with.normal /\ DOMAIN written = DOMAIN with
  <2>1. DOMAIN with = {"cells", "streams", "normal"} BY <1>1 DEF IsBook
  <2>. QED BY <1>2, <2>1 DEF WriteStream
<1>4. DOMAIN old[i] = {"sheet", "cells", "lastRow"} BY <1>1, <1>2 DEF IsBook
<1>. HIDE DEF row, all
<1>5. DOMAIN w = {"sheet", "cells", "lastRow"} /\ w.sheet = old[i].sheet BY <1>4
<1>. HIDE DEF w, i
<1>6. old \in Seq(ToSet(old)) BY <1>1 DEF IsBook
<1>7. /\ new \in Seq(ToSet(old) \cup {w}) /\ DOMAIN new = DOMAIN old /\ new[i] = w
      /\ \A k \in DOMAIN old : k # i => new[k] = old[k]
  <2>. HIDE DEF old
  <2>. QED BY <1>2, <1>6
<1>. HIDE DEF new
<1>8. \A k \in DOMAIN new : DOMAIN new[k] = {"sheet", "cells", "lastRow"} /\ new[k].sheet = old[k].sheet
  <2>1. \A k \in DOMAIN old : DOMAIN old[k] = {"sheet", "cells", "lastRow"} BY <1>1 DEF IsBook
  <2>. HIDE DEF old
  <2>. QED BY <1>5, <1>7, <2>1
<1>9. IsBook(written)
  <2>1. DOMAIN written = {"cells", "streams", "normal"} BY <1>1, <1>3 DEF IsBook
  <2>2. new \in Seq(ToSet(new)) BY <1>7, SeqOfItself
  <2>. QED BY <1>3, <1>8, <2>1, <2>2 DEF IsBook
<1>10. Streamed(written) = Streamed(with)
  <2>1. Streamed(written) = {new[k].sheet : k \in DOMAIN new} BY <1>3 DEF Streamed
  <2>. QED BY <1>7, <1>8, <2>1 DEF Streamed
<1>. QED BY <1>1, <1>3, <1>9, <1>10

LEMMA WriteNormalKeeps ==
  ASSUME NEW bk, NEW binding, NEW cells, IsBook(bk)
  PROVE  /\ IsBook(WriteNormal(bk, binding, cells))
         /\ Streamed(WriteNormal(bk, binding, cells)) = Streamed(bk)
         /\ WriteNormal(bk, binding, cells).normal = bk.normal \cup {binding.sheet}
<1>. DEFINE all == Over(cells, ClearRange(bk.cells, binding))
            written == WriteNormal(bk, binding, cells)
<1>1. written = [bk EXCEPT !.cells = all, !.normal = bk.normal \cup {binding.sheet}] BY DEF WriteNormal
<1>. HIDE DEF all, written
<1>2. DOMAIN bk = {"cells", "streams", "normal"} BY DEF IsBook
<1>3. /\ written.streams = bk.streams /\ written.normal = bk.normal \cup {binding.sheet}
      /\ DOMAIN written = {"cells", "streams", "normal"}
  BY <1>1, <1>2
<1>. QED BY <1>3 DEF IsBook, Streamed, written

(* A write that succeeds leaves a workbook of sheets of bindings. *)
LEMMA WrittenKeeps ==
  ASSUME GenInv, NEW g \in Links, phase[g] = "write", NEW bk, OfBindings(bk), Written(g, bk)
  PROVE  GenInv'
<1>1. /\ book' = [book EXCEPT ![g] = bk] /\ at' = [at EXCEPT ![g] = @ + 1]
      /\ Stay /\ UNCHANGED <<world, phase, results, ended, reason>>
  BY DEF Written
<1>2. phase' = [phase EXCEPT ![g] = "write"] BY <1>1 DEF GenInv, GTypes
<1>3. at' \in [Links -> Nat \ {0}] /\ ended' \in [Links -> BOOLEAN] BY <1>1 DEF GenInv, GTypes
<1>4. Settled BY InPhase
<1>. QED BY <1>1, <1>2, <1>3, <1>4, GoesOn

(* writeExcelReportBinding never meets a sheet written in the other way: the *)
(* catalog would not have been accepted.                                     *)
LEMMA WriteFramesKeeps ==
  ASSUME GenInv, NEW g \in Links, phase[g] = "write",
         NEW j \in DOMAIN Bindings, NEW cells, WriteFrames(g, Bindings[j], cells)
  PROVE  GenInv'
<1>. DEFINE b == Bindings[j]
            stream == Streaming(j)
<1>1. Settled /\ OfBindings(book[g]) /\ world \in Worlds BY InPhase DEF GenInv, GTypes
<1>2. stream => b.sheet \in StreamSheets BY DEF StreamSheets
<1>3. ~stream => b.sheet \in NormalSheets BY DEF NormalSheets
<1>4. ~(b.sheet \in (IF stream THEN book[g].normal ELSE Streamed(book[g])))
  BY <1>1, <1>2, <1>3, ModesApart DEF OfBindings
<1>5. \/ \E why \in {"clear", "cell", "order"} : Fail(g, why)
      \/ stream /\ Written(g, WriteStream(book[g], b, cells))
      \/ ~stream /\ Written(g, WriteNormal(book[g], b, cells))
  BY <1>4 DEF WriteFrames, Streaming
<1>. HIDE DEF b
<1>6. ASSUME NEW why \in {"clear", "cell", "order"}, Fail(g, why) PROVE GenInv'
  <2>1. why \in Reasons /\ why # "" /\ Founded(why) BY DEF Reasons, Founded
  <2>. QED BY <1>6, <2>1, FailKeeps
<1>7. ASSUME stream, Written(g, WriteStream(book[g], b, cells)) PROVE GenInv'
  <2>1. OfBindings(WriteStream(book[g], b, cells)) BY <1>1, <1>2, <1>7, WriteStreamKeeps DEF OfBindings
  <2>. QED BY <1>7, <2>1, WrittenKeeps
<1>8. ASSUME ~stream, Written(g, WriteNormal(book[g], b, cells)) PROVE GenInv'
  <2>1. OfBindings(WriteNormal(book[g], b, cells)) BY <1>1, <1>3, <1>8, WriteNormalKeeps DEF OfBindings
  <2>. QED BY <1>8, <2>1, WrittenKeeps
<1>. QED BY <1>5, <1>6, <1>7, <1>8

LEMMA WriteBindingKeeps == ASSUME GenInv, NEW g \in Links, WriteBinding(g) PROVE GenInv'
<1>1. phase[g] = "write" /\ at[g] =< Len(Bindings) BY DEF WriteBinding
<1>2. Settled /\ OfBindings(book[g]) /\ world \in Worlds /\ at[g] \in Nat \ {0}
  BY <1>1, InPhase DEF GenInv, GTypes
<1>3. at[g] \in DOMAIN Bindings
  <2>1. Bindings \in Seq(ToSet(Bindings)) BY <1>2, OneFound
  <2>2. DOMAIN Bindings = 1..Len(Bindings) /\ Len(Bindings) \in Nat BY <2>1
  <2>. QED BY <1>1, <1>2, <2>2
<1>4. \/ Fail(g, "ended")
      \/ Written(g, book[g])
      \/ \E cells : WriteFrames(g, Bindings[at[g]], cells)
  BY DEF WriteBinding, Binding
<1>5. ASSUME Fail(g, "ended") PROVE GenInv' BY <1>5, FailKeeps DEF Founded, Reasons
<1>. QED BY <1>1, <1>2, <1>3, <1>4, <1>5, WrittenKeeps, WriteFramesKeeps

LEMMA SaveKeeps == ASSUME GenInv, NEW g \in Links, Save(g) PROVE GenInv'
<1>1. phase[g] = "write" BY DEF Save
<1>2. CASE Fail(g, "size") BY <1>2, FailKeeps DEF Founded, Reasons
<1>3. CASE ~Fail(g, "size")
  <2>1. /\ Generated(g) /\ phase' = [phase EXCEPT ![g] = "saved"]
        /\ UNCHANGED <<world, at, results, book, ended, reason>>
    BY <1>3 DEF Save, Advance
  <2>2. DInv'
    <3>1. DNext BY <2>1 DEF DNext, LinkStep
    <3>. QED BY <3>1, NextDInv DEF GenInv
  <2>3. PICK l \in {"store", "sent"} : link' = [link EXCEPT ![g] = l] BY <2>1 DEF Generated, Goto
  <2>4. /\ book' = [book EXCEPT ![g] = book[g]] /\ reason' = [reason EXCEPT ![g] = reason[g]]
        /\ reason[g] \in Reasons
        /\ at' \in [Links -> Nat \ {0}] /\ ended' \in [Links -> BOOLEAN] /\ world' = world
    BY <2>1 DEF GenInv, GTypes
  <2>5. Founded(reason[g]) BY DEF GenInv
  <2>6. Settled /\ OfBindings(book[g]) BY <1>1, InPhase
  <2>7. StageFits("saved", l, reason[g]) BY <1>1, InPhase DEF StageFits
  <2>8. "saved" \in Phases BY DEF Phases
  <2>. QED BY <2>1, <2>2, <2>3, <2>4, <2>5, <2>6, <2>7, <2>8, Moved
<1>. QED BY <1>2, <1>3

(* The rest of the protocol touches no generation that is under way. *)
LEMMA OthersKeep ==
  ASSUME GenInv, [DNext]_dvars, UNCHANGED gvars,
         \A g \in Links : link'[g] = link[g] \/ (link[g] = "store" /\ link'[g] \in {"open", "failed"})
  PROVE  GenInv'
<1>1. DInv' BY NextDInv DEF GenInv
<1>2. UNCHANGED <<world, phase, at, results, book, ended, reason>> BY DEF gvars
<1>3. GTypes' BY <1>2 DEF GenInv, GTypes
<1>4. ASSUME NEW g \in Links
      PROVE  /\ StageFits(phase[g], link[g], reason[g])'
             /\ Founded(reason[g])'
             /\ (phase[g] \in {"query", "write", "saved"} => Settled)'
             /\ (phase[g] \in {"write", "saved"} => OfBindings(book[g]))'
  <2>1. StageFits(phase[g], link[g], reason[g])' BY <1>2 DEF GenInv, StageFits
  <2>2. Founded(reason[g])' BY <1>2, WorldStays DEF GenInv, Founded
  <2>3. (phase[g] \in {"query", "write", "saved"} => Settled)' BY <1>2, WorldStays DEF GenInv
  <2>4. (phase[g] \in {"write", "saved"} => OfBindings(book[g]))' BY <1>2, WorldStays DEF GenInv, OfBindings
  <2>. QED BY <2>1, <2>2, <2>3, <2>4
<1>. QED BY <1>1, <1>3, <1>4 DEF GenInv

LEMMA NextKeeps == ASSUME GenInv, [Next]_vars PROVE GenInv'
<1>0. link \in [Links -> {"idle", "generating", "store", "open", "sent", "failed"}] BY DEF GenInv, DInv, DTypeOK
<1>1. ASSUME NEW g \in Links, GenerateStep(g) PROVE GenInv'
  BY <1>1, ReceiveKeeps, PrepareKeeps, ContextEndsKeeps, QueryBindingKeeps, OpenWorkbookKeeps,
     WriteBindingKeeps, SaveKeeps
  DEF GenerateStep
<1>2. ASSUME StoreStep \/ TakeStep \/ WorldStep, UNCHANGED gvars PROVE GenInv'
  <2>1. DNext BY <1>2 DEF DNext
  <2>2. ASSUME NEW g \in Links
        PROVE  link'[g] = link[g] \/ (link[g] = "store" /\ link'[g] \in {"open", "failed"})
    <3>1. CASE StoreStep BY <1>0, <3>1 DEF StoreStep, StoreExcelReportDownload, TokenFails, Goto
    <3>2. CASE TakeStep BY <3>2 DEF TakeStep, TakeExcelReportDownload, Ask
    <3>3. CASE WorldStep BY <3>3 DEF WorldStep, Tick, Replace
    <3>. QED BY <1>2, <3>1, <3>2, <3>3
  <2>. QED BY <1>2, <2>1, <2>2, OthersKeep
<1>3. ASSUME UNCHANGED vars PROVE GenInv'
  <2>1. UNCHANGED dvars /\ UNCHANGED gvars BY <1>3 DEF vars
  <2>2. link' = link BY <2>1 DEF dvars
  <2>. QED BY <2>1, <2>2, OthersKeep
<1>. QED BY <1>1, <1>2, <1>3 DEF Next

THEOREM GenerationInductive == Spec => []GenInv
BY InitGenInv, NextKeeps, PTL DEF Spec

(* A generation is where its handler is, has a workbook while it writes one, *)
(* and fails with a reason.                                                  *)
THEOREM ReportTypeCorrect == Spec => []TypeOK
<1>1. GenInv => TypeOK
  <2>. SUFFICES ASSUME GenInv PROVE TypeOK OBVIOUS
  <2>1. DTypeOK BY DEF GenInv, DInv
  <2>2. \A g \in Links : StageFits(phase[g], link[g], reason[g]) BY DEF GenInv
  <2>3. \A g \in Links : phase[g] \in {"write", "saved"} => IsBook(book[g]) BY DEF GenInv, OfBindings
  <2>. QED BY <2>1, <2>2, <2>3 DEF TypeOK, GenInv, GTypes, Phases, StageFits
<1>. QED BY <1>1, GenerationInductive, PTL

(* No sheet of a workbook that is handed out is both streamed and written    *)
(* otherwise, whatever spellings of its name the bindings use: validating    *)
(* the modes by key is enough, and the writer's own maps, which are by name, *)
(* let nothing else through.                                                 *)
THEOREM SheetsUnmixed == Spec => []NoMixedSheet
<1>1. GenInv => NoMixedSheet
  <2>. SUFFICES ASSUME GenInv, NEW g \in Links, phase[g] = "saved",
                       NEW x \in Streamed(book[g]), NEW y \in book[g].normal
                PROVE  x.key # y.key
    BY DEF NoMixedSheet, Complete
  <2>1. Settled /\ OfBindings(book[g]) /\ world \in Worlds BY InPhase DEF GenInv, GTypes
  <2>. QED BY <2>1, ModesApart DEF OfBindings
<1>. QED BY <1>1, GenerationInductive, PTL

(* What report/validate accepted is never refused by a generation: not the   *)
(* catalog, not the template and not the modes of a sheet.                   *)
THEOREM ValidatedNeverRefused == Spec => []ValidationSound
<1>1. GenInv => ValidationSound
  <2>. SUFFICES ASSUME GenInv, Validated, NEW g \in Links
                PROVE  reason[g] \notin {"catalog", "template", "mixed"}
    BY DEF ValidationSound
  <2>1. Founded(reason[g]) /\ world \in Worlds BY DEF GenInv, GTypes
  <2>2. Settled => OpensTemplate(Report) BY <2>1, OneFound DEF Validated
  <2>. QED BY <2>1, <2>2 DEF Founded, Validated
<1>. QED BY <1>1, GenerationInductive, PTL

-----------------------------------------------------------------------------
(* The answers of kdb+ *)

LEMMA ParsedAnswer ==
  ASSUME GenInv, NEW g \in Parsing
  PROVE  WellFormed(Answer(g))
<1>1. Settled /\ world \in Worlds /\ at[g] \in Nat \ {0} /\ at[g] =< Len(Bindings)
  BY InPhase DEF Parsing, GenInv, GTypes
<1>2. /\ Bindings \in Seq(ToSet(Bindings)) /\ DOMAIN Bindings \subseteq DOMAIN world.answers
      /\ \A i \in DOMAIN world.answers : WellFormed(world.answers[i])
  BY <1>1, OneFound, WorldsAssumption DEF Bindings
<1>3. at[g] \in DOMAIN Bindings BY <1>1, <1>2
<1>. QED BY <1>2, <1>3 DEF Answer

(* To include the key columns of a grouped table puts them before the value  *)
(* columns and changes nothing else of its frames, unless a value is a       *)
(* string in a key's place.                                                  *)
THEOREM IncludedKeysOnlyAdd == Spec => []KeysOnlyAdd
<1>1. GenInv => KeysOnlyAdd
  <2>. SUFFICES ASSUME GenInv, NEW g \in Parsing, NEW o, o = Answer(g),
                       o.t = "dict", IsKeyedTable(o), GroupedTable(o, TRUE).tag = "frames",
                       ~(\E row \in 1..Size(o.key) : \E i \in 1..Len(o.key.cols) :
                           i =< Len(o.value.cols) /\ Row(o.value, row)[i].t = "chars")
                PROVE  /\ GroupedTable(o, FALSE).tag = "frames"
                       /\ \A row \in DOMAIN GroupedTable(o, TRUE).frames :
                            LET frame == GroupedTable(o, TRUE).frames[row]
                            IN SubSeq(frame, Len(o.key.cols) + 1, Len(frame)) = GroupedTable(o, FALSE).frames[row]
    BY Zenon DEF KeysOnlyAdd
  <2>1. Shaped(o.key) /\ Shaped(o.value) BY ParsedAnswer DEF WellFormed, Parts
  <2>. QED BY <2>1, GroupedWithKeys
<1>. QED BY <1>1, GenerationInductive, PTL

LEMMA ParsedResult ==
  ASSUME GenInv, NEW g \in Parsing
  PROVE  /\ ResultOf(g).tag = "panic" =>
              \/ Answer(g).t = "table" /\ ~PlainTable(Answer(g))
              \/ /\ Answer(g).t = "dict"
                 /\ IF IsKeyedTable(Answer(g))
                    THEN ~(PlainTable(Answer(g).key) /\ PlainTable(Answer(g).value))
                    ELSE ~PlainList(Answer(g).value)
         /\ \A i \in DOMAIN ResultOf(g).frames : \E n \in Nat : DOMAIN ResultOf(g).frames[i] = 1..n
         /\ NotRagged(Answer(g), Binding(g).panopticon, Binding(g).includeKeys) => AllEven(ResultOf(g))
         /\ Binding(g).panopticon /\ IsDictList(Answer(g)) /\ ResultOf(g).tag = "frames" =>
              /\ NamesOf(ResultOf(g).frames[1]) = AllNames(Answer(g).items)
              /\ \A c \in DOMAIN ResultOf(g).frames[1] : ShowsRows(ResultOf(g).frames[1][c], Answer(g).items)
<1>1. WellFormed(Answer(g)) BY ParsedAnswer
<1>2. ResultOf(g) = Parse(Answer(g), Binding(g).panopticon, Binding(g).includeKeys, Binding(g).time)
  BY Zenon DEF ResultOf, QueryResult
<1>. DEFINE o == Answer(g)
            panopticon == Binding(g).panopticon
            includeKeys == Binding(g).includeKeys
            time == Binding(g).time
            result == ResultOf(g)
<1>. HIDE DEF o, panopticon, includeKeys, time, result
<1>3. WellFormed(o) /\ result = Parse(o, panopticon, includeKeys, time)
  BY <1>1, <1>2, Zenon DEF o, panopticon, includeKeys, time, result
<1>4. /\ result.tag = "panic" =>
           \/ o.t = "table" /\ ~PlainTable(o)
           \/ o.t = "dict" /\ IF IsKeyedTable(o) THEN ~(PlainTable(o.key) /\ PlainTable(o.value)) ELSE ~PlainList(o.value)
      /\ \A i \in DOMAIN result.frames : \E n \in Nat : DOMAIN result.frames[i] = 1..n
      /\ NotRagged(o, panopticon, includeKeys) => AllEven(result)
      /\ panopticon /\ IsDictList(o) /\ result.tag = "frames" =>
           /\ NamesOf(result.frames[1]) = AllNames(o.items)
           /\ \A c \in DOMAIN result.frames[1] : ShowsRows(result.frames[1][c], o.items)
  BY <1>3, ParseIs
<1>. QED BY <1>4, Zenon DEF o, panopticon, includeKeys, time, result

(* Only tables, dictionaries and functions nested in the place of a column or *)
(* of a value make the parser panic, whatever kdb+ answers.                  *)
THEOREM PlainAnswersParse == Spec => []OnlyNestedValuesPanic
<1>1. GenInv => OnlyNestedValuesPanic BY ParsedResult, Zenon DEF OnlyNestedValuesPanic
<1>. QED BY <1>1, GenerationInductive, PTL

(* Whatever kdb+ answers, the columns of a frame are as long as the first is, *)
(* unless the lists in the answer are of several lengths.                    *)
THEOREM EvenFrames == Spec => []FramesRectangular
<1>1. ASSUME GenInv, NEW g \in Parsing, ~Ragged(Binding(g), Answer(g)), NEW i \in DOMAIN ResultOf(g).frames,
             NEW c \in DOMAIN ResultOf(g).frames[i]
      PROVE  Len(ResultOf(g).frames[i][c].cells) = Len(ResultOf(g).frames[i][1].cells)
  <2>. DEFINE o == Answer(g)
              frame == ResultOf(g).frames[i]
  <2>1. NotRagged(o, Binding(g).panopticon, Binding(g).includeKeys)
    <3>1. ASSUME o.t = "dict", ~Binding(g).panopticon, IsKeyedTable(o) PROVE KeyItemsScalar(o, Binding(g).includeKeys)
      BY <1>1, <3>1, Zenon DEF Ragged, KeyItemsScalar, Scalar
    <3>2. ASSUME o.t = "dict", ~IsKeyedTable(o), IsDict(o) PROVE ValuesFit(o)
      BY <1>1, <3>2, Zenon DEF Ragged, ValuesFit, Scalar
    <3>. QED BY <3>1, <3>2, Zenon DEF NotRagged
  <2>2. Even(frame) BY <1>1, <2>1, ParsedResult, Zenon DEF AllEven
  <2>3. PICK n \in Nat : DOMAIN frame = 1..n BY <1>1, ParsedResult, Zenon
  <2>4. 1 \in DOMAIN frame BY <1>1, <2>3
  <2>. QED BY <1>1, <2>2, <2>4, Zenon DEF Even
<1>2. GenInv => FramesRectangular BY <1>1, Zenon DEF FramesRectangular
<1>. QED BY <1>2, GenerationInductive, PTL

(* Rows sent as dictionaries make a frame with a column for every name that a *)
(* row has, in which each row has its own values and null elsewhere.         *)
THEOREM EveryRowShown == Spec => []RowDictsUnion
<1>1. GenInv => RowDictsUnion
  <2>. SUFFICES ASSUME GenInv, NEW g \in Parsing, Binding(g).panopticon, IsDictList(Answer(g)), ResultOf(g).tag = "frames"
                PROVE  /\ NamesOf(ResultOf(g).frames[1]) = AllNames(Answer(g).items)
                       /\ \A c \in DOMAIN ResultOf(g).frames[1] : ShowsRows(ResultOf(g).frames[1][c], Answer(g).items)
    BY Zenon DEF RowDictsUnion, NamesOf, AllNames, ShowsRows, CellShows, ValuesUnder
  <2>. QED BY ParsedResult, Zenon
<1>. QED BY <1>1, GenerationInductive, PTL

-----------------------------------------------------------------------------
(* The frames in a workbook.  While the bindings are collected there are     *)
(* shapes for those before; while they are written the workbook fits those   *)
(* before, and once it is saved it fits them all.                            *)

Gathered(p, k, r, bk) ==
  /\ p \in {"none", "prepare"} => k = 1 /\ r = <<>>
  /\ p = "query" => r \in Seq(Shapes) /\ Len(r) = k - 1 /\ k =< Len(Bindings) + 1
  /\ p = "write" => r \in Seq(Shapes) /\ Len(r) = Len(Bindings) /\ k =< Len(Bindings) + 1 /\ BookFits(bk, r, k)
  /\ p = "saved" => r \in Seq(Shapes) /\ Len(r) = Len(Bindings) /\ BookFits(bk, r, Len(Bindings) + 1)

SheetInv ==
  /\ results = [g \in Links |-> results[g]]
  /\ \A g \in Links : Gathered(phase[g], at[g], results[g], book[g])

LEMMA BindingsAre ==
  ASSUME world \in Worlds, Settled
  PROVE  /\ Len(Bindings) \in Nat /\ DOMAIN Bindings = 1..Len(Bindings)
         /\ \A j \in DOMAIN Bindings : Bindings[j].row \in Nat /\ Bindings[j].col \in Nat
         /\ DOMAIN Bindings \subseteq DOMAIN world.answers
         /\ SameModesPerSheet(Report)
<1>1. Bindings \in Seq(ToSet(Bindings)) /\ SameModesPerSheet(Report) BY OneFound DEF ValidReport
<1>2. Len(Bindings) \in Nat /\ DOMAIN Bindings = 1..Len(Bindings) BY <1>1
<1>3. PICK i \in DOMAIN world.reports : Report = world.reports[i] BY OneFound
<1>4. /\ \A j \in DOMAIN Bindings : Bindings[j].row \in Nat /\ Bindings[j].col \in Nat
      /\ DOMAIN Bindings \subseteq DOMAIN world.answers
  BY <1>3, WorldsAssumption DEF Bindings
<1>. QED BY <1>1, <1>2, <1>4

LEMMA GatheredStays ==
  ASSUME world' = world, NEW p, NEW k, NEW r, NEW bk
  PROVE  Gathered(p, k, r, bk)' <=> Gathered(p, k, r, bk)
<1>1. Report' = Report BY WorldStays
<1>2. Bindings' = Bindings BY <1>1 DEF Bindings
<1>3. \A i : Undisturbed(i)' <=> Undisturbed(i) BY <1>1, <1>2 DEF Undisturbed
<1>4. \A i : Streaming(i)' <=> Streaming(i) BY <1>1, <1>2 DEF Streaming
<1>5. \A i : CellsOf(r, i)' = CellsOf(r, i) BY <1>2 DEF CellsOf
<1>6. \A n : Drawn(bk, r, n)' <=> Drawn(bk, r, n) BY <1>2, <1>3, <1>5 DEF Drawn
<1>7. \A n : HaveStreams(bk, r, n)' <=> HaveStreams(bk, r, n) BY <1>2, <1>4 DEF HaveStreams
<1>8. \A n : BookFits(bk, r, n)' <=> BookFits(bk, r, n) BY <1>6, <1>7 DEF BookFits
<1>. QED BY <1>2, <1>8 DEF Gathered

MovesTo(g, p, k, r, bk) ==
  /\ phase' = [phase EXCEPT ![g] = p] /\ at' = [at EXCEPT ![g] = k]
  /\ results' = [results EXCEPT ![g] = r] /\ book' = [book EXCEPT ![g] = bk]

(* One generation moves, to where what it has gathered fits. *)
LEMMA Gathers ==
  ASSUME GenInv, SheetInv, world' = world,
         NEW g \in Links, NEW p, NEW k, NEW r, NEW bk, MovesTo(g, p, k, r, bk), Gathered(p, k, r, bk)
  PROVE  SheetInv'
<1>1. results' = [h \in Links |-> results'[h]] BY DEF SheetInv, MovesTo
<1>2. ASSUME NEW h \in Links PROVE Gathered(phase'[h], at'[h], results'[h], book'[h])
  <2>1. CASE h = g
    <3>1. phase'[g] = p /\ at'[g] = k /\ results'[g] = r /\ book'[g] = bk BY DEF GenInv, GTypes, SheetInv, MovesTo
    <3>. QED BY <2>1, <3>1
  <2>2. CASE h # g
    <3>1. phase'[h] = phase[h] /\ at'[h] = at[h] /\ results'[h] = results[h] /\ book'[h] = book[h]
      BY <2>2 DEF GenInv, GTypes, SheetInv, MovesTo
    <3>2. Gathered(phase[h], at[h], results[h], book[h]) BY DEF SheetInv
    <3>. QED BY <3>1, <3>2
  <2>. QED BY <2>1, <2>2
<1>3. ASSUME NEW h \in Links PROVE Gathered(phase[h], at[h], results[h], book[h])' BY <1>2, GatheredStays DEF Gathered
<1>. QED BY <1>1, <1>3 DEF SheetInv

LEMMA FailGathers == ASSUME GenInv, SheetInv, NEW g \in Links, NEW why, Fail(g, why) PROVE SheetInv'
<1>1. phase' = [phase EXCEPT ![g] = "failed"] /\ world' = world /\ at' = at /\ results' = results /\ book' = book
  BY DEF Fail
<1>2. at' = [at EXCEPT ![g] = at[g]] /\ results' = [results EXCEPT ![g] = results[g]] /\ book' = [book EXCEPT ![g] = book[g]]
  BY <1>1 DEF GenInv, GTypes, SheetInv
<1>3. Gathered("failed", at[g], results[g], book[g]) BY DEF Gathered
<1>4. MovesTo(g, "failed", at[g], results[g], book[g]) BY <1>1, <1>2 DEF MovesTo
<1>. QED BY <1>1, <1>3, <1>4, Gathers

(* Nothing is gathered by what only moves on. *)
LEMMA SameGathers ==
  ASSUME GenInv, SheetInv, NEW g \in Links, NEW p, UNCHANGED <<world, at, results, book>>,
         phase' = [phase EXCEPT ![g] = p], Gathered(p, at[g], results[g], book[g])
  PROVE  SheetInv'
<1>1. world' = world OBVIOUS
<1>2. at' = [at EXCEPT ![g] = at[g]] /\ results' = [results EXCEPT ![g] = results[g]] /\ book' = [book EXCEPT ![g] = book[g]]
  BY DEF GenInv, GTypes, SheetInv
<1>3. MovesTo(g, p, at[g], results[g], book[g]) BY <1>2 DEF MovesTo
<1>. QED BY <1>1, <1>3, Gathers

LEMMA ReceiveGathers == ASSUME GenInv, SheetInv, NEW g \in Links, Receive(g) PROVE SheetInv'
<1>1. phase[g] = "none" /\ phase' = [phase EXCEPT ![g] = "prepare"] /\ UNCHANGED <<world, at, results, book>>
  BY DEF Receive, Advance
<1>2. Gathered("prepare", at[g], results[g], book[g]) BY <1>1 DEF SheetInv, Gathered
<1>. QED BY <1>1, <1>2, SameGathers

LEMMA PrepareGathers == ASSUME GenInv, SheetInv, NEW g \in Links, Prepare(g) PROVE SheetInv'
<1>1. CASE \E why : Fail(g, why) BY <1>1, FailGathers
<1>2. CASE ~(\E why : Fail(g, why))
  <2>1. Settled /\ Advance(g, "prepare", "query") /\ UNCHANGED <<world, at, results, book>>
    BY <1>2 DEF Prepare, Settled
  <2>2. phase[g] = "prepare" /\ phase' = [phase EXCEPT ![g] = "query"] BY <2>1 DEF Advance
  <2>3. at[g] = 1 /\ results[g] = <<>> BY <2>2 DEF SheetInv, Gathered
  <2>4. Len(Bindings) \in Nat BY <2>1, BindingsAre DEF GenInv, GTypes
  <2>5. <<>> \in Seq(Shapes) /\ Len(<<>>) = 0 /\ 1 =< Len(Bindings) + 1 BY <2>4
  <2>6. Gathered("query", at[g], results[g], book[g]) BY <2>3, <2>5 DEF Gathered
  <2>. QED BY <2>1, <2>2, <2>6, SameGathers
<1>. QED BY <1>1, <1>2

LEMMA ContextEndsGathers == ASSUME GenInv, SheetInv, NEW g \in Links, ContextEnds(g) PROVE SheetInv'
<1>1. UNCHANGED <<world, at, results, book>> /\ phase' = phase BY DEF ContextEnds
<1>2. phase' = [phase EXCEPT ![g] = phase[g]] BY <1>1 DEF GenInv, GTypes
<1>. QED BY <1>1, <1>2, SameGathers DEF SheetInv

-----------------------------------------------------------------------------
(* Collecting *)

LEMMA CollectGathers ==
  ASSUME GenInv, SheetInv, NEW g \in Links, phase[g] = "query", at[g] =< Len(Bindings),
         NEW shapes \in Shapes, Collect(g, shapes)
  PROVE  SheetInv'
<1>1. CASE Fail(g, "rows") BY <1>1, FailGathers
<1>2. CASE ~Fail(g, "rows")
  <2>. DEFINE k == at[g]
              r == results[g]
              N == Len(Bindings)
  <2>1. /\ results' = [results EXCEPT ![g] = Append(r, shapes)] /\ at' = [at EXCEPT ![g] = k + 1]
        /\ UNCHANGED <<world, phase, book>>
    BY <1>2 DEF Collect
  <2>2. phase' = [phase EXCEPT ![g] = "query"] /\ book' = [book EXCEPT ![g] = book[g]] /\ world' = world
    BY <2>1 DEF GenInv, GTypes
  <2>3. k \in Nat \ {0} /\ N \in Nat /\ k =< N BY InPhase, BindingsAre DEF GenInv, GTypes
  <2>4. r \in Seq(Shapes) /\ Len(r) = k - 1 BY DEF SheetInv, Gathered
  <2>. HIDE DEF r, k, N
  <2>5. Append(r, shapes) \in Seq(Shapes) /\ Len(Append(r, shapes)) = (k + 1) - 1 /\ k + 1 =< N + 1 BY <2>3, <2>4
  <2>6. Gathered("query", k + 1, Append(r, shapes), book[g]) BY <2>5 DEF Gathered, N
  <2>7. MovesTo(g, "query", k + 1, Append(r, shapes), book[g]) BY <2>1, <2>2 DEF MovesTo
  <2>. QED BY <2>2, <2>6, <2>7, Gathers
<1>. QED BY <1>1, <1>2

LEMMA ShapesOfResult ==
  ASSUME NEW o, WellFormed(o), NEW panopticon, NEW includeKeys, NEW time
  PROVE  LET result == Parse(o, panopticon, includeKeys, time)
         IN [i \in DOMAIN result.frames |-> Shape(result.frames[i])] \in Shapes
<1>. DEFINE result == Parse(o, panopticon, includeKeys, time)
            shapes == [i \in DOMAIN result.frames |-> Shape(result.frames[i])]
            S == [width : Nat, rows : Nat]
<1>1. /\ \E n \in Nat : DOMAIN result.frames = 1..n
      /\ \A i \in DOMAIN result.frames : (\E n \in Nat : DOMAIN result.frames[i] = 1..n) /\ Measured(result.frames[i])
  BY ParseIs
<1>. HIDE DEF result
<1>2. ASSUME NEW frame, NEW n \in Nat, DOMAIN frame = 1..n, Measured(frame) PROVE Shape(frame) \in S
  <2>1. Len(frame) = n BY <1>2
  <2>2. n # 0 => Len(frame[1].cells) \in Nat BY <1>2 DEF Measured
  <2>. QED BY <2>1, <2>2 DEF Shape
<1>. HIDE DEF S
<1>3. PICK n \in Nat : DOMAIN result.frames = 1..n BY <1>1
<1>4. shapes \in [1..n -> S] BY <1>1, <1>2, <1>3
<1>5. shapes \in Seq(S) BY <1>4
<1>. QED BY <1>5 DEF Shapes, S, result

LEMMA SubmittedShapesAre ==
  ASSUME world \in Worlds, NEW b, NEW index \in Nat \ {0}
  PROVE  SubmittedShapes(b, index) \in Shapes
<1>. DEFINE names == {f.for : f \in ToSet(world.submitted)}
            T == [for : names, width : Nat, rows : Nat]
            S == [width : Nat, rows : Nat]
            sent == world.submitted
            Matching(f) == IF b.id \in f.for THEN <<f>> ELSE <<>>
            parts == [i \in DOMAIN sent |-> Matching(sent[i])]
            matching == FlattenSeq(parts)
            inPlace == IF index =< Len(sent) /\ sent[index].width > 0 THEN <<sent[index]>> ELSE <<>>
            chosen == IF matching # <<>> THEN matching ELSE inPlace
            shapes == [i \in DOMAIN chosen |-> [width |-> chosen[i].width, rows |-> chosen[i].rows]]
<1>1. sent \in Seq(T) BY WorldsAssumption
<1>2. \A f \in T : f.width \in Nat /\ f.rows \in Nat OBVIOUS
<1>. HIDE DEF T, sent
<1>3. Len(sent) \in Nat /\ DOMAIN sent = 1..Len(sent) /\ \A i \in DOMAIN sent : sent[i] \in T BY <1>1
<1>4. parts \in [1..Len(sent) -> Seq(T)] BY <1>3
<1>. HIDE DEF parts
<1>5. matching \in Seq(T) BY <1>3, <1>4, FlattenedSeq
<1>6. inPlace \in Seq(T) BY <1>3
<1>. HIDE DEF matching, inPlace
<1>7. chosen \in Seq(T) BY <1>5, <1>6
<1>8. SubmittedShapes(b, index) = shapes
  BY Zenon DEF SubmittedShapes, matching, inPlace, parts, sent
<1>. HIDE DEF chosen
<1>9. DOMAIN chosen = 1..Len(chosen) /\ Len(chosen) \in Nat /\ \A i \in DOMAIN chosen : chosen[i] \in T BY <1>7
<1>10. \A i \in DOMAIN chosen : [width |-> chosen[i].width, rows |-> chosen[i].rows] \in S BY <1>2, <1>9
<1>. HIDE DEF S
<1>11. shapes \in Seq(S) BY <1>9, <1>10
<1>. QED BY <1>8, <1>11 DEF Shapes, S

LEMMA QueryBindingGathers == ASSUME GenInv, SheetInv, NEW g \in Links, QueryBinding(g) PROVE SheetInv'
<1>1. phase[g] = "query" /\ at[g] =< Len(Bindings) BY DEF QueryBinding
<1>2. Settled /\ world \in Worlds /\ at[g] \in Nat \ {0} BY <1>1, InPhase DEF GenInv, GTypes
<1>3. at[g] \in DOMAIN world.answers BY <1>1, <1>2, BindingsAre
<1>4. WellFormed(world.answers[at[g]]) BY <1>2, <1>3, WorldsAssumption
<1>. DEFINE result == QueryResult(Binding(g), world.answers[at[g]])
            shapes == [i \in DOMAIN result.frames |-> Shape(result.frames[i])]
<1>5. shapes \in Shapes BY <1>4, ShapesOfResult DEF QueryResult
<1>6. ASSUME RunBinding(g) PROVE SheetInv'
  <2>1. (\E why : Fail(g, why)) \/ Collect(g, shapes) BY <1>6 DEF RunBinding
  <2>. QED BY <1>1, <1>5, <2>1, FailGathers, CollectGathers
<1>7. ASSUME BuildSubmitted(g) PROVE SheetInv'
  <2>1. SubmittedShapes(Binding(g), at[g]) \in Shapes BY <1>2, SubmittedShapesAre
  <2>2. (\E why : Fail(g, why)) \/ Collect(g, SubmittedShapes(Binding(g), at[g])) BY <1>7 DEF BuildSubmitted
  <2>. QED BY <1>1, <2>1, <2>2, FailGathers, CollectGathers
<1>8. Fail(g, "ended") \/ RunBinding(g) \/ BuildSubmitted(g) BY DEF QueryBinding
<1>. QED BY <1>6, <1>7, <1>8, FailGathers

-----------------------------------------------------------------------------
(* Writing *)

LEMMA OpenedFits ==
  ASSUME NEW r, NEW p, NEW bk, bk = EmptyBook \/ bk = [EmptyBook EXCEPT !.cells = [q \in {p} |-> TemplateCell]]
  PROVE  BookFits(bk, r, 1)
<1>1. DOMAIN <<>> = {} OBVIOUS
<1>2. bk.streams = <<>> /\ (bk.cells = <<>> \/ bk.cells = [q \in {p} |-> TemplateCell]) BY DEF EmptyBook
<1>3. \A q \in DOMAIN bk.cells : bk.cells[q] = TemplateCell BY <1>1, <1>2
<1>4. FromBefore(bk.cells, 1) BY <1>3 DEF FromBefore, TemplateCell
<1>5. \A i : i \notin 1..(1 - 1) OBVIOUS
<1>. QED BY <1>1, <1>2, <1>4, <1>5 DEF BookFits, OneStreamPerSheet, HaveStreams, Drawn

LEMMA OpenWorkbookGathers == ASSUME GenInv, SheetInv, NEW g \in Links, OpenWorkbook(g) PROVE SheetInv'
<1>1. CASE \E why : Fail(g, why) BY <1>1, FailGathers
<1>2. CASE ~(\E why : Fail(g, why))
  <2>. DEFINE bk == IF Report.template = "" THEN EmptyBook
                    ELSE [EmptyBook EXCEPT !.cells = [p \in {world.cell} |-> TemplateCell]]
              N == Len(Bindings)
              r == results[g]
  <2>1. /\ phase[g] = "query" /\ at[g] > N
        /\ book' = [book EXCEPT ![g] = bk] /\ at' = [at EXCEPT ![g] = 1]
        /\ phase' = [phase EXCEPT ![g] = "write"] /\ world' = world /\ results' = results
    BY <1>2 DEF OpenWorkbook, Advance
  <2>2. bk = EmptyBook \/ bk = [EmptyBook EXCEPT !.cells = [p \in {world.cell} |-> TemplateCell]] OBVIOUS
  <2>. HIDE DEF bk
  <2>3. BookFits(bk, r, 1) BY <2>2, OpenedFits
  <2>4. at[g] \in Nat /\ N \in Nat BY <2>1, InPhase, BindingsAre DEF GenInv, GTypes
  <2>5. r \in Seq(Shapes) /\ Len(r) = at[g] - 1 /\ at[g] =< N + 1 BY <2>1 DEF SheetInv, Gathered
  <2>. HIDE DEF N
  <2>6. Len(r) = N /\ 1 =< N + 1 BY <2>1, <2>4, <2>5
  <2>7. Gathered("write", 1, r, bk) BY <2>3, <2>5, <2>6 DEF Gathered, N
  <2>8. results' = [results EXCEPT ![g] = r] BY <2>1 DEF SheetInv
  <2>9. MovesTo(g, "write", 1, r, bk) BY <2>1, <2>8 DEF MovesTo
  <2>. QED BY <2>1, <2>7, <2>9, Gathers
<1>. QED BY <1>1, <1>2

LEMMA CellsFitThere ==
  ASSUME NEW k \in DOMAIN Bindings, Bindings[k].row \in Nat, NEW shapes \in Shapes, NEW cells,
         cells = BindingCells(Bindings[k], k, shapes), ~(\E row \in RowsOf(cells) : row > SheetRows)
  PROVE  CellsFit(cells, k)
<1>. DEFINE b == Bindings[k]
<1>1. \A p \in DOMAIN cells : \E n \in Filled(shapes) : p \in Place(b, shapes, n) BY BindingCellsAre
<1>2. \A n \in Filled(shapes) : \A p \in Place(b, shapes, n) : cells[p] = Shown(b, k, shapes, n, p) BY BindingCellsAre
<1>. HIDE DEF b
<1>3. ASSUME NEW p \in DOMAIN cells PROVE cells[p][1] = k /\ p[1] = b.sheet.key /\ p[2] \in 0..SheetRows
  <2>1. PICK n \in Filled(shapes) : p \in Place(b, shapes, n) BY <1>1
  <2>2. cells[p][1] = k BY <1>2, <2>1 DEF Shown
  <2>3. p[1] = b.sheet.key /\ p[2] \in Top(b, shapes, n)..(Top(b, shapes, n) + Lines(b, shapes[n]) - 1) BY <2>1, PlaceIs
  <2>4. Top(b, shapes, n) \in Nat /\ Lines(b, shapes[n]) \in Nat BY LinesAre, FramesBelow DEF Filled, b
  <2>5. p[2] \in Nat BY <2>3, <2>4
  <2>6. p[2] \in RowsOf(cells) BY DEF RowsOf
  <2>7. ~(p[2] > SheetRows) BY <2>6
  <2>8. p[2] \in 0..SheetRows BY <2>5, <2>7
  <2>. QED BY <2>2, <2>3, <2>8
<1>. QED BY <1>3 DEF CellsFit, RowsOf, b

(* A write that succeeds, of a workbook that fits one binding more. *)
LEMMA WrittenGathers ==
  ASSUME GenInv, SheetInv, NEW g \in Links, phase[g] = "write", at[g] =< Len(Bindings), NEW bk, Written(g, bk),
         BookFits(bk, results[g], at[g] + 1)
  PROVE  SheetInv'
<1>. DEFINE k == at[g]
            r == results[g]
            N == Len(Bindings)
<1>1. /\ book' = [book EXCEPT ![g] = bk] /\ at' = [at EXCEPT ![g] = k + 1] /\ world' = world
      /\ phase' = [phase EXCEPT ![g] = "write"] /\ results' = [results EXCEPT ![g] = r]
  BY DEF Written, GenInv, GTypes, SheetInv
<1>2. r \in Seq(Shapes) /\ Len(r) = N BY DEF SheetInv, Gathered
<1>3. k \in Nat /\ N \in Nat /\ k =< N BY InPhase, BindingsAre DEF GenInv, GTypes
<1>4. BookFits(bk, r, k + 1) OBVIOUS
<1>. HIDE DEF k, r, N
<1>5. k + 1 =< N + 1 BY <1>3
<1>6. Gathered("write", k + 1, r, bk) BY <1>2, <1>4, <1>5 DEF Gathered, N
<1>7. MovesTo(g, "write", k + 1, r, bk) BY <1>1 DEF MovesTo
<1>. QED BY <1>1, <1>6, <1>7, Gathers

LEMMA WriteBindingGathers == ASSUME GenInv, SheetInv, NEW g \in Links, WriteBinding(g) PROVE SheetInv'
<1>. DEFINE k == at[g]
            r == results[g]
            N == Len(Bindings)
            bk == book[g]
            cells == CellsOf(r, k)
<1>1. phase[g] = "write" /\ k =< N BY DEF WriteBinding
<1>2. Settled /\ OfBindings(bk) /\ world \in Worlds /\ k \in Nat \ {0} BY <1>1, InPhase DEF GenInv, GTypes
<1>3. /\ N \in Nat /\ DOMAIN Bindings = 1..N /\ SameModesPerSheet(Report)
      /\ \A j \in DOMAIN Bindings : Bindings[j].row \in Nat
  BY <1>2, BindingsAre
<1>4. r \in Seq(Shapes) /\ Len(r) = N /\ BookFits(bk, r, k) BY <1>1 DEF SheetInv, Gathered
<1>5. k \in DOMAIN Bindings /\ 1..(k - 1) \subseteq DOMAIN Bindings /\ r[k] \in Shapes
  <2>. HIDE DEF k, r, N
  <2>1. k \in 1..N /\ 1..(k - 1) \subseteq 1..N BY <1>1, <1>2, <1>3
  <2>2. r[k] \in Shapes BY <1>4, <2>1
  <2>. QED BY <1>3, <2>1, <2>2
<1>6. cells = BindingCells(Bindings[k], k, r[k]) BY DEF CellsOf
<1>7. \/ Fail(g, "ended")
      \/ r[k] = <<>> /\ Written(g, bk)
      \/ WriteFrames(g, Bindings[k], cells)
  BY <1>6 DEF WriteBinding, Binding
<1>8. ASSUME r[k] = <<>>, Written(g, bk) PROVE SheetInv'
  <2>1. DOMAIN cells = {} BY <1>6, <1>8, NothingWritten
  <2>. HIDE DEF cells
  <2>2. BookFits(bk, r, k + 1) BY <1>2, <1>4, <1>5, <1>8, <2>1, BookFitsWithout DEF cells
  <2>. QED BY <1>1, <1>8, <2>2, WrittenGathers
<1>9. ASSUME WriteFrames(g, Bindings[k], cells) PROVE SheetInv'
  <2>. DEFINE stream == Streaming(k)
              new == IF stream THEN WriteStream(bk, Bindings[k], cells) ELSE WriteNormal(bk, Bindings[k], cells)
  <2>1. CASE \E why : Fail(g, why) BY <2>1, FailGathers
  <2>2. CASE ~(\E why : Fail(g, why))
    <3>1. /\ ~(\E row \in RowsOf(cells) : row > SheetRows)
          /\ ~(stream /\ Descends(bk, Bindings[k], cells))
          /\ Written(g, new)
      <4>. HIDE DEF cells
      <4>. QED BY <1>9, <2>2 DEF WriteFrames, Streaming
    <3>2. CellsFit(cells, k) BY <1>3, <1>5, <1>6, <3>1, CellsFitThere
    <3>3. stream => Bindings[k].sheet \in StreamSheets BY <1>5 DEF StreamSheets
    <3>4. ~stream => Bindings[k].sheet \in NormalSheets BY <1>5 DEF NormalSheets
    <3>5. ASSUME stream PROVE BookFits(new, r, k + 1)
      <4>1. new = WriteStream(bk, Bindings[k], cells) BY <3>5
      <4>2. OfBindings(new) BY <1>2, <3>3, <3>5, <4>1, WriteStreamKeeps DEF OfBindings
      <4>3. ~Descends(bk, Bindings[k], cells) BY <3>1, <3>5
      <4>. HIDE DEF new
      <4>. QED BY <1>2, <1>4, <1>5, <3>2, <3>5, <4>1, <4>2, <4>3, RowsAssumption, BookFitsStreamed
    <3>6. ASSUME ~stream PROVE BookFits(new, r, k + 1)
      <4>1. new = WriteNormal(bk, Bindings[k], cells) BY <3>6
      <4>2. OfBindings(new) BY <1>2, <3>4, <3>6, <4>1, WriteNormalKeeps DEF OfBindings
      <4>. HIDE DEF new
      <4>. QED BY <1>2, <1>3, <1>4, <1>5, <3>2, <3>6, <4>1, <4>2, BookFitsNormal
    <3>. HIDE DEF new, cells
    <3>7. BookFits(new, r, k + 1) BY <3>5, <3>6
    <3>. QED BY <1>1, <3>1, <3>7, WrittenGathers
  <2>. QED BY <2>1, <2>2
<1>. QED BY <1>7, <1>8, <1>9, FailGathers

LEMMA SaveGathers == ASSUME GenInv, SheetInv, NEW g \in Links, Save(g) PROVE SheetInv'
<1>1. CASE \E why : Fail(g, why) BY <1>1, FailGathers
<1>2. CASE ~(\E why : Fail(g, why))
  <2>. DEFINE k == at[g]
              r == results[g]
              N == Len(Bindings)
              bk == book[g]
  <2>1. /\ phase[g] = "write" /\ k > N /\ phase' = [phase EXCEPT ![g] = "saved"] /\ UNCHANGED <<world, at, results, book>>
    BY <1>2 DEF Save, Advance
  <2>2. r \in Seq(Shapes) /\ Len(r) = N /\ k =< N + 1 /\ BookFits(bk, r, k) BY <2>1 DEF SheetInv, Gathered
  <2>3. k \in Nat /\ N \in Nat BY <2>1, InPhase, BindingsAre DEF GenInv, GTypes
  <2>. HIDE DEF k, r, N, bk
  <2>4. k = N + 1 BY <2>1, <2>2, <2>3
  <2>5. Gathered("saved", k, r, bk) BY <2>2, <2>4 DEF Gathered, N
  <2>. QED BY <2>1, <2>5, SameGathers DEF k, r, bk
<1>. QED BY <1>1, <1>2

LEMMA OthersGather == ASSUME GenInv, SheetInv, UNCHANGED gvars PROVE SheetInv'
<1>1. UNCHANGED <<world, phase, at, results, book>> BY DEF gvars
<1>2. ASSUME NEW g \in Links PROVE Gathered(phase[g], at[g], results[g], book[g])'
  <2>1. Gathered(phase[g], at[g], results[g], book[g]) BY DEF SheetInv
  <2>. QED BY <1>1, <2>1, GatheredStays DEF Gathered
<1>. QED BY <1>1, <1>2 DEF SheetInv

LEMMA NextGathers == ASSUME GenInv, SheetInv, [Next]_vars PROVE SheetInv'
<1>1. ASSUME NEW g \in Links, GenerateStep(g) PROVE SheetInv'
  BY <1>1, ReceiveGathers, PrepareGathers, ContextEndsGathers, QueryBindingGathers, OpenWorkbookGathers,
     WriteBindingGathers, SaveGathers
  DEF GenerateStep
<1>2. UNCHANGED vars => UNCHANGED gvars BY DEF vars
<1>. QED BY <1>1, <1>2, OthersGather DEF Next

LEMMA InitGathers == ASSUME Init PROVE SheetInv
<1>1. ASSUME NEW g \in Links PROVE Gathered(phase[g], at[g], results[g], book[g])
  <2>1. phase[g] = "none" /\ at[g] = 1 /\ results[g] = <<>> BY DEF Init
  <2>. QED BY <2>1 DEF Gathered
<1>2. results = [g \in Links |-> results[g]] BY DEF Init
<1>. QED BY <1>1, <1>2 DEF SheetInv

-----------------------------------------------------------------------------
(* What is handed out *)

LEMMA FrameIntact ==
  ASSUME GenInv, SheetInv, NEW g \in Links, phase[g] = "saved", NEW i \in DOMAIN Bindings, Undisturbed(i),
         NEW shapes, shapes = results[g][i],
         NEW n \in DOMAIN shapes, shapes[n].width * Lines(Bindings[i], shapes[n]) > 0
  PROVE  /\ shapes \in Shapes /\ n \in Filled(shapes)
         /\ Tops(g, i, n) = {Top(Bindings[i], shapes, n)}
         /\ Whole(g, i, n)
<1>. DEFINE b == Bindings[i]
            r == results[g]
            N == Len(Bindings)
            sheet == Saved(book[g], b.sheet.key)
            top == Top(b, shapes, n)
            place == Place(b, shapes, n)
<1>1. Settled /\ world \in Worlds BY InPhase DEF GenInv, GTypes
<1>2. N \in Nat /\ DOMAIN Bindings = 1..N /\ b.row \in Nat /\ b.col \in Nat BY <1>1, BindingsAre
<1>3. r \in Seq(Shapes) /\ Len(r) = N /\ BookFits(book[g], r, N + 1) BY DEF SheetInv, Gathered
<1>4. shapes \in Shapes
  <2>. HIDE DEF r, N
  <2>. QED BY <1>2, <1>3 DEF r
<1>5. Shows(sheet, i, BindingCells(b, i, shapes))
  <2>1. i \in 1..((N + 1) - 1) BY <1>2
  <2>2. Shows(sheet, i, CellsOf(r, i)) BY <1>3, <2>1 DEF BookFits, Drawn
  <2>. QED BY <2>2 DEF CellsOf
<1>6. shapes[n].width \in Nat /\ Lines(b, shapes[n]) \in Nat BY <1>4, LinesAre
<1>7. shapes[n].width > 0 /\ Lines(b, shapes[n]) > 0
  <2>1. shapes[n].width # 0 BY <1>6
  <2>2. Lines(b, shapes[n]) # 0 BY <1>6
  <2>. QED BY <1>6, <2>1, <2>2
<1>8. n \in Filled(shapes) BY <1>7 DEF Filled
<1>. HIDE DEF b, sheet
<1>9. TopsOn(sheet, i, n, FirstLine(b)) = {top}
  BY <1>2, <1>4, <1>5, <1>7, <1>8, ShownTop
<1>10. Tops(g, i, n) = {top} BY <1>9, Zenon DEF Tops, TopsOn, FirstLine, b, sheet
<1>11. /\ {p \in DOMAIN sheet : sheet[p][1] = i /\ sheet[p][2] = n} = place
       /\ \A p \in place : p \in DOMAIN sheet /\ sheet[p] = Shown(b, i, shapes, n, p)
  BY <1>2, <1>4, <1>5, <1>8, ShownFrame
<1>12. \A p \in place : /\ p[2] \in top..(top + Lines(b, shapes[n]) - 1)
                        /\ p[3] \in b.col..(b.col + shapes[n].width - 1)
  BY PlaceIs
<1>13. Cardinality(place) = shapes[n].width * Lines(b, shapes[n]) BY <1>2, <1>4, <1>8, PlaceSize
<1>. HIDE DEF place
<1>14. {p \in DOMAIN sheet : sheet[p][1] = i /\ sheet[p][2] = n} =
       {p \in DOMAIN sheet : /\ p[2] \in top..(top + Lines(b, shapes[n]) - 1)
                             /\ p[3] \in b.col..(b.col + shapes[n].width - 1)
                             /\ sheet[p] = <<i, n, p[2] - top + FirstLine(b), p[3] - b.col + 1>>}
  <2>. HIDE DEF top
  <2>. QED BY <1>11, <1>12 DEF Shown, top
<1>15. Whole(g, i, n)
  <2>1. Cardinality({p \in DOMAIN sheet : sheet[p][1] = i /\ sheet[p][2] = n}) = shapes[n].width * Lines(b, shapes[n])
    BY <1>11, <1>13
  <2>. HIDE DEF top
  <2>. QED BY <1>10, <1>14, <2>1, Zenon DEF Whole, FirstLine, b, sheet
<1>. QED BY <1>4, <1>8, <1>10, <1>15 DEF b

(* A workbook that is handed out has the frames of every binding whose sheet *)
(* no other one writes to, or only streams to: whole, at its cell, in order, *)
(* a free row between them; whatever clearing, templates, empty frames and   *)
(* spellings of the sheets' names come before, between and after.            *)
THEOREM FramesStayIntact == Spec => []FramesIntact
<1>1. GenInv /\ SheetInv => FramesIntact
  <2>. SUFFICES ASSUME GenInv, SheetInv, NEW g \in Links, phase[g] = "saved"
                PROVE  /\ Len(results[g]) = Len(Bindings)
                       /\ \A i \in {j \in DOMAIN Bindings : Undisturbed(j)} :
                            LET shapes == results[g][i]
                                shown == {n \in DOMAIN shapes : shapes[n].width * Lines(Bindings[i], shapes[n]) > 0}
                            IN /\ \A n \in shown : Whole(g, i, n) /\ (n = 1 => Tops(g, i, n) = {Bindings[i].row})
                               /\ \A n, m \in shown :
                                    n < m => \A top \in Tops(g, i, n), below \in Tops(g, i, m) :
                                               top + Lines(Bindings[i], shapes[n]) < below
    BY Zenon DEF FramesIntact, Complete
  <2>1. Len(results[g]) = Len(Bindings) BY DEF SheetInv, Gathered
  <2>2. ASSUME NEW i \in DOMAIN Bindings, Undisturbed(i), NEW shapes, shapes = results[g][i],
               NEW n \in DOMAIN shapes, shapes[n].width * Lines(Bindings[i], shapes[n]) > 0
        PROVE  /\ Whole(g, i, n) /\ (n = 1 => Tops(g, i, n) = {Bindings[i].row})
               /\ \A m \in DOMAIN shapes :
                    shapes[m].width * Lines(Bindings[i], shapes[m]) > 0 /\ n < m =>
                      \A top \in Tops(g, i, n), below \in Tops(g, i, m) : top + Lines(Bindings[i], shapes[n]) < below
    <3>. DEFINE b == Bindings[i]
    <3>1. b.row \in Nat BY InPhase, BindingsAre DEF GenInv, GTypes
    <3>2. shapes \in Shapes /\ n \in Filled(shapes) /\ Tops(g, i, n) = {Top(b, shapes, n)} /\ Whole(g, i, n)
      BY <2>2, FrameIntact
    <3>3. shapes[n].width > 0 BY <3>2 DEF Filled
    <3>4. /\ n = 1 => Top(b, shapes, n) = b.row
          /\ \A m \in DOMAIN shapes : n < m /\ shapes[m].width > 0 => Top(b, shapes, n) + Lines(b, shapes[n]) < Top(b, shapes, m)
      BY <3>1, <3>2, <3>3, FramesBelow
    <3>5. ASSUME NEW m \in DOMAIN shapes, shapes[m].width * Lines(b, shapes[m]) > 0, n < m
          PROVE  \A top \in Tops(g, i, n), below \in Tops(g, i, m) : top + Lines(b, shapes[n]) < below
      <4>1. m \in Filled(shapes) /\ Tops(g, i, m) = {Top(b, shapes, m)} BY <2>2, <3>5, FrameIntact
      <4>2. shapes[m].width > 0 BY <4>1 DEF Filled
      <4>. QED BY <3>2, <3>4, <3>5, <4>1, <4>2
    <3>. QED BY <3>2, <3>4, <3>5
  <2>. QED BY <2>1, <2>2, Zenon
<1>2. Spec => []SheetInv
  <2>1. Init => SheetInv BY InitGathers
  <2>2. GenInv /\ SheetInv /\ [Next]_vars => SheetInv' BY NextGathers
  <2>. QED BY <2>1, <2>2, GenerationInductive, PTL DEF Spec
<1>. QED BY <1>1, <1>2, GenerationInductive, PTL
===============================================================================
