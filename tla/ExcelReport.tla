------------------------------ MODULE ExcelReport ------------------------------
(***************************************************************************)
(* Generation of a workbook (excelReport.go): the report's bindings run as   *)
(* kdb+ queries or take the frames submitted with the request, and their     *)
(* frames are written into the sheets of a template or of a new workbook,    *)
(* cell by cell, row by row or as a stream.  What is generated goes to the   *)
(* one-time links of ExcelDownloads.                                         *)
(*                                                                           *)
(* A sheet is a record of its name and its key, the name folded to lower     *)
(* case: the maps of the source are by name, while a workbook, an excelize   *)
(* file, tells its sheets apart by key.  A cell written bears what it shows: *)
(* binding, frame, line (0 is the header) and column.  Rows are numbered as  *)
(* in Excel; row 0 of a binding stands for a cell that is not one.           *)
(***************************************************************************)
EXTENDS ExcelDownloads, KdbFrames

CONSTANTS
  Worlds,          \* settings of the datasource, what is asked of it, what kdb+ answers
  SheetRows,       \* the last row of a sheet
  DefaultMaxRows   \* defaultExcelReportMaxRows

ASSUME RowsAssumption == SheetRows \in Nat /\ DefaultMaxRows \in Nat \ {0}

(* The reports of the settings and the bindings of a report are slices; there *)
(* is an answer to every binding's query.  Rows, columns and lengths are      *)
(* numbers.                                                                  *)
ASSUME WorldsAssumption ==
  \A w \in Worlds :
    /\ w.reports \in Seq(ToSet(w.reports))
    /\ \A i \in DOMAIN w.reports :
         LET bindings == w.reports[i].bindings
         IN /\ bindings \in Seq(ToSet(bindings))
            /\ DOMAIN bindings \subseteq DOMAIN w.answers
            /\ \A j \in DOMAIN bindings : bindings[j].row \in Nat /\ bindings[j].col \in Nat
    /\ w.submitted \in Seq([for : {f.for : f \in ToSet(w.submitted)}, width : Nat, rows : Nat])
    /\ \A i \in DOMAIN w.answers : WellFormed(w.answers[i])

VARIABLES
  world,    \* the one chosen
  phase,    \* phase[g]: how far generateExcelReport is
  at,       \* at[g]: the binding it is at
  results,  \* results[g]: the shapes of the frames of the bindings before
  book,     \* book[g]: the workbook
  ended,    \* ended[g]: the context has ended, by its deadline or by the client
  reason    \* reason[g]: why the generation failed

gvars == <<world, phase, at, results, book, ended, reason>>
vars == <<dvars, gvars>>

Init ==
  /\ DInit
  /\ world \in Worlds
  /\ phase = [g \in Links |-> "none"]
  /\ at = [g \in Links |-> 1]
  /\ results = [g \in Links |-> <<>>]
  /\ book = [g \in Links |-> None]
  /\ ended = [g \in Links |-> FALSE]
  /\ reason = [g \in Links |-> ""]

-----------------------------------------------------------------------------
(* The catalog and its validation *)

FirstPositive(s) == LET positive == SelectSeq(s, LAMBDA n : n > 0) IN Head(positive)

(* excelReportBindingWriteMode: the binding's own mode, the report's, or cells. *)
Normalized == [m \in {"", "auto", "cells", "legacy"} |-> "cells"] @@ [m \in {"rows", "bulk"} |-> "rows"]
              @@ [m \in {"stream", "streaming"} |-> "stream"]
ModeName(report, binding) == IF binding.mode = "" THEN report.mode ELSE binding.mode
WriteMode(report, binding) == Normalized[ModeName(report, binding)]

ValidBinding(report, binding) ==
  /\ binding.query \/ binding.id # ""
  /\ binding.sheet.name # ""
  /\ binding.row > 0
  /\ binding.clear.kind # "malformed"
  /\ binding.maxRows >= 0
  /\ ModeName(report, binding) \in DOMAIN Normalized

(* Bugs: sheets are compared by name; write modes are not compared. *)
SameModesByName(report) ==
  \A i, j \in DOMAIN report.bindings :
    report.bindings[i].sheet = report.bindings[j].sheet =>
      WriteMode(report, report.bindings[i]) = WriteMode(report, report.bindings[j])

AnyModes(report) == TRUE

SameModesPerSheet(report) ==
  \A i, j \in DOMAIN report.bindings :
    report.bindings[i].sheet.key = report.bindings[j].sheet.key =>
      WriteMode(report, report.bindings[i]) = WriteMode(report, report.bindings[j])

ValidReport(report) ==
  /\ report.id # ""
  /\ report.bindings # <<>>
  /\ report.maxRows >= 0
  /\ report.mode \in DOMAIN Normalized
  /\ report.template # "notXlsx"
  /\ \A i \in DOMAIN report.bindings : ValidBinding(report, report.bindings[i])
  /\ SameModesPerSheet(report)

(* excelReportCatalog: the settings as they are, checked; they are trimmed   *)
(* for the checks only.                                                      *)
ValidCatalog(reports) ==
  /\ \A i, j \in DOMAIN reports : reports[i].id = reports[j].id => i = j
  /\ \A i \in DOMAIN reports : ValidReport(reports[i])

(* resolveExcelReportTemplatePath, by what the path leads to once its links  *)
(* are followed: outside the allowed directories, nowhere, to a directory    *)
(* or not from the root.  A corrupt file is found when it is opened.         *)
TemplateDirs == world.dirs = "some"   \* or none, or an entry that is no directory

ResolvesTemplate(report) ==
  /\ TemplateDirs
  /\ report.template \notin {"notXlsx", "relative", "missing", "directory", "outside"}

OpensTemplate(report) ==
  report.template = "" \/ (ResolvesTemplate(report) /\ report.template # "corrupt")

(* report/validate *)
Validated ==
  /\ ValidCatalog(world.reports)
  /\ \A i \in DOMAIN world.reports : OpensTemplate(world.reports[i])

-----------------------------------------------------------------------------
(* Requests *)

(* findExcelReport compares the id of the settings untrimmed. *)
Found == {i \in DOMAIN world.reports : world.reports[i].id = world.wanted /\ ~world.reports[i].padded}
Report == world.reports[Min(Found)]

Advance(g, from, to) ==
  /\ phase[g] = from
  /\ phase' = [phase EXCEPT ![g] = to]

Stay == UNCHANGED <<now, instance, home, link, downloads, take, asked, got, issued>>

Fail(g, why) ==
  /\ GenerationFails(g)
  /\ phase' = [phase EXCEPT ![g] = "failed"]
  /\ reason' = [reason EXCEPT ![g] = why]
  /\ UNCHANGED <<world, at, results, book, ended>>

Receive(g) ==
  /\ Begin(g)
  /\ Advance(g, "none", "prepare")
  /\ UNCHANGED <<world, at, results, book, ended, reason>>

(* Both times are there and read as times. *)
RangeOK == world.range = "ok"   \* or missing, unreadable, reversed

(* The checks of the settings and the request come first. *)
Prepare(g) ==
  /\ phase[g] = "prepare"
  /\ CASE ~ValidCatalog(world.reports) -> Fail(g, "catalog")
       [] ValidCatalog(world.reports) /\ Found = {} -> Fail(g, "unknown")
       [] ValidCatalog(world.reports) /\ Found # {} /\ ~RangeOK -> Fail(g, "time")
       [] OTHER -> /\ Advance(g, "prepare", "query")
                   /\ Stay
                   /\ UNCHANGED <<world, at, results, book, ended, reason>>

(* Bug: the generation is dropped, its handler is told nothing. *)
ContextEndsUntold(g) ==
  /\ phase[g] \in {"query", "write"}
  /\ ~ended[g]
  /\ ended' = [ended EXCEPT ![g] = TRUE]
  /\ phase' = [phase EXCEPT ![g] = "failed"]
  /\ Stay
  /\ UNCHANGED <<world, at, results, book, reason>>

(* The deadline passes, or the client gives up. *)
ContextEnds(g) ==
  /\ phase[g] \in {"query", "write"}
  /\ ~ended[g]
  /\ ended' = [ended EXCEPT ![g] = TRUE]
  /\ Stay
  /\ UNCHANGED <<world, phase, at, results, book, reason>>

-----------------------------------------------------------------------------
(* The bindings' frames.  A shape is what the writer goes by: how many       *)
(* fields a frame has, and its rows.                                         *)

Bindings == Report.bindings
Binding(g) == Bindings[at[g]]

(* frame.Rows() is the length of the first field. *)
Shape(frame) ==
  [width |-> Len(frame), rows |-> IF Len(frame) = 0 THEN 0 ELSE Len(frame[1].cells)]

QueryResult(binding, answer) ==
  Parse(answer, binding.panopticon, binding.includeKeys, binding.time)

(* buildSubmittedExcelReportBinding: the frames sent for this binding, or    *)
(* else the one in its place.                                                *)
SubmittedShapes(binding, index) ==
  LET Matching(f) == IF binding.id \in f.for THEN <<f>> ELSE <<>>
      matching == FlattenSeq([i \in DOMAIN world.submitted |-> Matching(world.submitted[i])])
      inPlace == IF index =< Len(world.submitted) /\ world.submitted[index].width > 0
                 THEN <<world.submitted[index]>> ELSE <<>>
      chosen == IF matching # <<>> THEN matching ELSE inPlace
  IN [i \in DOMAIN chosen |-> [width |-> chosen[i].width, rows |-> chosen[i].rows]]

BindingMaxRows(binding) ==
  FirstPositive(<<binding.maxRows, Report.maxRows, world.maxRows, DefaultMaxRows>>)

Rows(shapes) == FoldLeft(LAMBDA n, shape : n + shape.rows, 0, shapes)

Collect(g, shapes) ==
  IF Rows(shapes) > BindingMaxRows(Binding(g)) THEN Fail(g, "rows")
  ELSE /\ results' = [results EXCEPT ![g] = Append(@, shapes)]
       /\ at' = [at EXCEPT ![g] = @ + 1]
       /\ Stay
       /\ UNCHANGED <<world, phase, book, ended, reason>>

(* A query that fails, or whose answer cannot be parsed or panics the        *)
(* parser, fails the generation; one of another mode than sync is refused.   *)
RunBinding(g) ==
  LET result == QueryResult(Binding(g), world.answers[at[g]])
  IN \/ Binding(g).async /\ Fail(g, "async")
     \/ ~Binding(g).async /\ Fail(g, "query")
     \/ ~Binding(g).async /\ result.tag # "frames" /\ Fail(g, "answer")
     \/ /\ ~Binding(g).async
        /\ result.tag = "frames"
        /\ Collect(g, [i \in DOMAIN result.frames |-> Shape(result.frames[i])])

BuildSubmitted(g) ==
  LET shapes == SubmittedShapes(Binding(g), at[g])
  IN IF shapes = <<>> THEN Fail(g, "frames") ELSE Collect(g, shapes)

QueryBinding(g) ==
  /\ phase[g] = "query"
  /\ at[g] =< Len(Bindings)
  /\ \/ ended[g] /\ Fail(g, "ended")
     \/ ~ended[g] /\ Binding(g).query /\ RunBinding(g)
     \/ ~ended[g] /\ ~Binding(g).query /\ BuildSubmitted(g)

-----------------------------------------------------------------------------
(* The workbook: the cells of its sheets, the stream writers made so far in  *)
(* order, and the names of the sheets written in a normal mode.              *)

TemplateCell == <<0, 0, 0, 0>>

EmptyBook == [cells |-> <<>>, streams |-> <<>>, normal |-> {}]

(* openExcelReportWorkbook; the templates considered have one cell filled. *)
OpenWorkbook(g) ==
  /\ phase[g] = "query"
  /\ at[g] > Len(Bindings)
  /\ IF ~OpensTemplate(Report) THEN Fail(g, "template")
     ELSE /\ book' = [book EXCEPT ![g] =
                        IF Report.template = "" THEN EmptyBook
                        ELSE [EmptyBook EXCEPT !.cells = [p \in {world.cell} |-> TemplateCell]]]
          /\ at' = [at EXCEPT ![g] = 1]
          /\ Advance(g, "query", "write")
          /\ Stay
          /\ UNCHANGED <<world, results, ended, reason>>

Lines(binding, shape) == shape.rows + (IF binding.header THEN 1 ELSE 0)

(* The row after the first n frames; a frame without fields is passed over,  *)
(* any other but the very first leaves a row free before it.                 *)
Cursor(binding, shapes) ==
  LET after[n \in 0..Len(shapes)] ==
        IF n = 0 THEN binding.row
        ELSE IF shapes[n].width = 0 THEN after[n - 1]
        ELSE after[n - 1] + (IF n > 1 THEN 1 ELSE 0) + Lines(binding, shapes[n])
  IN after

(* Bug: the header is not counted. *)
TopWithoutHeader(binding, shapes, n) ==
  Cursor([binding EXCEPT !.header = FALSE], shapes)[n - 1] + (IF n > 1 THEN 1 ELSE 0)

Top(binding, shapes, n) == Cursor(binding, shapes)[n - 1] + (IF n > 1 THEN 1 ELSE 0)

(* writeExcelReportFrame and its three twins: a line below the other. *)
FrameCells(binding, b, shapes, n) ==
  LET top == Top(binding, shapes, n)
      first == IF binding.header THEN 0 ELSE 1
  IN [p \in {binding.sheet.key} \X (top..(top + Lines(binding, shapes[n]) - 1))
                                \X (binding.col..(binding.col + shapes[n].width - 1)) |->
       <<b, n, p[2] - top + first, p[3] - binding.col + 1>>]

(* What a cell shows is of the last frame written to it. *)
BindingCells(binding, b, shapes) ==
  LET Cells(n) == FrameCells(binding, b, shapes, n)
      written == {n \in DOMAIN shapes : shapes[n].width > 0}
  IN [p \in UNION {DOMAIN Cells(n) : n \in written} |->
        Cells(Max({n \in written : p \in DOMAIN Cells(n)}))[p]]

(* Cells written over those of a sheet. *)
Over(cells, old) == [p \in DOMAIN cells \cup DOMAIN old |-> IF p \in DOMAIN cells THEN cells[p] ELSE old[p]]

RowsOf(cells) == {p[2] : p \in DOMAIN cells}

(* clearExcelReportRange; the corners come in any order. *)
ClearRange(cells, binding) ==
  IF binding.clear.kind = "none" THEN cells
  ELSE LET r == binding.clear.box
           cleared == {binding.sheet.key} \X (Min({r[1], r[3]})..Max({r[1], r[3]}))
                                          \X (Min({r[2], r[4]})..Max({r[2], r[4]}))
       IN Restrict(cells, DOMAIN cells \ cleared)

(* streamWriter: the writers are by name; the last one made for a sheet is   *)
(* the one whose rows are saved.                                             *)
Streamed(bk) == {bk.streams[i].sheet : i \in DOMAIN bk.streams}
StreamOf(bk, sheet) == CHOOSE i \in DOMAIN bk.streams : bk.streams[i].sheet = sheet

StreamWriter(bk, sheet) ==
  IF sheet \in Streamed(bk) THEN bk
  ELSE [bk EXCEPT !.streams = Append(@, [sheet |-> sheet, cells |-> <<>>, lastRow |-> 0])]

(* setRow refuses a row that is not below the last one of its stream. *)
WriteStream(bk, binding, cells) ==
  LET with == StreamWriter(bk, binding.sheet)
      i == StreamOf(with, binding.sheet)
  IN [with EXCEPT !.streams[i].cells = Over(cells, @),
                  !.streams[i].lastRow = Max(RowsOf(cells) \cup {@})]

WriteNormal(bk, binding, cells) ==
  [bk EXCEPT !.cells = Over(cells, ClearRange(@, binding)), !.normal = @ \cup {binding.sheet}]

Descends(bk, binding, cells) ==
  /\ binding.sheet \in Streamed(bk)
  /\ RowsOf(cells) # {}
  /\ Min(RowsOf(cells)) =< bk.streams[StreamOf(bk, binding.sheet)].lastRow

Written(g, bk) ==
  /\ book' = [book EXCEPT ![g] = bk]
  /\ at' = [at EXCEPT ![g] = @ + 1]
  /\ Stay
  /\ UNCHANGED <<world, phase, results, ended, reason>>

(* writeExcelReportBinding and its twin for submitted frames; a range that   *)
(* was accepted may still name no cells.                                     *)
WriteFrames(g, binding, cells) ==
  LET stream == WriteMode(Report, binding) = "stream"
  IN CASE binding.sheet \in (IF stream THEN book[g].normal ELSE Streamed(book[g])) -> Fail(g, "mixed")
       [] ~stream /\ binding.clear.kind = "notCells" -> Fail(g, "clear")
       [] \E r \in RowsOf(cells) : r > SheetRows -> Fail(g, "cell")
       [] stream /\ Descends(book[g], binding, cells) -> Fail(g, "order")
       [] OTHER -> Written(g, IF stream THEN WriteStream(book[g], binding, cells)
                                        ELSE WriteNormal(book[g], binding, cells))

WriteBinding(g) ==
  /\ phase[g] = "write"
  /\ at[g] =< Len(Bindings)
  /\ LET shapes == results[g][at[g]]
     IN \/ ended[g] /\ Fail(g, "ended")
        \/ ~ended[g] /\ shapes = <<>> /\ Written(g, book[g])
        \/ /\ ~ended[g] /\ shapes # <<>>
           /\ WriteFrames(g, Binding(g), BindingCells(Binding(g), at[g], shapes))

(* Flush and serialise; the file may turn out larger than maxFileBytes. *)
Save(g) ==
  /\ phase[g] = "write"
  /\ at[g] > Len(Bindings)
  /\ \/ Fail(g, "size")
     \/ /\ Generated(g)
        /\ Advance(g, "write", "saved")
        /\ UNCHANGED <<world, at, results, book, ended, reason>>

GenerateStep(g) ==
  \/ Receive(g) \/ Prepare(g) \/ ContextEnds(g)
  \/ QueryBinding(g) \/ OpenWorkbook(g) \/ WriteBinding(g) \/ Save(g)

Next ==
  \/ \E g \in Links : GenerateStep(g)
  \/ (StoreStep \/ TakeStep \/ WorldStep) /\ UNCHANGED gvars

Spec == Init /\ [][Next]_vars
-----------------------------------------------------------------------------
IsBook(bk) ==
  /\ DOMAIN bk = {"cells", "streams", "normal"}
  /\ bk.streams \in Seq(ToSet(bk.streams))
  /\ \A i \in DOMAIN bk.streams : DOMAIN bk.streams[i] = {"sheet", "cells", "lastRow"}

(* A generation is where its handler is, has a workbook while it writes one  *)
(* and after, and gives a reason when, and only when, it has failed.         *)
TypeOK ==
  /\ DTypeOK
  /\ phase \in [Links -> {"none", "prepare", "query", "write", "saved", "failed"}]
  /\ at \in [Links -> Nat \ {0}]
  /\ ended \in [Links -> BOOLEAN]
  /\ \A g \in Links : /\ phase[g] = "none" <=> link[g] = "idle"
                      /\ phase[g] \in {"prepare", "query", "write"} <=> link[g] = "generating"
                      /\ phase[g] \in {"write", "saved"} => IsBook(book[g])
                      /\ reason[g] # "" <=> phase[g] = "failed"

(* What a sheet of the workbook shows when it is opened: the rows of the     *)
(* last stream writer made for it, if there is one.                          *)
StreamsOf(bk, key) == {i \in DOMAIN bk.streams : bk.streams[i].sheet.key = key}
Saved(bk, key) ==
  IF StreamsOf(bk, key) = {} THEN Restrict(bk.cells, {p \in DOMAIN bk.cells : p[1] = key})
  ELSE bk.streams[Max(StreamsOf(bk, key))].cells

Complete == {g \in Links : phase[g] = "saved"}

(* Nothing else is written to the sheet of the i-th binding, or only by      *)
(* streams under one spelling of its name.                                   *)
Undisturbed(i) ==
  \A j \in DOMAIN Bindings \ {i} :
    Bindings[j].sheet.key = Bindings[i].sheet.key =>
      /\ WriteMode(Report, Bindings[i]) = "stream"
      /\ Bindings[j].sheet = Bindings[i].sheet

(* Where the first line of the n-th frame of binding i is found. *)
Tops(g, i, n) ==
  LET sheet == Saved(book[g], Bindings[i].sheet.key)
      first == IF Bindings[i].header THEN 0 ELSE 1
  IN {p[2] : p \in {q \in DOMAIN sheet : sheet[q] = <<i, n, first, 1>>}}

(* The frame is whole: each cell is where its line and column put it, and    *)
(* nowhere else.                                                             *)
Whole(g, i, n) ==
  LET binding == Bindings[i]
      shape == results[g][i][n]
      sheet == Saved(book[g], binding.sheet.key)
      first == IF binding.header THEN 0 ELSE 1
  IN \E top \in Tops(g, i, n) :
       {p \in DOMAIN sheet : sheet[p][1] = i /\ sheet[p][2] = n} =
       {p \in DOMAIN sheet : /\ p[2] \in top..(top + Lines(binding, shape) - 1)
                             /\ p[3] \in binding.col..(binding.col + shape.width - 1)
                             /\ sheet[p] = <<i, n, p[2] - top + first, p[3] - binding.col + 1>>}
       /\ Cardinality({p \in DOMAIN sheet : sheet[p][1] = i /\ sheet[p][2] = n}) =
          shape.width * Lines(binding, shape)

(* A workbook that is handed out has the frames of every binding, unless     *)
(* other bindings write to the same sheet: whole, the first at the binding's *)
(* cell, in order and with a free row between them.                          *)
FramesIntact ==
  \A g \in Complete :
    /\ Len(results[g]) = Len(Bindings)
    /\ \A i \in {j \in DOMAIN Bindings : Undisturbed(j)} :
         LET shapes == results[g][i]
             shown == {n \in DOMAIN shapes : shapes[n].width * Lines(Bindings[i], shapes[n]) > 0}
         IN /\ \A n \in shown : Whole(g, i, n) /\ (n = 1 => Tops(g, i, n) = {Bindings[i].row})
            /\ \A n, m \in shown :
                 n < m => \A top \in Tops(g, i, n), below \in Tops(g, i, m) :
                            top + Lines(Bindings[i], shapes[n]) < below

(* No sheet of a workbook has both streamed rows, which replace what is on   *)
(* it, and cells written in a normal mode, under whatever spellings.         *)
NoMixedSheet ==
  \A g \in Complete :
    {sheet.key : sheet \in Streamed(book[g])} \cap {sheet.key : sheet \in book[g].normal} = {}

(* A generation is never refused for what report/validate has looked at: the *)
(* catalog, the template and its directories, and the modes of a sheet.      *)
ValidationSound ==
  Validated => \A g \in Links : reason[g] \notin {"catalog", "template", "mixed"}

-----------------------------------------------------------------------------
(* What the frames of an answer show *)

(* The bindings that are about to parse their answer. *)
Parsing == {g \in Links : phase[g] = "query" /\ at[g] =< Len(Bindings) /\ Binding(g).query}
Answer(g) == world.answers[at[g]]
ResultOf(g) == QueryResult(Binding(g), Answer(g))

Scalar(o) == o.t \in {"atom", "chars"}

(* The lengths of the values of a dictionary, or keys that are lists, allow  *)
(* for no rectangle.                                                         *)
Ragged(binding, o) ==
  IF o.t # "dict" THEN FALSE
  ELSE IF IsKeyedTable(o)
  THEN ~binding.panopticon /\ binding.includeKeys
       /\ \E row \in 1..Size(o.key) : \E i \in DOMAIN o.key.cols : ~Scalar(Row(o.key, row)[i])
  ELSE IsDict(o) /\ LET values == Values(o.value, Len(Names(o.key)))
                    IN \E i \in DOMAIN values : /\ ~Scalar(values[i])
                                                 /\ Size(values[i]) \notin {1, Depth(values)}

(* The columns of a frame have the same length, which is what the number of  *)
(* its rows, the first column's, relies on: only an answer that is ragged    *)
(* itself makes a ragged frame.                                              *)
FramesRectangular ==
  \A g \in Parsing :
    ~Ragged(Binding(g), Answer(g)) =>
      \A i \in DOMAIN ResultOf(g).frames :
        LET frame == ResultOf(g).frames[i]
        IN \A c \in DOMAIN frame : Len(frame[c].cells) = Len(frame[1].cells)

(* Rows as dictionaries, with keys missing or in another order, make one     *)
(* frame with a column per key of any row: each row has its own values under *)
(* their names and null elsewhere.                                           *)
RowDictsUnion ==
  \A g \in Parsing :
    LET rows == Answer(g).items
        result == ResultOf(g)
        Has(row, name) == name \in ToSet(RowNames(row))
        ValuesOf(row, name) == {CellValue(RowValues(row)[c]).v : c \in {k \in DOMAIN RowNames(row) : RowNames(row)[k] = name}}
    IN Binding(g).panopticon /\ IsDictList(Answer(g)) /\ result.tag = "frames" =>
         /\ {result.frames[1][c].name : c \in DOMAIN result.frames[1]} =
              UNION {ToSet(RowNames(rows[i])) : i \in DOMAIN rows}
         /\ \A c \in DOMAIN result.frames[1] :
              LET name == result.frames[1][c].name
                  cells == result.frames[1][c].cells
              IN /\ DOMAIN cells = DOMAIN rows
                 /\ \A i \in DOMAIN rows :
                      IF Has(rows[i], name) THEN cells[i] \in ValuesOf(rows[i], name) ELSE cells[i] = Null

(* To include the key columns of a grouped table puts them before the value  *)
(* columns and changes nothing else, unless a list of characters stands in   *)
(* the place of a key.                                                       *)
KeysOnlyAdd ==
  \A g \in Parsing :
    LET o == Answer(g)
        keys == Len(o.key.cols)
        with == GroupedTable(o, TRUE)
        without == GroupedTable(o, FALSE)
        charsInPlace == \E row \in 1..Size(o.key) : \E i \in 1..keys :
                          i =< Len(o.value.cols) /\ Row(o.value, row)[i].t = "chars"
    IN ~Binding(g).panopticon /\ o.t = "dict" /\ IsKeyedTable(o) /\ with.tag = "frames" /\ ~charsInPlace =>
           /\ without.tag = "frames"
           /\ \A row \in DOMAIN with.frames :
                SubSeq(with.frames[row], keys + 1, Len(with.frames[row])) = without.frames[row]

(* No answer of plain values, however they are mixed and nested in lists,    *)
(* makes the parser panic: only tables, dictionaries and functions in the    *)
(* place of a column, or of a value of a dictionary, do.                     *)
OnlyNestedValuesPanic ==
  \A g \in Parsing :
    LET o == Answer(g)
    IN ResultOf(g).tag = "panic" =>
         \/ o.t = "table" /\ ~PlainTable(o)
         \/ o.t = "dict" /\ IF IsKeyedTable(o) THEN ~(PlainTable(o.key) /\ PlainTable(o.value)) ELSE ~PlainList(o.value)
===============================================================================
