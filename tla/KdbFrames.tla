------------------------------- MODULE KdbFrames -------------------------------
(***************************************************************************)
(* From an answer of kdb+ to Grafana frames: parseKdbResponseToFrames        *)
(* (plugin.go) and kdbTableParser.go.                                        *)
(*                                                                           *)
(* An object of kdb+ is a record whose field t says what it is:              *)
(*   atom   of, vs          one value of the kdb+ type of                    *)
(*   chars  vs              a char vector, which is also q's string          *)
(*   vec    of, vs          a typed vector                                   *)
(*   list   items           a general list of objects                        *)
(*   table  cols, data,     column names, one object per column and how       *)
(*          count           long they are                                    *)
(*   dict   key, value      two objects                                      *)
(*   other                  a generic null, a function, ...                  *)
(* Values and names are sequences of numbers: a scalar has one, a text one   *)
(* per character, so that the text of a value is the value itself.  A frame  *)
(* is a sequence of fields, each with the Go type ty of its cells.           *)
(***************************************************************************)
EXTENDS Naturals, SequencesExt

KdbTypes ==
  {"sym", "char", "guid", "long", "timespan", "int", "month", "minute", "second", "time", "short", "byte",
   "float", "real", "bool", "timestamp", "date", "datetime"}

Null == <<0>>      \* a null pointer in a nullable column
Opaque == <<99>>   \* fmt.Sprint of a list, a dictionary or a table
ValueName == <<100>>   \* the name value

(* The type of a column, an atom's included, by the kdb+ type of its values. *)
ColumnType(of) ==
  CASE of \in {"sym", "char", "guid"} -> "string"
    [] of \in {"long", "timespan"} -> "int64"
    [] of \in {"int", "month", "minute", "second", "time"} -> "int32"
    [] of = "short" -> "int16"
    [] of = "byte" -> "uint8"
    [] of = "float" -> "float64"
    [] of = "real" -> "float32"
    [] of = "bool" -> "bool"
    [] of \in {"timestamp", "date", "datetime"} -> "time"

(* The dynamic type of a value on its own, as a cell of a row dictionary:    *)
(* the named types of kdbgo and uuid are none of those the parser knows.     *)
CellType(of) ==
  IF of \in {"guid", "timespan", "month", "minute", "second", "time"} THEN of ELSE ColumnType(of)

Count(o) ==
  CASE o.t \in {"chars", "vec"} -> Len(o.vs)
    [] o.t = "list" -> Len(o.items)
    [] o.t = "table" -> o.count
    [] OTHER -> 1

Size(o) == IF o.t = "dict" THEN Count(o.key) ELSE Count(o)

IsKeyedTable(o) == o.key.t = "table" /\ o.value.t = "table"

(* What kdb+ sends: its vectors and lists are sequences, a table has as many  *)
(* columns as names, none of them an atom and all of one length, which is     *)
(* also that of the keys and the values of a keyed table.                    *)
Shaped(o) ==
  CASE o.t \in {"atom", "vec"} -> o.of \in KdbTypes /\ o.vs \in Seq(ToSet(o.vs)) /\ (o.t = "atom" => Len(o.vs) = 1)
    [] o.t = "chars" -> o.vs \in Seq(ToSet(o.vs))
    [] o.t = "list" -> o.items \in Seq(ToSet(o.items))
    [] o.t = "table" -> /\ o.cols \in Seq(ToSet(o.cols)) /\ o.data \in Seq(ToSet(o.data))
                        /\ Len(o.cols) = Len(o.data) /\ o.data # <<>> /\ o.count \in Nat
                        /\ \A i \in DOMAIN o.data : /\ o.data[i].t \notin {"atom", "other"}
                                                      /\ Size(o.data[i]) = o.count
    [] o.t = "dict" -> IsKeyedTable(o) => Size(o.key) = Size(o.value)
    [] OTHER -> o.t = "other"

Parts(o) ==
  CASE o.t = "list" -> ToSet(o.items)
    [] o.t = "table" -> ToSet(o.data)
    [] o.t = "dict" -> {o.key, o.value}
    [] OTHER -> {}

(* As deep as the parsers look: into the values of the columns of the tables  *)
(* of a dictionary.                                                           *)
WellFormed(o) ==
  /\ Shaped(o)
  /\ \A part \in Parts(o) : /\ Shaped(part)
                            /\ \A inner \in Parts(part) : Shaped(inner) /\ \A last \in Parts(inner) : Shaped(last)

(* Values, lists of values, and tables of such columns. *)
Plain(o) == o.t \in {"atom", "chars", "vec", "list"}
PlainList(o) == Plain(o) /\ (o.t = "list" => \A i \in DOMAIN o.items : Plain(o.items[i]))
PlainTable(o) == \A c \in DOMAIN o.data : PlainList(o.data[c])

Text(o) == IF o.t \in {"atom", "chars", "vec"} THEN o.vs ELSE Opaque

(* The i-th item of a list, a vector or a char vector; that of a table is a   *)
(* row, whose values are not looked at again.                                *)
Item(o, i) ==
  CASE o.t = "list" -> o.items[i]
    [] o.t = "vec" -> [t |-> "atom", of |-> o.of, vs |-> <<o.vs[i]>>]
    [] o.t = "chars" -> [t |-> "atom", of |-> "char", vs |-> <<o.vs[i]>>]
    [] o.t = "table" -> [t |-> "dict", value |-> [t |-> "other"],
                         key |-> [t |-> "list", items |-> [c \in DOMAIN o.cols |-> [t |-> "chars", vs |-> o.cols[c]]]]]

(* A column is a type and its cells; NewField panics on the type unsupported. *)
Column(ty, cells) == [ty |-> ty, cells |-> cells]

Texts(items) == [i \in DOMAIN items |-> Text(items[i])]

Chars(o) == Column("string", [i \in DOMAIN o.vs |-> <<o.vs[i]>>])

(* Bug: a general list of anything but strings is no column. *)
StandardColumnOfStrings(o) ==
  CASE o.t = "list" /\ (\A i \in DOMAIN o.items : o.items[i].t = "chars") -> Column("string", Texts(o.items))
    [] o.t = "chars" -> Chars(o)
    [] o.t = "vec" -> Column(ColumnType(o.of), [i \in DOMAIN o.vs |-> <<o.vs[i]>>])
    [] OTHER -> Column("unsupported", <<>>)

(* standardColumnParser; a general list is a column of texts whether all its *)
(* items are strings or not.                                                 *)
StandardColumn(o) ==
  CASE o.t = "list" -> Column("string", Texts(o.items))
    [] o.t = "chars" -> Chars(o)
    [] o.t = "vec" -> Column(ColumnType(o.of), [i \in DOMAIN o.vs |-> <<o.vs[i]>>])
    [] OTHER -> Column("unsupported", <<>>)

ProjectAtom(ty, v, depth) == Column(ty, [i \in 1..depth |-> v])

-----------------------------------------------------------------------------
(* Tables *)

Fields(names, columns) ==
  [i \in DOMAIN names |-> [name |-> names[i], ty |-> columns[i].ty, cells |-> columns[i].cells]]

SimpleTable(table) ==
  Fields(table.cols, [i \in DOMAIN table.data |-> StandardColumn(table.data[i])])

(* A result is what a parser returns, or the panic of NewField. *)
Failed == [tag |-> "error", frames |-> <<>>]
Panicked == [tag |-> "panic", frames |-> <<>>]

Unsupported(frame) == \E j \in DOMAIN frame : frame[j].ty = "unsupported"

Parsed(frames) ==
  IF \E i \in DOMAIN frames : Unsupported(frames[i]) THEN Panicked
  ELSE [tag |-> "frames", frames |-> frames]

(* The n-th field of a name gets the suffix _n. *)
UniqueNames(frame) ==
  [i \in DOMAIN frame |->
     LET before == {j \in 1..(i - 1) : frame[j].name = frame[i].name}
     IN IF before = {} THEN frame[i]
        ELSE [frame[i] EXCEPT !.name = @ \o <<101 + Cardinality(before)>>]]

(* A column that cannot be shown panics before the rows are compared. *)
KeyedTable(o) ==
  LET keys == SimpleTable(o.key)
      values == SimpleTable(o.value)
  IN IF \/ ~IsKeyedTable(o)
        \/ /\ ~Unsupported(keys) /\ ~Unsupported(values)
           /\ keys # <<>> /\ values # <<>> /\ Len(keys[1].cells) # Len(values[1].cells)
     THEN Failed
     ELSE Parsed(<<UniqueNames(keys \o values)>>)

(* getDepth: how long the lists among the values of one key are; nothing for *)
(* its errors, lists of several lengths or nothing but strings.              *)
GetDepth(items) ==
  LET lists == {i \in DOMAIN items : items[i].t \notin {"atom", "chars"}}
      sizes == {Size(items[i]) : i \in lists}
  IN CASE sizes # {} /\ (\A m, n \in sizes : m = n) -> sizes
       [] lists = {} /\ (\E i \in DOMAIN items : items[i].t = "atom") -> {1}
       [] OTHER -> {}

(* Bug: every string among the values is a list of characters. *)
GroupedColumnOfChars(item, inKeyPlace, depth) ==
  CASE item.t = "atom" -> ProjectAtom(ColumnType(item.of), item.vs, depth)
    [] item.t = "chars" /\ inKeyPlace -> ProjectAtom("string", item.vs, depth)
    [] OTHER -> StandardColumn(item)

GroupedColumn(item, inKeyPlace, depth) ==
  CASE item.t = "atom" -> ProjectAtom(ColumnType(item.of), item.vs, depth)
    [] item.t = "chars" /\ (inKeyPlace \/ Size(item) # depth) -> ProjectAtom("string", item.vs, depth)
    [] OTHER -> StandardColumn(item)

(* correctedTableIndex *)
Row(table, i) == [c \in DOMAIN table.data |-> Item(table.data[c], i)]

(* ParseGroupedKdbTable: one frame per key.  A string is told from a list of *)
(* characters by its place among the columns written, keys or not.           *)
GroupFrameOfAll(o, includeKeys, row) ==   \* Bug: the keys count for the depth.
  LET values == Row(o.value, row)
      items == IF includeKeys THEN Row(o.key, row) \o values ELSE values
      names == IF includeKeys THEN o.key.cols \o o.value.cols ELSE o.value.cols
      depth == Max({Size(items[i]) : i \in {j \in DOMAIN items : items[j].t # "chars"}} \cup {1})
  IN Fields(names, [i \in DOMAIN items |-> GroupedColumn(items[i], i =< Len(o.key.cols), depth)])

GroupFrame(o, includeKeys, row) ==
  LET values == Row(o.value, row)
      items == IF includeKeys THEN Row(o.key, row) \o values ELSE values
      names == IF includeKeys THEN o.key.cols \o o.value.cols ELSE o.value.cols
      depth == CHOOSE d \in GetDepth(values) : TRUE
  IN Fields(names, [i \in DOMAIN items |-> GroupedColumn(items[i], i =< Len(o.key.cols), depth)])

(* correctedIndex has no item of a dictionary, and correctedTableIndex panics *)
(* over a column that is one, the values of a nested keyed table.             *)
Indexable(table) == \A c \in DOMAIN table.data : table.data[c].t # "dict"

GroupedTable(o, includeKeys) ==
  LET indexable == Indexable(o.key) /\ Indexable(o.value)
      Fails(row) == indexable /\ GetDepth(Row(o.value, row)) = {}
      Panics(row) == indexable => ~Fails(row) /\ Unsupported(GroupFrame(o, includeKeys, row))
      stops == {row \in 1..Size(o.key) : Fails(row) \/ Panics(row)}
  IN CASE ~IsKeyedTable(o) -> Failed
       [] IsKeyedTable(o) /\ stops = {} ->
            Parsed([row \in 1..Size(o.key) |-> GroupFrame(o, includeKeys, row)])
       [] OTHER -> IF Fails(Min(stops)) THEN Failed ELSE Panicked

-----------------------------------------------------------------------------
(* Panopticon mode: dictionaries, lists of dictionaries, atoms and vectors   *)

(* resizeColumn: a single cell is repeated, other lengths are left alone. *)
Resize(column, depth) ==
  IF Len(column.cells) = 1 /\ depth > 1
  THEN Column(column.ty, [i \in 1..depth |-> column.cells[1]])
  ELSE column

ObjectColumn(o, depth) ==
  CASE o.t = "atom" -> ProjectAtom(ColumnType(o.of), o.vs, depth)
    [] o.t = "chars" -> ProjectAtom("string", o.vs, depth)
    [] OTHER -> Resize(StandardColumn(o), depth)

(* The depth of a dictionary's frame; that of an object is its own. *)
Depth(items) ==
  LET sizes == {Size(items[i]) : i \in {j \in DOMAIN items : items[j].t \notin {"atom", "chars"}}}
  IN Max(sizes \cup {1})

ObjectFrame(o) ==
  LET depth == IF o.t \in {"atom", "chars"} THEN 1 ELSE Size(o)
  IN Parsed(<<Fields(<<ValueName>>, <<ObjectColumn(o, depth)>>)>>)

(* dictColumnNames: symbols, one string, or the texts of a general list. *)
HasNames(key) == key.t \in {"chars", "list"} \/ (key.t \in {"atom", "vec"} /\ key.of = "sym")

Names(key) ==
  CASE key.t \in {"atom", "vec"} -> [i \in DOMAIN key.vs |-> <<key.vs[i]>>]
    [] key.t = "chars" -> <<key.vs>>
    [] key.t = "list" -> Texts(key.items)

(* dictValues, with the comparison of the lengths its callers make. *)
HasValues(value, count) ==
  IF value.t = "list" THEN Len(value.items) = count
  ELSE count = 1 \/ (value.t \in {"vec", "chars"} /\ Size(value) = count)

Values(value, count) ==
  CASE value.t = "list" -> value.items
    [] value.t # "list" /\ count = 1 -> <<value>>
    [] OTHER -> [i \in 1..count |-> Item(value, i)]

IsDict(o) == o.t = "dict" /\ HasNames(o.key) /\ HasValues(o.value, Len(Names(o.key)))

DictFrame(o) ==
  IF ~IsDict(o) THEN Failed
  ELSE LET names == Names(o.key)
           values == Values(o.value, Len(names))
           depth == Depth(values)
       IN Parsed(<<Fields(names, [i \in DOMAIN values |-> ObjectColumn(values[i], depth)])>>)

-----------------------------------------------------------------------------
(* Lists of row dictionaries: cells are values on their own, and the type of *)
(* a column is found from its cells.                                         *)

Nil == [ty |-> "nil", v |-> Null]

CellValue(o) ==
  CASE o.t \in {"atom", "vec"} /\ Len(o.vs) = 1 -> [ty |-> CellType(o.of), v |-> o.vs]
    [] OTHER -> [ty |-> "string", v |-> Text(o)]

Numeric == {"int16", "int32", "int64", "uint8", "float32", "float64"}
Typed == {"string", "bool", "int16", "int32", "int64", "float32", "float64", "time"}

Kinds(cells) == {cells[i].ty : i \in DOMAIN cells} \ {"nil"}

(* mixedNumericColumn and its nullable twin *)
MixedNumeric(cells) == Kinds(cells) \subseteq Numeric /\ Cardinality(Kinds(cells)) > 1

(* The typed columns, tried by the type of the first value, and nullableTypedColumn *)
Uniform(cells) == Cardinality(Kinds(cells)) = 1 /\ Kinds(cells) \subseteq Typed

TypedColumn(cells) ==
  Column(CASE MixedNumeric(cells) -> "float64"
           [] Uniform(cells) -> CHOOSE k \in Kinds(cells) : TRUE
           [] OTHER -> "string",
         [i \in DOMAIN cells |-> cells[i].v])

RowNames(row) == Names(row.key)
RowValues(row) == Values(row.value, Len(RowNames(row)))

(* Bug: the order of the names is not looked at. *)
UniformRowsInAnyOrder(rows) ==
  \A i \in DOMAIN rows : ToSet(RowNames(rows[i])) = ToSet(RowNames(rows[1]))

(* parseKdbDictListUniformRows: the rows have the same names in the same order. *)
UniformRows(rows) == \A i \in DOMAIN rows : RowNames(rows[i]) = RowNames(rows[1])

UniformFrame(rows) ==
  LET names == RowNames(rows[1])
  IN Fields(names, [c \in DOMAIN names |->
                      TypedColumn([i \in DOMAIN rows |-> CellValue(RowValues(rows[i])[c])])])

(* The union of the names in order of appearance; a row without one has null. *)
FirstAppearances(names) ==
  LET upTo[n \in 0..Len(names)] ==
        IF n = 0 THEN <<>>
        ELSE IF Contains(upTo[n - 1], names[n]) THEN upTo[n - 1] ELSE Append(upTo[n - 1], names[n])
  IN upTo[Len(names)]

UnionNames(rows) == FirstAppearances(FlattenSeq([i \in DOMAIN rows |-> RowNames(rows[i])]))

CellOf(row, name) ==
  LET places == {c \in DOMAIN RowNames(row) : RowNames(row)[c] = name}
  IN IF places = {} THEN Nil ELSE CellValue(RowValues(row)[Max(places)])

UnionFrame(rows) ==
  LET names == UnionNames(rows)
  IN Fields(names, [c \in DOMAIN names |->
                      TypedColumn([i \in DOMAIN rows |-> CellOf(rows[i], names[c])])])

IsDictList(o) == o.t = "list" /\ o.items # <<>> /\ \A i \in DOMAIN o.items : IsDict(o.items[i])

DictList(o) ==
  IF ~IsDictList(o) THEN Failed
  ELSE Parsed(<<IF UniformRows(o.items) THEN UniformFrame(o.items) ELSE UnionFrame(o.items)>>)

-----------------------------------------------------------------------------
(* parseKdbResponseToFrames *)

OrElse(result, other) == IF result.tag = "error" THEN other ELSE result

(* moveTimeColumnToFront; time is a name, or <<>> if no column is to be moved. *)
TimeFirst(frame, time) ==
  LET place == CHOOSE i \in DOMAIN frame :
                 frame[i].name = time /\ \A j \in 1..(i - 1) : frame[j].name # time
  IN <<frame[place]>> \o RemoveAt(frame, place)

MoveTime(result, time) ==
  IF time = <<>> \/ result.tag # "frames" THEN result
  ELSE IF \E i \in DOMAIN result.frames : \A j \in DOMAIN result.frames[i] : result.frames[i][j].name # time
  THEN Failed
  ELSE [result EXCEPT !.frames = [i \in DOMAIN @ |-> TimeFirst(@[i], time)]]

Parse(o, panopticon, includeKeys, time) ==
  MoveTime(CASE o.t = "table" -> Parsed(<<SimpleTable(o)>>)
             [] o.t = "dict" /\ panopticon -> OrElse(KeyedTable(o), DictFrame(o))
             [] o.t = "dict" /\ ~panopticon -> GroupedTable(o, includeKeys)
             [] o.t = "list" /\ panopticon -> OrElse(DictList(o), ObjectFrame(o))
             [] o.t \in {"atom", "chars", "vec"} /\ panopticon -> ObjectFrame(o)
             [] OTHER -> Failed,
           time)
===============================================================================
