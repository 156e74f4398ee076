------------------------------ MODULE MCExcelReport ------------------------------
(* Worlds for ExcelReport: workbooks of two bindings side by side, above each *)
(* other or over each other, faulty settings and requests, answers of kdb+,   *)
(* and one small report for many links and downloads.                         *)
EXTENDS ExcelReport

CONSTANTS g1, g2

s == [name |-> "s", key |-> "s"]
S == [name |-> "S", key |-> "s"]
t == [name |-> "t", key |-> "t"]
blank == [name |-> "", key |-> ""]

NoClear == [kind |-> "none", box |-> <<1, 1, 1, 1>>]

binding ==
  [id |-> "A", query |-> FALSE, async |-> FALSE, panopticon |-> FALSE, includeKeys |-> FALSE, time |-> <<>>,
   sheet |-> s, row |-> 1, col |-> 1, clear |-> NoClear, header |-> TRUE, mode |-> "", maxRows |-> 0]
report ==
  [id |-> "R", padded |-> FALSE, mode |-> "", maxRows |-> 0, template |-> "", bindings |-> <<binding>>]

Frame(id, width, rows) == [for |-> {id}, width |-> width, rows |-> rows]

nothing == [t |-> "other"]
base ==
  [reports |-> <<report>>, dirs |-> "some", wanted |-> "R", range |-> "ok", maxRows |-> 0,
   submitted |-> <<Frame("A", 1, 2)>>, answers |-> <<nothing, nothing>>, cell |-> <<"s", 2, 2>>]

With(bindings) == [base EXCEPT !.reports[1].bindings = bindings]

(* Two bindings with frames of their own; the first has two and one without fields. *)
Frames == <<Frame("A", 2, 1), Frame("A", 0, 0), Frame("A", 1, 2), Frame("B", 1, 2)>>
Layouts ==
  {[With(<<[binding EXCEPT !.sheet = sheet1, !.mode = mode1, !.header = header],
           [binding EXCEPT !.id = "B", !.sheet = sheet2, !.mode = mode2, !.row = row2,
                           !.clear = clear2, !.header = header]>>)
    EXCEPT !.submitted = Frames, !.reports[1].template = template] :
     sheet1 \in {s}, sheet2 \in {s, S, t}, mode1 \in {"cells", "stream"}, mode2 \in {"rows", "stream", "cells"},
     row2 \in {1, 4, 9, 10}, header \in BOOLEAN, template \in {"", "ok"},
     clear2 \in {NoClear, [kind |-> "range", box |-> <<9, 2, 8, 1>>]}}

Faulty ==
  {[base EXCEPT !.reports = r] :
     r \in {<<>>, <<report, report>>, <<report, [report EXCEPT !.padded = TRUE]>>,
            <<[report EXCEPT !.padded = TRUE]>>, <<[report EXCEPT !.id = ""]>>,
            <<[report EXCEPT !.bindings = <<>>]>>, <<report, [report EXCEPT !.id = "Q", !.maxRows = 0 - 1]>>}}
  \cup {[base EXCEPT !.reports[1].template = template, !.dirs = dirs] :
          template \in {"ok", "notXlsx", "relative", "missing", "directory", "outside", "corrupt"},
          dirs \in {"some", "none", "badEntry"}}
  \cup {[base EXCEPT !.range = range] : range \in {"missing", "unreadable", "reversed"}}
  \cup {With(<<b>>) :
          b \in {[binding EXCEPT !.mode = "bogus"], [binding EXCEPT !.row = 0], [binding EXCEPT !.sheet = blank],
                 [binding EXCEPT !.maxRows = 0 - 1], [binding EXCEPT !.id = ""],
                 [binding EXCEPT !.clear.kind = "malformed"], [binding EXCEPT !.clear.kind = "notCells"],
                 [binding EXCEPT !.query = TRUE, !.async = TRUE], [binding EXCEPT !.row = 11]}}
  \cup {[base EXCEPT !.wanted = "Q"], [base EXCEPT !.submitted = <<>>],
        [base EXCEPT !.submitted = <<Frame("Z", 1, 1)>>], [base EXCEPT !.submitted = <<Frame("Z", 0, 0)>>],
        [base EXCEPT !.maxRows = 1], [base EXCEPT !.maxRows = 1, !.reports[1].maxRows = 2],
        [base EXCEPT !.reports[1].maxRows = 1, !.reports[1].bindings[1].maxRows = 2]}

-----------------------------------------------------------------------------
(* Answers of kdb+ *)

long(n) == [t |-> "atom", of |-> "long", vs |-> <<n>>]
float(n) == [t |-> "atom", of |-> "float", vs |-> <<n>>]
sym(n) == [t |-> "atom", of |-> "sym", vs |-> <<n>>]
guid(n) == [t |-> "atom", of |-> "guid", vs |-> <<n>>]
string(vs) == [t |-> "chars", vs |-> vs]
longs(vs) == [t |-> "vec", of |-> "long", vs |-> vs]
syms(vs) == [t |-> "vec", of |-> "sym", vs |-> vs]
times(vs) == [t |-> "vec", of |-> "timestamp", vs |-> vs]
list(items) == [t |-> "list", items |-> items]
table(cols, data) == [t |-> "table", cols |-> cols, data |-> data, count |-> Size(data[1])]
dict(key, value) == [t |-> "dict", key |-> key, value |-> value]

a == <<11>>
b == <<12>>
c == <<13>>

Nested == {table(<<a>>, <<longs(<<1>>)>>), dict(syms(<<11>>), longs(<<1>>)), nothing}

Values1 == {long(1), sym(2), string(<<3, 4>>), string(<<3>>), longs(<<5, 6>>), longs(<<5>>), list(<<long(1), string(<<2>>)>>)}

Flat ==
  {table(<<a, b>>, <<longs(<<1, 2>>), col>>) :
     col \in {times(<<3, 4>>), string(<<3, 4>>), list(<<long(3), string(<<4, 5>>)>>), list(<<nothing, sym(4)>>)}}
  \cup {table(<<a>>, <<col>>) : col \in {longs(<<>>), table(<<b>>, <<longs(<<1>>)>>)}}

(* One row per key; its values are items of the columns of the value table. *)
Grouped ==
  {dict(table(<<a>>, <<key>>), table(<<b, c>>, <<list(<<v>>), list(<<w>>)>>)) :
     key \in {syms(<<1>>), list(<<string(<<1, 2>>)>>), list(<<longs(<<1, 2, 3>>)>>)},
     v \in Values1 \cup Nested, w \in {long(1), string(<<3, 4>>), longs(<<5, 6>>)}}
  \cup {dict(table(<<a>>, <<syms(<<1, 2>>)>>), table(<<b, a>>, <<longs(<<3, 4>>), list(<<v, w>>)>>)) :
          v \in Values1 \cup {nothing}, w \in {longs(<<5, 6>>), nothing}}
  \cup {dict(table(<<a>>, <<longs(<<1>>)>>), table(<<b>>, <<v>>)) :
          v \in {table(<<c>>, <<longs(<<1>>)>>), dict(table(<<a>>, <<syms(<<1>>)>>), table(<<c>>, <<longs(<<2>>)>>))}}

Dicts ==
  {dict(key, value) :
     key \in {syms(<<11, 12>>), list(<<string(a), sym(12)>>), longs(<<1, 2>>)},
     value \in {longs(<<1, 2>>), string(<<3, 4>>), long(1)}
               \cup {list(<<v, w>>) : v \in Values1 \cup Nested, w \in {long(1), longs(<<7, 8, 9>>)}}}
  \cup {dict(key, value) : key \in {sym(11), string(a)}, value \in {longs(<<1, 2>>), long(1), list(<<>>), nothing}}
  \cup {dict(table(<<a>>, <<syms(<<1>>)>>), longs(<<1>>))}

row(names, values) == dict(syms(names), list(values))
Rows2 ==
  {list(<<row(<<11, 12>>, <<v, sym(1)>>), second>>) :
     v \in {long(1), float(2), guid(3), longs(<<5>>), string(<<6, 7>>), nothing},
     second \in {row(<<11, 12>>, <<long(3), sym(4)>>), row(<<12, 11>>, <<sym(4), long(3)>>),
                 row(<<13, 11>>, <<string(<<5>>), float(6)>>), row(<<12>>, <<long(7)>>),
                 row(<<11, 11>>, <<long(3), long(4)>>), row(<<11, 12>>, <<long(3)>>), long(1)}}
  \cup {list(<<row(<<11, 11>>, <<long(1), long(2)>>), row(<<11, 11>>, <<long(3), long(4)>>)>>)}

Objects == Flat \cup Grouped \cup Dicts \cup Rows2 \cup Values1 \cup {nothing, list(<<>>)}

Answers ==
  {[With(<<[binding EXCEPT !.query = TRUE, !.panopticon = panopticon, !.includeKeys = includeKeys, !.time = time]>>)
    EXCEPT !.answers[1] = o] :
     panopticon \in BOOLEAN, includeKeys \in BOOLEAN, time \in {<<>>, b}, o \in Objects}

MCWorlds == Layouts \cup Faulty \cup Answers \cup {base}

(* Links and downloads are many only for the small report. *)
Small ==
  world # base =>
    now = 0 /\ instance = 1 /\ link[g2] = "idle" /\ \A k \in Takers : take[k] = "idle"
===============================================================================
