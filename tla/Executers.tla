----------------------------- MODULE Executers -----------------------------
(***************************************************************************)
(* The executers that yield rows (Q_Execution): scan, selection,           *)
(* projection, limit, four joins, external merge sort and two ways of      *)
(* grouping.  An executer is a record with its children inside it; open    *)
(* and getNext are functions of it and of the tables.                      *)
(*                                                                         *)
(* A table (TableHeap) is its name, its columns, its slots in the order of *)
(* a scan, and num_of_tuples.                                              *)
(***************************************************************************)
EXTENDS Values

CONSTANT PageRows   \* the rows a page has room for; std::sort sorts a page's rows

ASSUME PageRowsAssumption == PageRows \in 1 .. 16

Deleted == << >>

Live(heap) == SelectSeq(heap.rows, LAMBDA row : row # Deleted)

(* TableHeap::getColIndex: the number of columns for an unknown name.      *)
getColIndex(heap, name) ==
  LET at == SelectInSeq(heap.cols, LAMBDA c : <<"", "", c>> = name)
  IN  IF at = 0 THEN Len(heap.cols) + 1 ELSE at

(* An open that failed, and what a call of getNext returns.                *)
Failed(why) == [op |-> "failed", why |-> why]
IsFailed(e) == e.op = "failed"

Got(e, row)    == [e |-> e, res |-> "row", row |-> row]
End(e)         == [e |-> e, res |-> "end", row |-> << >>]
Fails(e, why)  == [e |-> e, res |-> why, row |-> << >>]
Passed(e, res) == Fails(e, res.res)   \* the child's own end or failure

RECURSIVE opened(_, _, _), getNext(_, _)

(* get_output_schema and getTableHeap (which is null over a join or a      *)
(* grouping).                                                              *)
RECURSIVE schema(_), heapOf(_)
schema(e) == IF e.op \in {"select", "limit"} THEN schema(e.child) ELSE e.cols

NoHeap == "no heap"
heapOf(e) ==
  CASE e.op = "scan" -> e.table
    [] e.op \in {"select", "project", "limit", "sort"} -> heapOf(e.child)
    [] OTHER -> NoHeap

Index(e, name) == SelectInSeq(schema(e), LAMBDA c : c.name = name)

(* has_column.  A scan puts the table's name in front of columns that have *)
(* it already, so that it never finds one.                                 *)
hasColumn(e, name) == e.op # "scan" /\ Index(e, name) # 0

---------------------------------------------------------------------------
NewScan(table) == [op |-> "scan", table |-> table, pos |-> 1, cols |-> << >>]

scanOpened(e, heaps) ==
  LET heap == heaps[e.table]
  IN  [e EXCEPT !.pos = 1,
                !.cols = [i \in DOMAIN heap.cols |-> Named(heap.name, heap.cols[i])]]

scanNext(e, heaps) ==
  LET rows == heaps[e.table].rows
      at   == SelectInSubSeq(rows, e.pos, Len(rows), LAMBDA row : row # Deleted)
  IN  IF at = 0 THEN End([e EXCEPT !.pos = Len(rows) + 1])
      ELSE Got([e EXCEPT !.pos = at + 1], rows[at])

(* Select *)
NewSelect(child, predicate) == [op |-> "select", child |-> child, predicate |-> predicate]

selectNext(e, c, heaps) ==
  LET f == [e EXCEPT !.child = c.e]
      v == evaluate(e.predicate, c.row, schema(e.child))
  IN  IF c.res # "row" THEN Passed(f, c)
      ELSE IF v = "true" THEN Got(f, c.row)
      ELSE IF v = "false" THEN getNext(f, heaps)
      ELSE Fails(f, v)

(* Projection: names the child does not have are left out.                 *)
NewProjection(child, names) ==
  [op |-> "project", child |-> child, names |-> names, at |-> << >>, cols |-> << >>]

projectOpened(e, child) ==
  LET found == SelectSeq(e.names, LAMBDA n : Index(child, n) # 0)
      at    == [i \in DOMAIN found |-> Index(child, found[i])]
  IN  [e EXCEPT !.child = child, !.at = at,
                !.cols = [i \in DOMAIN at |-> schema(child)[at[i]]]]

(* A row may have fewer fields than the child has columns.                 *)
projectNext(e, c) ==
  LET f == [e EXCEPT !.child = c.e]
  IN  IF c.res # "row" THEN Passed(f, c)
      ELSE IF Range(e.at) \subseteq DOMAIN c.row
      THEN Got(f, [i \in DOMAIN e.at |-> c.row[e.at[i]]])
      ELSE Fails(f, Dead)

(* Limit: its counters are set by the constructor, not by open.            *)
NewLimit(child, limit, offset) ==
  [op |-> "limit", child |-> child, limit |-> limit, offset |-> offset,
   skipped |-> 0, returned |-> 0]

limitNext(e, c, heaps) ==
  LET f == [e EXCEPT !.child = c.e]
  IN  IF e.skipped >= e.offset /\ e.returned >= e.limit THEN End(e)
      ELSE IF c.res # "row" THEN Passed(f, c)
      ELSE IF e.skipped < e.offset
      THEN getNext([f EXCEPT !.skipped = @ + 1], heaps)
      ELSE Got([f EXCEPT !.returned = @ + 1], c.row)

---------------------------------------------------------------------------
(* NestedLoopJoin.  Missing partners are padded with the text "NULL".      *)
NewNestedLoop(outer, inner, predicate, type) ==
  [op |-> "nestedloop", outer |-> outer, inner |-> inner, predicate |-> predicate,
   type |-> type, row |-> << >>, has_inner |-> FALSE, matches |-> -1, cols |-> << >>]

Padding(n) == [i \in 1 .. n |-> Text(0)]

joinOpened(e, outer, inner) ==
  [e EXCEPT !.outer = outer, !.inner = inner, !.cols = schema(outer) \o schema(inner)]

nextOuter(e, o, heaps) ==
  LET f == [e EXCEPT !.outer = o.e]
  IN  IF o.res # "row" THEN Passed(f, o)
      ELSE getNext([f EXCEPT !.row = o.row, !.matches = 0, !.has_inner = TRUE,
                             !.inner = opened(e.inner, heaps, "zero")], heaps)

nextInner(e, i, heaps) ==
  LET f == [e EXCEPT !.inner = i.e]
      v == evaluate(e.predicate, e.row \o i.row, e.cols)
  IN  IF i.res # "row" THEN getNext([f EXCEPT !.has_inner = FALSE], heaps)
      ELSE IF v = "true" THEN Got([f EXCEPT !.matches = @ + 1], e.row \o i.row)
      ELSE IF v # "false" THEN Fails(f, v)
      ELSE IF e.type \in {"right", "full"} THEN Got(f, Padding(Len(e.row)) \o i.row)
      ELSE getNext(f, heaps)

nestedLoopNext(e, heaps) ==
  IF e.has_inner THEN nextInner(e, getNext(e.inner, heaps), heaps)
  ELSE IF e.matches = 0 /\ e.type \in {"left", "full"}
  THEN Got([e EXCEPT !.matches = -1], e.row \o Padding(Len(schema(e.inner))))
  ELSE nextOuter(e, getNext(e.outer, heaps), heaps)

---------------------------------------------------------------------------
(* HashJoin: the table of the outer rows is built by the first getNext.    *)
NewHashJoin(outer, inner, col) ==
  [op |-> "hashjoin", outer |-> outer, inner |-> inner, col |-> col, built |-> FALSE,
   hashed |-> << >>, row |-> << >>, tuple_index |-> 0, cols |-> << >>]

(* The rows an executer still yields, r the first of them, and what ended  *)
(* them.                                                                   *)
RECURSIVE drained(_, _, _)
drained(r, heaps, rows) ==
  IF r.res = "row" THEN drained(getNext(r.e, heaps), heaps, Append(rows, r.row))
  ELSE [e |-> r.e, res |-> r.res, rows |-> rows]

allRows(e, heaps) == drained(getNext(e, heaps), heaps, << >>)

KeyOf(row, heap, col) == row[getColIndex(heap, col)]

(* As a join that does not start over in the next row's bucket.            *)
RECURSIVE probedOnwards(_, _, _)
probedOnwards(e, i, heaps) ==
  LET key  == KeyOf(e.row, heaps[heapOf(e.inner)], e.col)
      hits == SelectSeq(e.hashed, LAMBDA row :
                          Same(KeyOf(row, heaps[heapOf(e.outer)], e.col), key))
      f    == [e EXCEPT !.inner = i.e]
  IN  IF e.tuple_index < Len(hits)
      THEN Got([e EXCEPT !.tuple_index = @ + 1], hits[e.tuple_index + 1] \o e.row)
      ELSE IF i.res # "row" THEN Passed(f, i)
      ELSE probedOnwards([f EXCEPT !.row = i.row], getNext(i.e, heaps), heaps)

RECURSIVE probed(_, _, _)
probed(e, i, heaps) ==
  LET key  == KeyOf(e.row, heaps[heapOf(e.inner)], e.col)
      hits == SelectSeq(e.hashed, LAMBDA row :
                          Same(KeyOf(row, heaps[heapOf(e.outer)], e.col), key))
      f    == [e EXCEPT !.inner = i.e, !.tuple_index = 0]
  IN  IF e.tuple_index < Len(hits)
      THEN Got([e EXCEPT !.tuple_index = @ + 1], hits[e.tuple_index + 1] \o e.row)
      ELSE IF i.res # "row" THEN Passed(f, i)
      ELSE probed([f EXCEPT !.row = i.row], getNext(i.e, heaps), heaps)

hashJoinNext(e, o, i, heaps) ==
  LET f == [e EXCEPT !.outer = o.e, !.inner = i.e, !.built = TRUE, !.hashed = o.rows]
  IN  IF e.built THEN probed(e, i, heaps)
      ELSE IF o.res # "end" THEN Passed(e, o)
      ELSE IF i.res # "row" THEN Passed(f, i)
      ELSE probed([f EXCEPT !.row = i.row], getNext(i.e, heaps), heaps)

(* IndexedNestedLoopJoin.  Its index is <<key, slot>> pairs; its inner     *)
(* table is never opened, and its columns go by their plain names.         *)
NewIndexJoin(outer, inner, index, col) ==
  [op |-> "indexjoin", outer |-> outer, inner |-> inner, index |-> index, col |-> col,
   row |-> << >>, inner_matches |-> << >>, cols |-> << >>]

indexJoinOpened(e, outer, heaps) ==
  LET cols == heaps[e.inner].cols
  IN  IF IsFailed(outer) THEN outer
      ELSE [e EXCEPT !.outer = outer,
                     !.cols = schema(outer) \o [i \in DOMAIN cols |-> Named("", cols[i])]]

indexJoinNext(e, o, heaps) ==
  LET key  == KeyOf(o.row, heaps[heapOf(e.outer)], e.col)
      hits == SelectSeq(e.index, LAMBDA entry : Same(entry[1], key))
  IN  IF e.inner_matches # << >>
      THEN Got([e EXCEPT !.inner_matches = Front(@)],
               e.row \o heaps[e.inner].rows[Last(e.inner_matches)[2]])
      ELSE IF o.res # "row" THEN Passed([e EXCEPT !.outer = o.e], o)
      ELSE getNext([e EXCEPT !.outer = o.e, !.row = o.row, !.inner_matches = hits], heaps)

---------------------------------------------------------------------------
(* ExternalMergeSort.  Its key is looked up in the table's own columns, so *)
(* that the name a scan gave the column ("table.column") is not found, and *)
(* the field behind the row's last is read.  What that memory holds is up  *)
(* to the build: it may look like zero, like a copy of the first field or  *)
(* of its negative, or end the program.                                    *)
Memory == {"zero", "copy", "negated", "wild"}

Behind(row, mem) ==
  CASE mem = "zero"    -> Number(0)
    [] mem = "copy"    -> row[1]
    [] mem = "negated" -> [row[1] EXCEPT !.v = -@]
    [] mem = "wild"    -> NoField

NewSort(child, key, method) ==
  [op |-> "sort", child |-> child, key |-> key, method |-> method, pages_ids |-> << >>,
   pos |-> 1, cols |-> << >>]

keyed(rows, at, mem) ==
  [i \in DOMAIN rows |->
     [key |-> IF at \in DOMAIN rows[i] THEN rows[i][at] ELSE Behind(rows[i], mem),
      row |-> rows[i]]]

plain(keyedRows) == [i \in DOMAIN keyedRows |-> keyedRows[i].row]

Before(method, x, y) == IF method = "asc" THEN Less(x.key, y.key) ELSE Less(y.key, x.key)

(* A sort that compared two NULLs, or memory that is no field.             *)
Stopped(why) == << [key |-> [NoField EXCEPT !.type = why], row |-> << >>] >>
Stop(x, y) == IF NoField \in {x.key, y.key} THEN Stopped(Dead) ELSE Stopped(Threw)
Bad(x, y)  == NoField \in {x.key, y.key} \/ Unordered(x.key, y.key)
IsStopped(s) == s # << >> /\ s[1].key.type \in {Threw, Dead}

(* One step of std::sort on a few rows: x is compared with the first, and  *)
(* then from the last to the one it goes behind.                           *)
inserted(s, x, method) ==
  LET p == SelectLastInSeq(s, LAMBDA y : ~Before(method, x, y))
  IN  IF s = << >> THEN <<x>>
      ELSE IF IsStopped(s) THEN s
      ELSE IF Bad(x, s[1]) THEN Stop(x, s[1])
      ELSE IF Before(method, x, s[1]) THEN <<x>> \o s
      ELSE IF Bad(x, Last(s)) THEN Stop(x, Last(s))
      ELSE InsertAt(s, p + 1, x)

sorted(rows, method) == FoldLeft(LAMBDA s, x : inserted(s, x, method), << >>, rows)

(* Two runs are merged, the right one's row first among equals.            *)
RECURSIVE merged(_, _, _)
merged(l, r, method) ==
  IF IsStopped(l) \/ r = << >> THEN l
  ELSE IF IsStopped(r) \/ l = << >> THEN r
  ELSE IF Bad(l[1], r[1]) THEN Stop(l[1], r[1])
  ELSE LET first == IF Before(method, l[1], r[1]) THEN l[1] ELSE r[1]
           rest  == IF Before(method, l[1], r[1]) THEN merged(Tail(l), r, method)
                    ELSE merged(l, Tail(r), method)
       IN  IF IsStopped(rest) THEN rest ELSE <<first>> \o rest

(* As a merge that stops when the left run is used up.                     *)
RECURSIVE mergedShort(_, _, _)
mergedShort(l, r, method) ==
  IF l = << >> \/ r = << >> \/ IsStopped(l) \/ IsStopped(r) THEN l
  ELSE IF Bad(l[1], r[1]) THEN Stop(l[1], r[1])
  ELSE LET first == IF Before(method, l[1], r[1]) THEN l[1] ELSE r[1]
           rest  == IF Before(method, l[1], r[1]) THEN mergedShort(Tail(l), r, method)
                    ELSE mergedShort(l, Tail(r), method)
       IN  IF IsStopped(rest) THEN rest ELSE <<first>> \o rest

mergeRuns(l, r, method) == merged(l, r, method)

(* The queue of runs, merged two by two until one is left.                 *)
RECURSIVE mergedAll(_, _)
mergedAll(runs, method) ==
  IF Len(runs) = 1 THEN runs[1]
  ELSE mergedAll(Append(SubSeq(runs, 3, Len(runs)),
                        mergeRuns(runs[1], runs[2], method)), method)

(* The rows, a page at a time.                                             *)
pagesOf(rows) ==
  [p \in 1 .. (Len(rows) + PageRows - 1) \div PageRows |->
     SubSeq(rows, (p - 1) * PageRows + 1,
            IF p * PageRows > Len(rows) THEN Len(rows) ELSE p * PageRows)]

(* open.  The queue still has what an earlier open left there, so that a   *)
(* sort opened again yields its rows once more; an empty queue has no      *)
(* front.                                                                  *)
runOpened(e, run) ==
  IF IsStopped(run) THEN Failed(run[1].key.type)
  ELSE [e EXCEPT !.pages_ids = <<plain(run)>>, !.pos = 1]

sortOpened(e, child, d, heaps, mem) ==
  LET at   == getColIndex(heaps[heapOf(child)], e.key)
      new  == pagesOf(d.rows)
      runs == [p \in DOMAIN e.pages_ids |-> keyed(e.pages_ids[p], at, mem)]
              \o [p \in DOMAIN new |-> sorted(keyed(new[p], at, mem), e.method)]
  IN  IF heapOf(child) = NoHeap THEN Failed(Dead)
      ELSE IF d.res # "end" THEN Failed(d.res)
      ELSE IF runs = << >> THEN Failed(Dead)
      ELSE runOpened([e EXCEPT !.child = d.e, !.cols = schema(child)],
                     mergedAll(runs, e.method))

sortNext(e) ==
  LET run == e.pages_ids[1]
  IN  IF e.pos > Len(run) THEN End(e) ELSE Got([e EXCEPT !.pos = @ + 1], run[e.pos])

---------------------------------------------------------------------------
(* Grouping.  A function is [type, key]: what it computes and from which   *)
(* column.  Its state starts at zero, for MAX and MIN too.                 *)
Larger(a, b) == IF a < b THEN b ELSE a

AggValues == [counter |-> 0, value |-> 0]

updated(f, state, row) ==
  LET v == row[f.key].v
  IN  [counter |-> state.counter + 1,
       value   |-> CASE f.type \in {"SUM", "AVG"} -> state.value + v
                     [] f.type = "MAX" -> Larger(state.value, v)
                     [] f.type = "MIN" -> -Larger(-state.value, -v)
                     [] OTHER -> state.value]

update_aggregate(fns, states, row) == [i \in DOMAIN fns |-> updated(fns[i], states[i], row)]

fresh(fns) == [i \in DOMAIN fns |-> AggValues]

(* A NULL in a column that is aggregated throws.                           *)
Aggregable(fns, rows) == \A i \in DOMAIN fns, r \in Range(rows) : ~IsNull(r[fns[i].key])

get_grouping_fields(keys, row) == [i \in DOMAIN keys |-> row[keys[i]]]

SameGroup(k, l) == \A i \in DOMAIN k : Same(k[i], l[i])

(* SUM(table.column)                                                       *)
functionCols(fns, cols) ==
  [i \in DOMAIN fns |-> [cols[fns[i].key] EXCEPT !.name[1] = fns[i].type]]

(* SortAggregateExecuter makes an integer field of each result; COUNT's is *)
(* made from a double, whose lower half, read back as the integer, is 0.   *)
intResult(f, state) ==
  CASE f.type = "AVG"   -> Float(state.value, state.counter)
    [] f.type = "COUNT" -> Number(0)
    [] OTHER            -> Number(state.value)

NewSortAggregate(child, keys, fns, having) ==
  [op |-> "group", child |-> child, keys |-> keys, fns |-> fns, having |-> having,
   rows |-> << >>, cols |-> << >>]

(* The sort is opened by its constructor and once more.  Only the first    *)
(* grouping column orders it, by the name the scan gave it.                *)
openedTwice(e, heaps, mem) == opened(opened(e, heaps, mem), heaps, mem)

groupSort(e, child) == NewSort(child, schema(child)[e.keys[1]].name, "asc")

groupOpened(e, child, s) ==
  IF IsFailed(s) THEN s
  ELSE [e EXCEPT !.child = s.child, !.rows = s.pages_ids[1],
                 !.cols = schema(child) \o functionCols(e.fns, schema(child))]

(* A group ends where a grouping column changes.  Its row has the grouping *)
(* columns and the results, whereas cols has all of the child's columns.   *)
groupNext(e, heaps) ==
  LET key    == get_grouping_fields(e.keys, e.rows[1])
      end    == SelectInSeq(e.rows, LAMBDA row :
                              ~SameGroup(key, get_grouping_fields(e.keys, row)))
      n      == IF end = 0 THEN Len(e.rows) ELSE end - 1
      group  == SubSeq(e.rows, 1, n)
      states == FoldLeft(LAMBDA s, row : update_aggregate(e.fns, s, row), fresh(e.fns), group)
      row    == key \o [i \in DOMAIN e.fns |-> intResult(e.fns[i], states[i])]
      v      == IF e.having = NoPredicate THEN "true" ELSE evaluate(e.having, row, e.cols)
      f      == [e EXCEPT !.rows = SubSeq(@, n + 1, Len(@))]
  IN  IF e.rows = << >> THEN End(e)
      ELSE IF ~Aggregable(e.fns, group) THEN Fails(e, Threw)
      ELSE IF v = "true" THEN Got(f, row)
      ELSE IF v = "false" THEN getNext(f, heaps)
      ELSE Fails(e, v)

(* HashAggregateExecuter: groups_map as pairs of a key and its states.     *)
NewHashAggregate(child, keys, fns) ==
  [op |-> "hashgroup", child |-> child, keys |-> keys, fns |-> fns, groups_map |-> << >>,
   groups |-> << >>, curr_group_index |-> 1, cols |-> << >>]

KeyLess(k, l) ==
  \E i \in DOMAIN k : Less(k[i], l[i]) /\ \A j \in 1 .. i - 1 : Same(k[j], l[j])

(* The map with a row taken in, in the order of its keys.                  *)
grouped(map, keys, fns, row) ==
  LET key   == get_grouping_fields(keys, row)
      at    == SelectInSeq(map, LAMBDA g : SameGroup(g.key, key))
      after == SelectInSeq(map, LAMBDA g : KeyLess(key, g.key))
      new   == [key |-> key, states |-> update_aggregate(fns, fresh(fns), row)]
  IN  IF at # 0 THEN [map EXCEPT ![at].states = update_aggregate(fns, @, row)]
      ELSE InsertAt(map, IF after = 0 THEN Len(map) + 1 ELSE after, new)

hashGroupOpened(e, child, d) ==
  LET map == FoldLeft(LAMBDA m, row : grouped(m, e.keys, e.fns, row), e.groups_map, d.rows)
  IN  IF d.res # "end" THEN Failed(d.res)
      ELSE IF ~Aggregable(e.fns, d.rows) THEN Failed(Threw)
      ELSE [e EXCEPT !.child = d.e, !.groups_map = map, !.groups = @ \o map,
                     !.cols = schema(child) \o functionCols(e.fns, schema(child))]

floatResult(f, state) ==
  CASE f.type = "AVG"   -> Float(state.value, state.counter)
    [] f.type = "COUNT" -> Float(state.counter, 1)
    [] OTHER            -> Float(state.value, 1)

hashGroupNext(e) ==
  LET g == e.groups[e.curr_group_index]
  IN  IF e.curr_group_index > Len(e.groups) THEN End(e)
      ELSE Got([e EXCEPT !.curr_group_index = @ + 1],
               g.key \o [i \in DOMAIN e.fns |-> floatResult(e.fns[i], g.states[i])])

---------------------------------------------------------------------------
(* MergeJoin, over two sorts that are each opened twice.  outer and inner  *)
(* hold what the sorts still yield, row and t2 the current tuples.         *)
NewMergeJoin(outer, inner, col) ==
  [op |-> "mergejoin", outer_table |-> outer, inner_table |-> inner, col |-> col,
   outer |-> << >>, inner |-> << >>, row |-> << >>, t2 |-> << >>, batch |-> << >>,
   cols |-> << >>]

sortedTwice(child, heaps, col, mem) ==
  LET key == schema(child)[getColIndex(heaps[heapOf(child)], col)].name
  IN  openedTwice(NewSort(child, key, "asc"), heaps, mem)

mergeJoinOpened(e, o, i) ==
  IF IsFailed(o) THEN o
  ELSE IF IsFailed(i) THEN i
  ELSE [e EXCEPT !.outer_table = o.child, !.inner_table = i.child,
                 !.outer = Tail(o.pages_ids[1]), !.row = Head(o.pages_ids[1]),
                 !.inner = Tail(i.pages_ids[1]), !.t2 = Head(i.pages_ids[1]),
                 !.cols = schema(o.child) \o schema(i.child)]

(* The pointers of getNext are static: every merge join counts on from     *)
(* where the last one stopped.                                             *)
NoPointers == [left |-> 0, right |-> 0]

batchOf(row, inners) == [i \in DOMAIN inners |-> row \o inners[i]]

(* The head of s, or the empty tuple, and how many of the first n elements *)
(* of s have this key.                                                     *)
HeadOf(s) == IF s = << >> THEN << >> ELSE Head(s)
Rest(s)   == IF s = << >> THEN << >> ELSE Tail(s)
Leading(s, at, key, n) ==
  LET end == SelectInSeq(s, LAMBDA row : ~Same(row[at], key))
      all == IF end = 0 THEN Len(s) ELSE end - 1
  IN  IF all > n THEN (IF n < 0 THEN 0 ELSE n) ELSE all

RECURSIVE merging(_, _, _)
merging(e, heaps, at) ==
  LET outerHeap == heaps[heapOf(e.outer_table)]
      innerHeap == heaps[heapOf(e.inner_table)]
      a     == getColIndex(outerHeap, e.col)
      b     == getColIndex(innerHeap, e.col)
      key   == e.row[a]
      equal == Same(key, e.t2[b])
      \* the first match, after which the inner side must go on
      first == IF equal THEN <<e.t2>> ELSE << >>
      inner == IF equal THEN e.inner ELSE <<e.t2>> \o e.inner
      right == IF Less(key, e.t2[b]) THEN at.right ELSE at.right + 1
      left  == IF Less(key, e.t2[b]) THEN at.left + 1 ELSE at.left
      \* the matches after it, while the pointer is within the table
      n     == Leading(inner, b, key, innerHeap.count - right)
      match == first \o SubSeq(inner, 1, n)
      rest  == SubSeq(inner, n + 1, Len(inner))
      jj    == right + n - (IF n > 0 /\ rest = << >> THEN 1 ELSE 0)
      \* the outer rows with the key of the first match
      m     == IF match = << >> THEN 0
               ELSE Leading(e.outer, a, match[1][b], outerHeap.count - left - 1)
      rows  == <<e.row>> \o SubSeq(e.outer, 1, m)
      batch == FlattenSeq([i \in DOMAIN rows |-> batchOf(rows[i], match)])
      over  == SubSeq(e.outer, m + 1, Len(e.outer))
      f     == [e EXCEPT !.inner = Rest(rest), !.t2 = HeadOf(rest), !.outer = Rest(over),
                         !.row = IF over = << >> THEN Last(rows) ELSE Head(over)]
      after == [left |-> left + 1 + m, right |-> IF match = << >> THEN right ELSE jj]
  IN  IF at.left >= outerHeap.count \/ at.right >= innerHeap.count \/ e.t2 = << >>
      THEN [end |-> TRUE, e |-> e, at |-> at, batch |-> << >>]
      \* an inner side that ends with the first match, an outer side that has ended
      ELSE IF equal /\ e.inner = << >> THEN [end |-> TRUE, e |-> e, at |-> at, batch |-> << >>]
      ELSE IF e.outer = << >>
      THEN [end |-> TRUE, e |-> f, at |-> [left |-> left + 1, right |-> right], batch |-> << >>]
      ELSE IF batch # << >> THEN [end |-> FALSE, e |-> f, at |-> after, batch |-> batch]
      ELSE merging(f, heaps, after)

(* The batch is taken from its end; m is what merging comes to.            *)
mergeJoinNext(e, m, at) ==
  IF e.batch # << >>
  THEN [next |-> Got([e EXCEPT !.batch = Front(@)], Last(e.batch)), at |-> at]
  ELSE IF m.end THEN [next |-> End(m.e), at |-> m.at]
  ELSE [next |-> Got([m.e EXCEPT !.batch = Front(m.batch)], Last(m.batch)), at |-> m.at]

---------------------------------------------------------------------------
(* open, for every executer: the children first.                           *)
joinSides(e, o, i) ==
  IF IsFailed(o) THEN o ELSE IF IsFailed(i) THEN i ELSE joinOpened(e, o, i)

mergeSides(e, t, u, heaps, mem) ==
  IF IsFailed(t) THEN t ELSE IF IsFailed(u) THEN u
  ELSE mergeJoinOpened(e, sortedTwice(t, heaps, e.col, mem), sortedTwice(u, heaps, e.col, mem))

overChild(e, c, heaps, mem) ==
  CASE IsFailed(c) -> c
    [] e.op \in {"select", "limit"} -> [e EXCEPT !.child = c]
    [] e.op = "project"   -> projectOpened(e, c)
    [] e.op = "sort"      -> sortOpened(e, c, allRows(c, heaps), heaps, mem)
    [] e.op = "group"     -> groupOpened(e, c, openedTwice(groupSort(e, c), heaps, mem))
    [] e.op = "hashgroup" -> hashGroupOpened(e, c, allRows(c, heaps))

opened(e, heaps, mem) ==
  CASE IsFailed(e) -> e
    [] e.op = "scan" -> scanOpened(e, heaps)
    [] e.op = "indexjoin" -> indexJoinOpened(e, opened(e.outer, heaps, mem), heaps)
    [] e.op \in {"nestedloop", "hashjoin"} ->
         joinSides(e, opened(e.outer, heaps, mem), opened(e.inner, heaps, mem))
    [] e.op = "mergejoin" ->
         mergeSides(e, opened(e.outer_table, heaps, mem), opened(e.inner_table, heaps, mem),
                    heaps, mem)
    [] OTHER -> overChild(e, opened(e.child, heaps, mem), heaps, mem)

(* getNext, for every executer but the merge join, given the next rows of  *)
(* its children.                                                           *)
getNext(e, heaps) ==
  CASE e.op = "scan"       -> scanNext(e, heaps)
    [] e.op = "select"     -> selectNext(e, getNext(e.child, heaps), heaps)
    [] e.op = "project"    -> projectNext(e, getNext(e.child, heaps))
    [] e.op = "limit"      -> limitNext(e, getNext(e.child, heaps), heaps)
    [] e.op = "nestedloop" -> nestedLoopNext(e, heaps)
    [] e.op = "hashjoin"   ->
         hashJoinNext(e, allRows(e.outer, heaps), getNext(e.inner, heaps), heaps)
    [] e.op = "indexjoin"  -> indexJoinNext(e, getNext(e.outer, heaps), heaps)
    [] e.op = "sort"       -> sortNext(e)
    [] e.op = "group"      -> groupNext(e, heaps)
    [] e.op = "hashgroup"  -> hashGroupNext(e)

(* A constructor: most of them open what they made, and all of them need   *)
(* children that were made.                                                *)
OpensItself == {"scan", "select", "project", "nestedloop", "sort", "group"}

Made(e, heaps, mem) == IF e.op \in OpensItself THEN opened(e, heaps, mem) ELSE e
=============================================================================
