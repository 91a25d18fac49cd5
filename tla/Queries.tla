------------------------------ MODULE Queries ------------------------------
(***************************************************************************)
(* Statements over a few tables, one after another: each is bound, planned *)
(* and made into an executer, whose rows are then fetched one by one       *)
(* (the statement loop of Executer/ExecuterFactory.c++).  The executers    *)
(* that no SQL reaches (the joins on columns, the aggregation by hashing)  *)
(* are driven directly.                                                    *)
(*                                                                         *)
(* The tables, the bind context and the pointers of the merge join outlive *)
(* a statement.                                                            *)
(***************************************************************************)
EXTENDS Binder

CONSTANTS
  Schemas,        \* the columns of each table
  Required,       \* those of them that must not be NULL
  Contents,       \* the rows each table may start with
  Selects, Changes, Inserts,   \* the statements a user may type
  Drives,         \* the executers that are driven directly, and whether
                  \* open is called although the constructor calls it
  MaxStatements,  \* bound of the model
  MaxSlots        \* bound of the model: slots of a table, deleted ones included

Tables == DOMAIN Schemas

ASSUME TablesAssumption ==
  /\ DOMAIN Required = Tables /\ DOMAIN Contents = Tables
  /\ \A t \in Tables :
       /\ Required[t] \subseteq Range(Schemas[t])
       /\ \A rows \in Contents[t] :
            /\ Len(rows) =< MaxSlots
            /\ \A i \in DOMAIN rows : DOMAIN rows[i] = DOMAIN Schemas[t]

VARIABLES
  heaps, context,
  stmt,        \* the statement that runs
  executer,    \* its executer
  out,         \* the rows it printed
  status,      \* "prompt", "running", "finished", or "dead" when the
               \* program has ended or has left what its code defines
  pointers,    \* MergeJoin's static pointers
  before,      \* history: the tables when the statement began
  statements   \* counter of the model's bound

vars == <<heaps, context, stmt, executer, out, status, pointers, before, statements>>

Nothing == [kind |-> "none"]

Init ==
  /\ \E rows \in [Tables -> UNION {Contents[t] : t \in Tables}] :
       /\ \A t \in Tables : rows[t] \in Contents[t]
       /\ heaps = [t \in Tables |->
                     [name |-> t, cols |-> Schemas[t], rows |-> rows[t],
                      count |-> Len(rows[t]), required |-> Required[t]]]
  /\ context = << >> /\ pointers = NoPointers
  /\ stmt = Nothing /\ executer = Nothing /\ out = << >> /\ before = << >>
  /\ status = "prompt" /\ statements = 0

---------------------------------------------------------------------------
Prompt == status = "prompt" /\ statements < MaxStatements /\ statements' = statements + 1

(* The statement is over.                                                  *)
Leave(next) ==
  /\ stmt' = Nothing /\ executer' = Nothing /\ out' = << >> /\ before' = << >>
  /\ status' = next

(* An exception is printed and the prompt comes back.                      *)
Fail(why) == Leave(IF why = Threw THEN "prompt" ELSE "dead")

Start(s, e) ==
  \/ IsFailed(e) /\ Fail(e.why)
  \/ /\ ~IsFailed(e)
     /\ stmt' = s /\ executer' = e /\ out' = << >> /\ before' = heaps /\ status' = "running"

(* SELECT.  The projection is opened by its constructor and by the loop.   *)
Select ==
  \E s \in Selects :
    LET names   == ContextAfter(context, heaps, s)
        bound   == BindSelect(names, heaps, s)
        renamed == setTableName(heaps, names, bound)
    IN  /\ Prompt
        /\ context' = names
        /\ \/ ~SelectBinds(names, heaps, s) /\ Fail(Threw) /\ UNCHANGED heaps
           \/ /\ SelectBinds(names, heaps, s)
              /\ heaps' = renamed
              /\ \E mem \in Memory :
                   Start(s, opened(createExecutor(PlanSelect(bound), renamed, mem),
                                   renamed, mem))
        /\ UNCHANGED pointers

(* UPDATE and DELETE: a selection over a scan.  Without a WHERE, its       *)
(* predicate, or for a DELETE the selection itself, is a null pointer that *)
(* the first row goes through.                                             *)
Matching(s, bound) ==
  LET scan == scanOpened(NewScan(s.table), heaps)
  IN  IF IsPredicate(bound.where)
      THEN NewSelect(scan, build_predicate(bound.where, scan))
      ELSE Failed(Threw)

Change ==
  \E s \in Changes :
    LET names == AddTable(context, BoundTable(s.table, ""))
    IN  /\ Prompt
        /\ \/ s.table \notin Tables /\ Fail(Threw) /\ UNCHANGED context
           \/ /\ s.table \in Tables /\ context' = names
              /\ \/ ~ChangeBinds(names, heaps, s) /\ Fail(Threw)
                 \/ /\ ChangeBinds(names, heaps, s)
                    /\ Start(s, Matching(s, BindChange(names, heaps, s)))
        /\ UNCHANGED <<heaps, pointers>>

(* INSERT; for a table that does not exist it goes through a null pointer. *)
Insert ==
  \E s \in Inserts :
    /\ Prompt
    /\ \/ s.table \notin Tables /\ Fail(Dead) /\ UNCHANGED heaps
       \/ /\ s.table \in Tables /\ ~InsertBinds(heaps, s)
          /\ Fail(Threw) /\ UNCHANGED heaps
       \/ /\ s.table \in Tables /\ InsertBinds(heaps, s)
          /\ Len(heaps[s.table].rows) < MaxSlots
          /\ heaps' = [heaps EXCEPT ![s.table].rows = Append(@, BindInsert(heaps, s)),
                                    ![s.table].count = @ + 1]
          /\ Leave("prompt")
    /\ UNCHANGED <<context, pointers>>

ASSUME DrivesAssumption ==
  \A s \in Drives : s.open \/ s.executer.op \in OpensItself

(* An executer made and opened directly.  An index cannot be built over a  *)
(* deleted tuple.                                                          *)
Indexed(e) ==
  IF e.op # "indexjoin" THEN e
  ELSE LET heap == heaps[e.inner]
       IN  [e EXCEPT !.index = [i \in DOMAIN heap.rows |->
                                  <<KeyOf(heap.rows[i], heap, e.col), i>>]]

Drive ==
  \E s \in Drives, mem \in Memory :
    /\ Prompt
    /\ s.executer.op = "indexjoin" => Deleted \notin Range(heaps[s.executer.inner].rows)
    /\ LET made == Made(Indexed(s.executer), heaps, mem)
       IN  Start(s, IF s.open THEN opened(made, heaps, mem) ELSE made)
    /\ UNCHANGED <<heaps, context, pointers>>

---------------------------------------------------------------------------
Yields == stmt.kind \in {"SELECT", "DRIVE"}

Stepped ==
  IF executer.op = "mergejoin"
  THEN mergeJoinNext(executer, merging(executer, heaps, pointers), pointers)
  ELSE [next |-> getNext(executer, heaps), at |-> pointers]

(* One call of getNext by the loop that prints the rows.                   *)
Fetch ==
  /\ status = "running" /\ Yields
  /\ \E s \in {Stepped} :
         /\ pointers' = s.at
         /\ \/ /\ s.next.res = "row"
               /\ executer' = s.next.e /\ out' = Append(out, s.next.row)
               /\ UNCHANGED <<stmt, status, before>>
            \/ /\ s.next.res = "end" /\ status' = "finished"
               /\ executer' = Nothing /\ UNCHANGED <<stmt, out, before>>
            \/ s.next.res \in {Threw, Dead} /\ Fail(s.next.res)
  /\ UNCHANGED <<heaps, context, statements>>

(* The row an UPDATE or DELETE meets next, its slot, and whether its WHERE *)
(* accepts the row.                                                        *)
Met     == scanNext(executer.child, heaps)
MetSlot == Met.e.pos - 1
Onward  == [executer EXCEPT !.child = Met.e]
Accepts == evaluate(executer.predicate, Met.row, schema(executer.child))

Meets(kind, verdict) ==
  /\ status = "running" /\ stmt.kind = kind
  /\ Met.res = "row" /\ Accepts = verdict

(* As an update that moves a tuple of the same size, too.                  *)
GrowsOrEqual(old, new) == size(new) >= size(old)

(* TableHeap::updateTuple: a tuple that grew moves to the end; the moved   *)
(* tuple is counted once more.                                             *)
Grows(old, new) == size(new) > size(old)

NewRow(row, sets) == [i \in DOMAIN row |-> IF sets[i] = None THEN row[i] ELSE sets[i].field]

UpdateRow ==
  LET t    == stmt.table
      new  == NewRow(Met.row, BindUpdate(context, heaps, stmt).sets)
  IN  /\ Meets("UPDATE", "true")
      /\ \/ /\ Grows(Met.row, new) /\ Len(heaps[t].rows) < MaxSlots
            /\ heaps' = [heaps EXCEPT ![t].rows = Append([@ EXCEPT ![MetSlot] = Deleted], new),
                                      ![t].count = @ + 1]
         \/ /\ ~Grows(Met.row, new)
            /\ heaps' = [heaps EXCEPT ![t].rows[MetSlot] = new]
      /\ executer' = Onward
      /\ UNCHANGED <<context, stmt, out, status, pointers, before, statements>>

DeleteRow ==
  /\ Meets("DELETE", "true")
  /\ heaps' = [heaps EXCEPT ![stmt.table].rows[MetSlot] = Deleted,
                            ![stmt.table].count = @ - 1]
  /\ executer' = Onward
  /\ UNCHANGED <<context, stmt, out, status, pointers, before, statements>>

PassRow ==
  /\ \E kind \in {"UPDATE", "DELETE"} : Meets(kind, "false")
  /\ executer' = Onward
  /\ UNCHANGED <<heaps, context, stmt, out, status, pointers, before, statements>>

(* A row whose comparison cannot be made, and the end of the table.        *)
ChangeFails ==
  /\ \E kind \in {"UPDATE", "DELETE"} : Meets(kind, Dead)
  /\ Fail(Dead)
  /\ UNCHANGED <<heaps, context, pointers, statements>>

ChangeEnds ==
  /\ status = "running" /\ ~Yields /\ Met.res = "end"
  /\ status' = "finished" /\ executer' = Nothing
  /\ UNCHANGED <<heaps, context, stmt, out, pointers, before, statements>>

Return ==
  /\ status = "finished" /\ Leave("prompt")
  /\ UNCHANGED <<heaps, context, pointers, statements>>

ChangeStep == UpdateRow \/ DeleteRow \/ PassRow \/ ChangeFails \/ ChangeEnds

Next == Select \/ Change \/ Insert \/ Drive \/ Fetch \/ ChangeStep \/ Return

(* The loop of a statement runs on its own; the user types when they like. *)
Spec == Init /\ [][Next]_vars /\ WF_vars(ChangeStep)

---------------------------------------------------------------------------
(* What the answers should be, over the tables as they were when the       *)
(* statement began.                                                        *)
RowsOf(hs, t) == Live(hs[t])

ColumnOf(t, col) == SelectInSeq(Schemas[t], LAMBDA c : c = col)

ValueOf(x, t, row) == IF x.e = "const" THEN x.field ELSE row[ColumnOf(t, x.col)]

Compares(op, a, b) ==
  CASE op = "=" -> a = b [] op = "#" -> a # b [] op = "<" -> a < b
    [] op = ">" -> a > b [] op = "<=" -> a =< b [] op = ">=" -> a >= b

RECURSIVE Holds(_, _, _)
Holds(x, t, row) ==
  CASE x = None     -> TRUE
    [] x.op = "and" -> Holds(x.left, t, row) /\ Holds(x.right, t, row)
    [] x.op = "or"  -> Holds(x.left, t, row) \/ Holds(x.right, t, row)
    [] OTHER        -> Compares(x.op, ValueOf(x.left, t, row).v, ValueOf(x.right, t, row).v)

Matched(s, t) == SelectSeq(RowsOf(before, t), LAMBDA row : Holds(s.where, t, row))

RECURSIVE RefsOf(_)
RefsOf(x) ==
  CASE x.e = "col" -> {x}
    [] x.e = "op"  -> RefsOf(x.left) \cup RefsOf(x.right)
    [] OTHER       -> {}

(* The statement names its own table only, by a name that the table has.   *)
Plain(s) ==
  /\ ~HasJoin(s) /\ s.group = << >> /\ s.order.by = None
  /\ before[s.from.table].name = (IF s.from.alias = "" THEN s.from.table ELSE s.from.alias)
  /\ \A r \in UNION {RefsOf(x) : x \in Range(s.items) \cup {s.where}} :
       r.tab \in {s.from.table, s.from.alias} /\ r.col \in Range(Schemas[s.from.table])

Printed(s, row) ==
  FlattenSeq([i \in DOMAIN s.items |->
                IF s.items[i] = Star THEN row
                ELSE <<ValueOf(s.items[i], s.from.table, row)>>])

Answer(s) ==
  LET rows == Matched(s, s.from.table)
  IN  [i \in DOMAIN rows |-> Printed(s, rows[i])]

(* n rows of s from somewhere in it.                                       *)
IsWindow(rows, s, n) ==
  \E at \in 0 .. Len(s) :
    rows = SubSeq(s, at + 1, IF at + n > Len(s) THEN Len(s) ELSE at + n)

SelectAnswers(s) ==
  LET a == Answer(s)
  IN  IF s.limit = None THEN out = a
      ELSE IF s.offset = None THEN IsWindow(out, a, s.limit.field.v)
      ELSE out = SubSeq(a, s.offset.field.v + 1,
                        IF s.offset.field.v + s.limit.field.v > Len(a) THEN Len(a)
                        ELSE s.offset.field.v + s.limit.field.v)

ChangeAnswers(s) ==
  LET t   == s.table
      old == RowsOf(before, t)
      sets == [i \in DOMAIN Schemas[t] |-> SelectInSeq(s.sets, LAMBDA a : a[1] = Schemas[t][i])]
      new(row) == [i \in DOMAIN row |-> IF sets[i] = 0 THEN row[i] ELSE s.sets[sets[i]][2].field]
  IN  IF s.kind = "DELETE"
      THEN RowsOf(heaps, t) = SelectSeq(old, LAMBDA row : ~Holds(s.where, t, row))
      ELSE ToBag(RowsOf(heaps, t)) =
             ToBag([i \in DOMAIN old |-> IF Holds(s.where, t, old[i]) THEN new(old[i]) ELSE old[i]])

(* Pairs of rows, joined.                                                  *)
Partners(row, rows, on) ==
  SelectSeq(rows, LAMBDA r : Compares(on.op, row[on.left].v, r[on.right].v))

Paired(l, r, on, padded) ==
  FlattenSeq([i \in DOMAIN l |->
                LET p == Partners(l[i], r, on)
                IN  IF p = << >> /\ padded # 0 THEN << l[i] \o Padding(padded) >>
                    ELSE [j \in DOMAIN p |-> l[i] \o p[j]]])

Sides(e) ==
  CASE e.op = "mergejoin" -> <<e.outer_table.table, e.inner_table.table>>
    [] e.op = "indexjoin" -> <<e.outer.table, e.inner>>
    [] OTHER -> <<e.outer.table, e.inner.table>>

Joined(s) ==
  LET l == RowsOf(before, Sides(s.executer)[1])
      r == RowsOf(before, Sides(s.executer)[2])
  IN  Paired(l, r, s.on,
             IF s.executer.op = "nestedloop" /\ s.executer.type = "left"
             THEN Len(Schemas[Sides(s.executer)[2]]) ELSE 0)

(* The rows are in the order of a key, when it is NULL in none of them.    *)
InOrder(rows, at, method) ==
  (\A row \in Range(rows) : ~IsNull(row[at])) =>
    \A i, j \in DOMAIN rows :
      i < j => ~Compares(IF method = "asc" THEN "<" ELSE ">", rows[j][at].v, rows[i][at].v)

(* A query whose only clause behind WHERE is ORDER BY, and its answer: the *)
(* rows of a SELECT without one, in an order of the key.                   *)
Orders(s) ==
  /\ s.kind = "SELECT" /\ s.order.by # None /\ {s.limit, s.offset} = {None}
  /\ Plain([s EXCEPT !.order.by = None]) /\ s.order.by.col \in Range(Schemas[s.from.table])

OrderedAnswer(s) ==
  LET rows == Matched(s, s.from.table)
  IN  \E p \in Permutations(DOMAIN rows) :
        LET ranked == [i \in DOMAIN rows |-> rows[p[i]]]
        IN  /\ InOrder(ranked, ColumnOf(s.from.table, s.order.by.col), s.order.method)
            /\ out = [i \in DOMAIN rows |-> Printed(s, ranked[i])]

(* A grouping that is driven: one row for each key its rows have, and a    *)
(* function's result over a group.                                         *)
Groups(s) == s.kind = "DRIVE" /\ s.executer.op \in {"group", "hashgroup"}

KeysIn(rows, keys) == {get_grouping_fields(keys, row) : row \in Range(rows)}

GroupedBy(e) == {SubSeq(out[i], 1, Len(e.keys)) : i \in DOMAIN out}

ResultOf(type, values) ==
  LET sum == FoldLeft(LAMBDA all, f : all + f.v, 0, values)
      vs  == {f.v : f \in Range(values)}
  IN  CASE type = "SUM"   -> Float(sum, 1)
        [] type = "AVG"   -> Float(sum, Len(values))
        [] type = "MAX"   -> Float(Max(vs), 1)
        [] type = "MIN"   -> Float(Min(vs), 1)
        [] type = "COUNT" -> Float(Len(values), 1)

(* The fields of a group's rows that a function is about.                  *)
FieldsOf(e, key, f) ==
  LET rows == SelectSeq(RowsOf(before, e.child.table),
                        LAMBDA row : get_grouping_fields(e.keys, row) = key)
  IN  [i \in DOMAIN rows |-> rows[i][e.fns[f].key]]

(* Each key has one row; Told(type, values) leaves out results.            *)
GroupsExact(e, Told(_, _)) ==
  /\ GroupedBy(e) = KeysIn(RowsOf(before, e.child.table), e.keys)
  /\ Len(out) = Cardinality(GroupedBy(e))
  /\ \A i \in DOMAIN out, f \in DOMAIN e.fns :
       LET values == FieldsOf(e, SubSeq(out[i], 1, Len(e.keys)), f)
           result == out[i][Len(e.keys) + f]
       IN  Told(e.fns[f].type, values) =>
             Same([result EXCEPT !.type = "float"], ResultOf(e.fns[f].type, values))

---------------------------------------------------------------------------
(* The tables keep what their schemas say: a row has the table's columns,  *)
(* and no NULL where BindInsert refuses one; what outlives a statement     *)
(* names tables that are there.                                            *)
TypeOK ==
  /\ \A t \in Tables :
       /\ Len(heaps[t].rows) =< MaxSlots
       /\ \A row \in Range(RowsOf(heaps, t)) :
            /\ DOMAIN row = DOMAIN Schemas[t]
            /\ \A i \in DOMAIN row :
                 row[i].type = "int" \/ (IsNull(row[i]) /\ Schemas[t][i] \notin Required[t])
  /\ \A i \in DOMAIN context : context[i].table \in Tables
  /\ pointers.left \in Nat /\ pointers.right \in Nat
  /\ status \in {"prompt", "running", "finished", "dead"}
  /\ (stmt = Nothing) = (status \in {"prompt", "dead"})

(* A query of one table that ends has printed the rows its WHERE accepts,  *)
(* in the order of the table, cut by its LIMIT and OFFSET, whatever        *)
(* earlier statements left in the bind context; an UPDATE or DELETE that   *)
(* ends has changed exactly the rows its WHERE accepts, once each, also    *)
(* those that moved ahead of the scan.  (BindContext.c++:3-57,             *)
(* limit_operator.c++:43-69, ExecuterFactory.c++:266-395)                  *)
AnswersExact ==
  status = "finished" =>
    CASE stmt.kind = "SELECT" /\ Plain(stmt)     -> SelectAnswers(stmt)
      [] stmt.kind \in {"UPDATE", "DELETE"}      -> ChangeAnswers(stmt)
      [] OTHER                                   -> TRUE

(* A join by nested loops, by hashing or over an index that ends has made  *)
(* every pair its condition accepts, as often as the tables have it, and   *)
(* padded the rows without a partner when it is a left join.               *)
(* (Nested_loop_join.c++:57-154, hash_join.c++:58-110,                     *)
(* IndexedNested_loop_join.c++:61-97; the merge join: SortedAnswersExact)  *)
JoinsExact ==
  (/\ status = "finished" /\ stmt.kind = "DRIVE"
   /\ stmt.executer.op \in {"nestedloop", "hashjoin", "indexjoin"}) =>
     ToBag(out) = ToBag(Joined(stmt))

(* A sort that was opened once, by its constructor, and ends has yielded   *)
(* each row of its input once, in the order of its key when the table has  *)
(* a column of that name and no NULL in it, over as many runs as there are *)
(* pages.  Grouping by hashing has yielded one row for each key, with its  *)
(* sums, averages and counts, and with maxima above and minima below the   *)
(* zero they start from.  An ORDER BY and a grouping by sorting, of which  *)
(* more is promised (SortedAnswersExact), have lost and invented no row    *)
(* and no key.                                                             *)
(* (ExternalMergeSortExecuter.c++:22-357, SortAggregateExecuter.c++:262,   *)
(* HashAggregateExecuter.c++:7-55)                                         *)
SortsAndGroups ==
  status = "finished" =>
    /\ (stmt.kind = "DRIVE" /\ stmt.executer.op = "sort" /\ ~stmt.open) =>
         LET t   == stmt.executer.child.table
             key == SelectInSeq(Schemas[t], LAMBDA c : <<"", "", c>> = stmt.executer.key)
         IN  /\ ToBag(out) = ToBag(RowsOf(before, t))
             /\ key # 0 => InOrder(out, key, stmt.executer.method)
    /\ (Groups(stmt) /\ stmt.executer.op = "hashgroup") =>
         GroupsExact(stmt.executer, LAMBDA type, values :
           /\ type = "MAX" => \E f \in Range(values) : f.v >= 0
           /\ type = "MIN" => \E f \in Range(values) : f.v <= 0)
    /\ Orders(stmt) => Range(out) = Range(Answer(stmt))
    /\ (Groups(stmt) /\ stmt.executer.op = "group") =>
         LET e == stmt.executer
         IN  GroupedBy(e) = KeysIn(RowsOf(before, e.child.table), e.keys)

(* What the documentation promises of sorting: "ORDER BY (ASC / DESC) with *)
(* external merge sort" prints the rows of the answer, once each and in    *)
(* order; "Hash & Sort-based aggregation" with "SUM(), COUNT(), AVG(),     *)
(* MAX(), MIN()" yields one row for each group, with its results; and the  *)
(* "Merge Join" among the "multiple join algorithms" makes the pairs of a  *)
(* join.  (readme.md:123-126, 144-146, 196; MergeJoinExecuter.c++:86-224,  *)
(* ExternalMergeSortExecuter.c++:42, SortAggregateExecuter.c++:262)        *)
SortedAnswersExact ==
  status = "finished" =>
    /\ Orders(stmt) => OrderedAnswer(stmt)
    /\ Groups(stmt) => GroupsExact(stmt.executer, LAMBDA type, values : TRUE)
    /\ (stmt.kind = "DRIVE" /\ stmt.executer.op = "mergejoin") =>
         ToBag(out) = ToBag(Joined(stmt))

(* An UPDATE or DELETE ends, although an UPDATE meets again the rows it    *)
(* moved to the end of the table it is scanning.                           *)
(* (ExecuterFactory.c++:301-340, TableHeap.c++:137-162)                    *)
ChangesFinish == (status = "running" /\ ~Yields) ~> status # "running"
=============================================================================
