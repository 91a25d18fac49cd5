------------------------------- MODULE Binder -------------------------------
(***************************************************************************)
(* From a parsed statement to an executer: the bind context and the binder *)
(* (Binder), the planner (QueryPlan) and the executer factory (Executer).  *)
(*                                                                         *)
(* A parsed statement is a record: a SELECT has from, join, items, where,  *)
(* group, having, order, limit and offset; an UPDATE table, sets and       *)
(* where; a DELETE table and where; an INSERT table, columns and values.   *)
(***************************************************************************)
EXTENDS Executers

(* Expressions; None is a null pointer.                                    *)
None           == [e |-> "none"]
Star           == [e |-> "star"]
Ref(tab, col)  == [e |-> "col", tab |-> tab, col |-> col]
Const(f)       == [e |-> "const", field |-> f]
Op(op, l, r)   == [e |-> "op", op |-> op, left |-> l, right |-> r]
Fn(fn, arg)    == [e |-> "fn", fn |-> fn, arg |-> arg]

Comparisons == {"=", "#", "<", ">", "<=", ">="}

(* The name in front of a column that was written without a table.         *)
Unqualified == "NULL"

---------------------------------------------------------------------------
(* BindContext.  It is made with the database and never emptied: tables    *)
(* has a table for every FROM, JOIN, UPDATE and DELETE so far.             *)
BoundTable(table, alias) == [table |-> table, alias |-> alias]

AddTable(context, bound) == Append(context, bound)

Matches(context, heaps, ref) ==
  {i \in DOMAIN context : /\ ref.tab \in {context[i].alias, context[i].table}
                          /\ ref.col \in Range(heaps[context[i].table].cols)}

Resolves(context, heaps, ref) == Matches(context, heaps, ref) # {}

BoundRef(heaps, bound, col) ==
  [e |-> "col", tab |-> IF bound.alias = "" THEN bound.table ELSE bound.alias, col |-> col,
   oid |-> SelectInSeq(heaps[bound.table].cols, LAMBDA c : c = col)]

(* As the first match instead of the last.                                 *)
ResolveFirst(context, heaps, ref) ==
  LET at == Matches(context, heaps, ref)
      i  == CHOOSE i \in at : \A j \in at : i =< j
  IN  BoundRef(heaps, context[i], ref.col)

(* The last match wins.                                                    *)
ResolveColumn(context, heaps, ref) ==
  LET at == Matches(context, heaps, ref)
      i  == CHOOSE i \in at : \A j \in at : j =< i
  IN  BoundRef(heaps, context[i], ref.col)

(* getBoundTable: the table as it was added last.                          *)
getBoundTable(context, table) ==
  context[SelectLastInSeq(context, LAMBDA bound : bound.table = table)]

---------------------------------------------------------------------------
(* Binder::BindExpression: whether it returns, and what.                   *)
RECURSIVE Binds(_, _, _), BindExpression(_, _, _)
Binds(context, heaps, x) ==
  CASE x.e = "none"  -> TRUE
    [] x.e = "star"  -> FALSE
    [] x.e = "col"   -> Resolves(context, heaps, x)
    [] x.e = "const" -> ~IsNull(x.field)
    [] x.e = "op"    -> Binds(context, heaps, x.left) /\ Binds(context, heaps, x.right)
    [] x.e = "fn"    -> Binds(context, heaps, x.arg)

BindExpression(context, heaps, x) ==
  CASE x.e = "col" -> ResolveColumn(context, heaps, x)
    [] x.e = "op"  -> [x EXCEPT !.left = BindExpression(context, heaps, x.left),
                                !.right = BindExpression(context, heaps, x.right)]
    [] x.e = "fn"  -> [x EXCEPT !.arg = BindExpression(context, heaps, x.arg)]
    [] OTHER       -> x

BindAll(context, heaps, xs) == [i \in DOMAIN xs |-> BindExpression(context, heaps, xs[i])]

(* handleSelectStar: the columns of the FROM table, by its name.           *)
handleSelectStar(context, heaps, from) ==
  LET cols == heaps[from.table].cols
  IN  [i \in DOMAIN cols |-> ResolveColumn(context, heaps, Ref(from.table, cols[i]))]

BindItems(context, heaps, s) ==
  FlattenSeq([i \in DOMAIN s.items |->
                IF s.items[i] = Star THEN handleSelectStar(context, heaps, s.from)
                ELSE <<BindExpression(context, heaps, s.items[i])>>])

(* BindFrom, BindTable and BindJoin: a table is added once it is found.    *)
HasJoin(s) == s.join.table # ""

ContextAfter(context, heaps, s) ==
  IF s.from.table \notin DOMAIN heaps THEN context
  ELSE IF HasJoin(s) /\ s.join.table \in DOMAIN heaps
  THEN AddTable(AddTable(context, BoundTable(s.from.table, s.from.alias)),
                BoundTable(s.join.table, s.join.alias))
  ELSE AddTable(context, BoundTable(s.from.table, s.from.alias))

(* A join condition is a comparison.                                       *)
JoinBinds(context, heaps, s) ==
  HasJoin(s) => /\ s.join.table \in DOMAIN heaps
                /\ s.join.on.e \in {"op", "none"} /\ Binds(context, heaps, s.join.on)

SelectBinds(context, heaps, s) ==
  /\ s.from.table \in DOMAIN heaps
  /\ JoinBinds(context, heaps, s)
  /\ \A x \in (Range(s.items) \ {Star}) \cup Range(s.group)
              \cup {s.where, s.having, s.order.by, s.limit, s.offset} :
       Binds(context, heaps, x)

(* BindSelect, BindOrderBy and BindLimitOffset, in the context with the    *)
(* statement's own tables.                                                 *)
BindSelect(context, heaps, s) ==
  [s EXCEPT !.join.on  = BindExpression(context, heaps, @),
            !.items    = BindItems(context, heaps, s),
            !.where    = BindExpression(context, heaps, @),
            !.group    = BindAll(context, heaps, @),
            !.having   = BindExpression(context, heaps, @),
            !.order.by = BindExpression(context, heaps, @)]

(* BindUpdate: the first assignment to each column; a column the table     *)
(* does not have is passed over.                                           *)
Assigned(sets, col) == SelectInSeq(sets, LAMBDA a : a[1] = col)

UpdateBinds(context, heaps, s) ==
  /\ \A c \in Range(heaps[s.table].cols) :
       Assigned(s.sets, c) # 0 => Binds(context, heaps, s.sets[Assigned(s.sets, c)][2])
  /\ Binds(context, heaps, s.where)

BindUpdate(context, heaps, s) ==
  LET cols == heaps[s.table].cols
  IN  [s EXCEPT !.sets = [i \in DOMAIN cols |->
                            LET at == Assigned(s.sets, cols[i])
                            IN  IF at = 0 THEN None ELSE s.sets[at][2]],
                !.where = BindExpression(context, heaps, @)]

BindDelete(context, heaps, s) == [s EXCEPT !.where = BindExpression(context, heaps, @)]

ChangeBinds(context, heaps, s) ==
  IF s.kind = "UPDATE" THEN UpdateBinds(context, heaps, s) ELSE Binds(context, heaps, s.where)

BindChange(context, heaps, s) ==
  IF s.kind = "UPDATE" THEN BindUpdate(context, heaps, s) ELSE BindDelete(context, heaps, s)

(* BindInsert.  The values go to the named columns in the order of the     *)
(* table, whatever the order of the names; a column that is not named is   *)
(* NULL, unless it must not be.                                            *)
NamedCols(heaps, s) == SelectSeq(heaps[s.table].cols, LAMBDA c : c \in Range(s.columns))

(* As a binder that does not ask whether a column may be NULL.             *)
InsertFits(heaps, s) == Len(NamedCols(heaps, s)) =< Len(s.values)

InsertBinds(heaps, s) ==
  /\ Len(NamedCols(heaps, s)) =< Len(s.values)
  /\ heaps[s.table].required \subseteq Range(s.columns)

BindInsert(heaps, s) ==
  LET cols == heaps[s.table].cols
  IN  [i \in DOMAIN cols |->
         IF cols[i] \in Range(s.columns)
         THEN s.values[SelectInSeq(NamedCols(heaps, s), LAMBDA c : c = cols[i])]
         ELSE Null]

---------------------------------------------------------------------------
(* Planner::PlanSelect.                                                    *)
Functions(items) == SelectSeq(items, LAMBDA x : x.e = "fn")

SeqScanPlan(table) == [plan |-> "scan", table |-> table]

PlanJoin(s) ==
  IF HasJoin(s)
  THEN [plan |-> "join", on |-> s.join.on, left |-> SeqScanPlan(s.from.table),
        right |-> SeqScanPlan(s.join.table)]
  ELSE SeqScanPlan(s.from.table)

PlanFilter(s) ==
  IF s.where = None THEN PlanJoin(s)
  ELSE [plan |-> "filter", where |-> s.where, child |-> PlanJoin(s)]

PlanGroupBy(s) ==
  IF s.group = << >> THEN PlanFilter(s)
  ELSE [plan |-> "group", keys |-> s.group, fns |-> Functions(s.items),
        having |-> s.having, child |-> PlanFilter(s)]

PlanOrderBy(s) ==
  IF s.order.by = None THEN PlanGroupBy(s)
  ELSE [plan |-> "sort", order |-> s.order, child |-> PlanGroupBy(s)]

PlanLimit(s) ==
  IF {s.limit, s.offset} = {None} THEN PlanOrderBy(s)
  ELSE [plan |-> "limit", limit |-> s.limit, offset |-> s.offset, child |-> PlanOrderBy(s)]

PlanSelect(s) == [plan |-> "project", items |-> s.items, child |-> PlanLimit(s)]

---------------------------------------------------------------------------
(* ExecutorFactory.  A scan gives its table the alias of the query, and    *)
(* the table keeps it.                                                     *)
Scanned(s) == {s.from.table} \cup (IF HasJoin(s) THEN {s.join.table} ELSE {})

setTableName(heaps, context, s) ==
  [t \in DOMAIN heaps |->
     IF t \in Scanned(s) /\ getBoundTable(context, t).alias # ""
     THEN [heaps[t] EXCEPT !.name = getBoundTable(context, t).alias] ELSE heaps[t]]

(* expr_to_col: a reference becomes the child's column at the place the    *)
(* column has in its own table.                                            *)
expr_to_col(x, child) ==
  CASE x.e = "col"   -> schema(child)[x.oid]
    [] x.e = "const" -> Constant(x.field)
    [] x.e = "fn"    -> Column(x.fn, "", x.arg.col, NoField)

(* build_predicate: only comparisons, and AND and OR of them.              *)
RECURSIVE IsPredicate(_), build_predicate(_, _)
IsPredicate(x) ==
  \/ x = None
  \/ /\ x.e = "op"
     /\ IF x.op \in Comparisons THEN {x.left.e, x.right.e} \subseteq {"col", "const", "fn"}
        ELSE x.op \in {"and", "or"} /\ IsPredicate(x.left) /\ IsPredicate(x.right)

build_predicate(x, child) ==
  IF x = None THEN NoPredicate
  ELSE IF x.op \in Comparisons
  THEN [op |-> x.op, left |-> expr_to_col(x.left, child), right |-> expr_to_col(x.right, child)]
  ELSE [op |-> x.op, left |-> build_predicate(x.left, child),
        right |-> build_predicate(x.right, child)]

(* build_join_predicate and expr_to_join_col: =, <> and > only, between    *)
(* constants and columns one of the children has.                          *)
JoinOperand(x, l, r) ==
  \/ x.e = "const"
  \/ x.e = "col" /\ \E child \in {l, r} : hasColumn(child, <<"", x.tab, x.col>>)

IsJoinPredicate(x, l, r) ==
  x = None \/ (x.op \in {"=", "#", ">"} /\ JoinOperand(x.left, l, r) /\ JoinOperand(x.right, l, r))

expr_to_join_col(x) == IF x.e = "const" THEN Constant(x.field) ELSE Named(x.tab, x.col)

build_join_predicate(x) ==
  IF x = None THEN NoPredicate
  ELSE [op |-> x.op, left |-> expr_to_join_col(x.left), right |-> expr_to_join_col(x.right)]

itemName(x) == IF x.e = "fn" THEN <<x.fn, "", x.arg.col>> ELSE <<"", x.tab, x.col>>

(* The pointer to an OFFSET that was not given is not initialised.         *)
offsetOf(offset, mem) ==
  IF offset # None THEN offset.field.v
  ELSE CASE mem \in {"zero", "negated"} -> 0 [] mem = "copy" -> 1 [] mem = "wild" -> -1

(* What createExecutor constructs for a plan, over its child, or a join's  *)
(* left and right ones.                                                    *)
groupFunctions(fns) == [i \in DOMAIN fns |-> [type |-> fns[i].fn, key |-> fns[i].arg.oid]]
groupKeys(keys)     == [i \in DOMAIN keys |-> keys[i].oid]

joinOf(p, l, r) ==
  IF ~IsJoinPredicate(p.on, l, r) THEN Failed(Threw)
  ELSE NewNestedLoop(l, r, build_join_predicate(p.on), "inner")

executerOf(p, c, mem) ==
  CASE p.plan = "scan" -> NewScan(p.table)
    [] IsFailed(c) -> c
    [] p.plan = "filter" ->
         IF ~IsPredicate(p.where) THEN Failed(Threw) ELSE NewSelect(c, build_predicate(p.where, c))
    [] p.plan = "group" ->
         IF ~IsPredicate(p.having) THEN Failed(Threw)
         ELSE IF p.having = None THEN Failed(Dead)
         ELSE NewSortAggregate(c, groupKeys(p.keys), groupFunctions(p.fns),
                               build_predicate(p.having, c))
    [] p.plan = "sort" -> NewSort(c, expr_to_col(p.order.by, c).name, p.order.method)
    [] p.plan = "limit" ->
         IF p.limit = None \/ offsetOf(p.offset, mem) < 0 THEN Failed(Dead)
         ELSE NewLimit(c, p.limit.field.v, offsetOf(p.offset, mem))
    [] p.plan = "project" ->
         IF \E x \in Range(p.items) : x.e \notin {"col", "fn"} THEN Failed(Threw)
         ELSE NewProjection(c, [i \in DOMAIN p.items |-> itemName(p.items[i])])

RECURSIVE createExecutor(_, _, _)
createExecutor(p, heaps, mem) ==
  Made(IF p.plan = "join"
       THEN joinOf(p, createExecutor(p.left, heaps, mem), createExecutor(p.right, heaps, mem))
       ELSE executerOf(p, createExecutor(p.child, heaps, mem), mem),
       heaps, mem)
=============================================================================
