----------------------------- MODULE MCQueries -----------------------------
(* Two tables whose common column is not at the same place in both, with   *)
(* duplicates, NULLs and more rows than a page; and one that is missing.   *)
EXTENDS Queries

N(i) == Number(i)

MCSchemas  == [A |-> <<"k", "v">>, B |-> <<"w", "k">>]
MCRequired == [A |-> {"k"}, B |-> {"w", "k"}]
MCContents ==
  [A |-> { << >>, <<<<N(1), Null>>>>, <<<<N(0), N(1)>>, <<N(1), N(1)>>>>,
           <<<<N(1), N(2)>>, <<N(0), Null>>, <<N(1), N(1)>>>> },
   B |-> { << >>, <<<<N(5), N(1)>>>>,
           <<<<N(2), N(1)>>, <<N(1), N(0)>>, <<N(-1), N(1)>>>> }]

Query(table, alias, items, where) ==
  [kind |-> "SELECT", from |-> [table |-> table, alias |-> alias],
   join |-> [table |-> "", alias |-> "", on |-> None], items |-> items, where |-> where,
   group |-> << >>, having |-> None, order |-> [by |-> None, method |-> "asc"],
   limit |-> None, offset |-> None]

Joining(q, table, on)  == [q EXCEPT !.join = [table |-> table, alias |-> "", on |-> on]]
Ordering(q, by, method) == [q EXCEPT !.order = [by |-> by, method |-> method]]
Cut(q, limit, offset)  == [q EXCEPT !.limit = limit, !.offset = offset]
Grouping(q, group, having) == [q EXCEPT !.group = group, !.having = having]
n(i) == Const(Number(i))
Eq(l, r) == Op("=", l, r)

MCSelects ==
  LET a  == Query("A", "", <<Star>>, None)
      ax == Query("A", "x", <<Ref("x", "k"), Ref("x", "v")>>, None)
      b  == Query("B", "", <<Ref("B", "k"), Ref("B", "w")>>, Eq(Ref("B", "k"), n(1)))
      bx == Query("B", "x", <<Ref("x", "k")>>, Op(">", Ref("x", "k"), n(0)))
  IN  { a, ax, b, bx,
        Query("A", "", <<Ref("A", "k")>>, Op("or", Eq(Ref("A", "k"), n(0)),
                                             Op("#", Ref("A", "v"), n(1)))),
        Query("A", "x", <<Ref("x", "w")>>, Eq(Ref("x", "w"), n(1))),
        Query("A", "", <<Ref("NULL", "k")>>, None),
        Query("C", "", <<Star>>, None),
        Query("A", "", <<n(1)>>, None),
        Query("A", "", <<Star>>, Eq(Ref("A", "k"), Const(Null))),
        Query("A", "", <<Star>>, Op("+", Ref("A", "k"), n(1))),
        Cut(a, n(1), n(1)), Cut(b, n(2), n(0)), Cut(a, n(2), None), Cut(b, None, n(1)),
        Cut(a, n(0), n(0)), Cut(a, n(5), n(2)),
        Joining(a, "B", Eq(Ref("A", "k"), Ref("B", "k"))), Joining(a, "B", Eq(n(1), n(1))),
        Joining(a, "B", None),
        Ordering(a, Ref("A", "k"), "asc"), Ordering(b, Ref("B", "w"), "desc"),
        Grouping([b EXCEPT !.items = <<Ref("B", "k"), Fn("SUM", Ref("B", "w"))>>],
                 <<Ref("B", "k")>>, None),
        Grouping([b EXCEPT !.items = <<Ref("B", "k"), Fn("SUM", Ref("B", "w"))>>],
                 <<Ref("B", "k")>>, Op(">", Ref("B", "k"), n(0))),
        Grouping([b EXCEPT !.items = <<Ref("B", "k"), Fn("SUM", Ref("B", "w"))>>],
                 <<Ref("B", "k")>>, Op(">", Fn("SUM", Ref("B", "w")), n(0))) }

Updating(t, sets, where) == [kind |-> "UPDATE", table |-> t, sets |-> sets, where |-> where]
Deleting(t, where)       == [kind |-> "DELETE", table |-> t, where |-> where]
Inserting(t, cols, vs)   == [kind |-> "INSERT", table |-> t, columns |-> cols, values |-> vs]

MCChanges ==
  { Updating("A", <<<<"v", n(2)>>>>, Eq(Ref("A", "k"), n(1))),
    Updating("A", <<<<"k", n(0)>>>>, Op("and", Op(">", Ref("A", "k"), n(0)),
                                          Op("<", Ref("A", "v"), n(2)))),
    Updating("A", <<<<"w", n(2)>>>>, Op(">=", Ref("A", "k"), n(0))),
    Updating("A", <<<<"v", Const(Null)>>>>, Eq(Ref("A", "k"), n(1))),
    Updating("B", <<<<"k", n(0)>>>>, None), Updating("C", << >>, None),
    Deleting("A", Eq(Ref("A", "k"), n(1))), Deleting("B", Op("<=", Ref("B", "w"), n(1))),
    Deleting("B", None) }

MCInserts ==
  { Inserting("A", <<"k">>, <<N(0)>>), Inserting("A", <<"v", "k">>, <<N(1), N(2)>>),
    Inserting("A", <<"v">>, <<N(1)>>), Inserting("B", <<"k", "w">>, <<N(1)>>),
    Inserting("C", <<"k">>, <<N(1)>>) }

Direct(e)       == [kind |-> "DRIVE", executer |-> e, open |-> TRUE]
Constructed(e)  == [Direct(e) EXCEPT !.open = FALSE]
DirectJoin(e, op, l, r) ==
  [kind |-> "DRIVE", executer |-> e, open |-> TRUE,
   on |-> [op |-> op, left |-> l, right |-> r]]

A == NewScan("A")
B == NewScan("B")
K         == <<"", "", "k">>
On(op)    == [op |-> op, left |-> Named("A", "k"), right |-> Named("B", "k")]
Sum(key)  == [type |-> "SUM", key |-> key]
All(key)  == [i \in 1 .. 5 |->
                [type |-> <<"SUM", "AVG", "MAX", "MIN", "COUNT">>[i], key |-> key]]

MCDrives ==
  { DirectJoin(NewNestedLoop(A, B, On("="), "inner"), "=", 1, 2),
    DirectJoin(NewNestedLoop(A, B, On("="), "left"), "=", 1, 2),
    DirectJoin(NewNestedLoop(A, B, On(">"), "left"), ">", 1, 2),
    DirectJoin(NewHashJoin(A, B, K), "=", 1, 2),
    DirectJoin(NewIndexJoin(A, "B", << >>, K), "=", 1, 2),
    DirectJoin(NewMergeJoin(A, B, K), "=", 1, 2),
    DirectJoin(NewMergeJoin(B, A, K), "=", 2, 1),
    Direct(NewSort(A, K, "asc")), Constructed(NewSort(A, K, "asc")),
    Constructed(NewSort(B, <<"", "", "w">>, "desc")),
    Constructed(NewSort(A, <<"", "", "v">>, "asc")),
    Direct(NewHashAggregate(B, <<2>>, All(1))), Direct(NewHashAggregate(A, <<1>>, <<Sum(2)>>)),
    Direct(NewSortAggregate(B, <<2>>, All(1), NoPredicate)),
    Direct(NewSortAggregate(A, <<1>>, <<Sum(1)>>, NoPredicate)) }
=============================================================================
