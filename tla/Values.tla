------------------------------- MODULE Values -------------------------------
(***************************************************************************)
(* Fields, columns and predicates (Storage/Page/Field.c++,                 *)
(* Q_Execution/Predicate.c++, ComplexPredicate.c++).  The tables of the    *)
(* model hold integers and NULLs; text and floating point come from        *)
(* constants, from padding and from aggregates.                            *)
(***************************************************************************)
EXTENDS Integers, Sequences, FiniteSets, SequencesExt

(* A field is v / d; d is 1 except in an average.  What a text says does   *)
(* not matter: two texts are the same when their v is.                     *)
Number(n)   == [type |-> "int", v |-> n, d |-> 1]
Float(n, d) == [type |-> "float", v |-> n, d |-> d]
Text(n)     == [type |-> "text", v |-> n, d |-> 1]
Null        == [type |-> "null", v |-> 0, d |-> 1]
NoField     == [type |-> "none", v |-> 0, d |-> 1]

IsNull(f) == f.type = "null"

(* Field::operator==, < and >: fields of two types are never the same and  *)
(* neither is the smaller; ordering two NULLs throws.                      *)
Same(f, g)      == f.type = g.type /\ f.v * g.d = g.v * f.d
Unordered(f, g) == IsNull(f) /\ IsNull(g)
Less(f, g)      == f.type = g.type /\ f.v * g.d < g.v * f.d

(* A tuple's size on its page, counted in the fields that have a value.    *)
size(row) == Cardinality({i \in DOMAIN row : ~IsNull(row[i])})

---------------------------------------------------------------------------
(* A column is a name and, for a constant, a field.  A name is written     *)
(* fn(tab.col), each part empty when the name has none.                    *)
Column(fn, tab, col, field) == [name |-> <<fn, tab, col>>, field |-> field]
Named(tab, col) == Column("", tab, col, NoField)
Constant(f)     == Column("", "", "const", f)

(* What evaluating a predicate, or a call of getNext, may come to besides  *)
(* its result: an exception, caught at the prompt, or the end of the       *)
(* program, by an assertion or by an access the language leaves undefined. *)
Threw == "threw"
Dead  == "dead"

(* The field an operand stands for: its own when it is a constant, or else *)
(* the one of the last column with its name.                               *)
operand(column, row, cols) ==
  LET at == {i \in DOMAIN cols : cols[i].name = column.name}
  IN  IF column.field # NoField \/ at = {} THEN column.field
      ELSE LET i == CHOOSE i \in at : \A j \in at : j =< i
           IN  IF i \in DOMAIN row THEN row[i] ELSE NoField

compareValues(op, f, g) ==
  CASE op = "=" -> Same(f, g)
    [] op = "#" -> ~Same(f, g)
    [] op = "<" -> Less(f, g)
    [] op = ">" -> Less(g, f)
    [] op = "<=" -> ~Less(g, f)
    [] op = ">=" -> ~Less(f, g)

(* checkPredicate asserts that both operands are there and of one type;    *)
(* that is how comparing a NULL with a number ends the program.  Two NULLs *)
(* are of no type it knows, and the comparison is false.                   *)
checkPredicate(op, f, g) ==
  IF NoField \in {f, g} \/ f.type # g.type THEN Dead
  ELSE IF ~IsNull(f) /\ compareValues(op, f, g) THEN "true" ELSE "false"

(* Predicate::evaluate and ComplexPredicate::evaluate; a missing predicate *)
(* is a null pointer.                                                      *)
NoPredicate == [op |-> "none"]

RECURSIVE evaluate(_, _, _)
evaluate(p, row, cols) ==
  CASE p.op = "none" -> Dead
    [] p.op = "and"  -> LET l == evaluate(p.left, row, cols)
                        IN  IF l = "true" THEN evaluate(p.right, row, cols) ELSE l
    [] p.op = "or"   -> LET l == evaluate(p.left, row, cols)
                        IN  IF l = "false" THEN evaluate(p.right, row, cols) ELSE l
    [] OTHER         -> checkPredicate(p.op, operand(p.left, row, cols),
                                       operand(p.right, row, cols))
=============================================================================
