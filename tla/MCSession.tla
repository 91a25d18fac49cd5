----------------------------- MODULE MCSession -----------------------------
(* A few statements over tuples that grow, shrink, or hold a NULL.         *)
EXTENDS Session

MCTuples == {"a", "wide", "null", "empty"}
MCTupleSize ==
  [x \in MCTuples |-> CASE x = "wide" -> 24 [] x = "empty" -> 5 [] OTHER -> 11]
MCEndInText == {"wide"}

MCStatements ==
  {[op |-> "INSERT", new |-> "a"], [op |-> "INSERT", new |-> "null"],
   [op |-> "UPDATE", where |-> {"a", "wide"}, new |-> "wide"],
   [op |-> "UPDATE", where |-> {"wide"}, new |-> "a"],
   [op |-> "DELETE", where |-> {"a"}]}
=============================================================================
