------------------------------ MODULE Session ------------------------------
(***************************************************************************)
(* One table of one database, from the prompt to the log: the statement    *)
(* loop and the executers of INSERT, UPDATE and DELETE (Executer,          *)
(* Q_Execution), the transaction manager (TransactionManager), and the     *)
(* write-ahead log with its recovery (Recovery), over the table heap.      *)
(*                                                                         *)
(* A step ends where what it did may reach the file: a row changed and     *)
(* logged (the pages it changes are the ones used last, which are not      *)
(* evicted before add_record has flushed the record), one record redone or *)
(* undone, a commit.  Evictions and crashes come between any two steps.    *)
(***************************************************************************)
EXTENDS TableHeap

CONSTANTS
  Empty,          \* Tuple({}), what a logged deletion has as its new tuple
  WithNull,       \* the tuples with a NULL field: comparing it aborts
  Statements,     \* the DML statements a user may type
  MaxStatements,  \* bound of the model: BEGIN and DML statements
  MaxStops        \* bound of the model: exits, crashes, and failed writes to the log,
                  \* each of which counts as two

ASSUME TuplesAssumption == Empty \in Tuples /\ WithNull \subseteq Tuples \ {Empty}

Values == Tuples \ (WithNull \cup {Empty})

ASSUME StatementsAssumption ==
  Statements \subseteq [op : {"INSERT"}, new : Tuples \ {Empty}]
                       \cup [op : {"UPDATE"}, where : SUBSET Values, new : Values]
                       \cup [op : {"DELETE"}, where : SUBSET Values]

VARIABLES
  t,            \* the table heap, with the cache under it
  log,          \* the records in wal.bin
  table_id,     \* the heap's table_id: "own", or "other" than the catalog's
  txn,          \* current_txn: its id and its write set
  next_txn_id,
  stmt,         \* the DML statement that is executing, and its scan
  status,       \* "running", "recovering", "closing", "down", or "lost" when
                \* the program has left what its code defines
  redo,         \* recovery: the record of the log that is next
  statements, stops,   \* counters of the model's bounds
  faults,       \* the writes to the log that failed
  begun,        \* history: the rows when the user typed BEGIN
  before,       \* history: the rows when the current transaction began
  committed,    \* history: the rows when a transaction last committed
  quiet,        \* history: nothing evicted since that transaction began, rows
                \* changed by one statement at most, and no page added by inserting
  pristine      \* history: nothing evicted and only tuples inserted, each by
                \* its own transaction, since the log was empty and the table
                \* loaded

history == <<begun, before, committed, quiet, pristine>>
memory  == <<table_id, txn, next_txn_id, stmt, redo>>
vars    == <<t, log, memory, status, statements, stops, faults, history>>

NoTxn  == [id |-> -1, writes |-> << >>]
NoStmt == [op |-> "none"]
NoRows == [x \in {} |-> 0]

GarbageId == -2   \* what GetTransactionId may read from a deleted transaction

(* The tuples in the table's chain, each with how often it is there.       *)
RowCount(u) ==
  LET slots == UNION {Slots(u, p) : p \in Range(Chain(u))}
  IN  [x \in Tuples |->
         Cardinality({rid \in slots : Present(u, rid) /\ getTuple(u, rid) = x})]

RoomFor(tuple) == Fits(lastPage(t), tuple) \/ HasRoom(t)

Record(type, id, rid, old, new) ==
  [type |-> type, txn |-> id, table |-> table_id, rid |-> rid, old |-> old, new |-> new]
Bracket(type, id) == Record(type, id, NoRID, Empty, Empty)

Init ==
  /\ t = NewTable /\ table_id = "own"
  /\ log = << >> /\ txn = NoTxn /\ next_txn_id = 0 /\ stmt = NoStmt
  /\ status = "running" /\ redo = 1 /\ statements = 0 /\ stops = 0
  /\ faults = 0
  /\ begun = NoRows /\ before = NoRows /\ committed = RowCount(t)
  /\ quiet = TRUE /\ pristine = TRUE

---------------------------------------------------------------------------
(* No transaction is open any more; what the histories say of it ends.     *)
NoTxnLeft == txn' = NoTxn /\ begun' = NoRows /\ before' = NoRows /\ quiet' = TRUE

(* The process is gone: what it had in memory is lost, the log is not.     *)
Die ==
  /\ t' = Crashed(t) /\ status' = "down"
  /\ NoTxnLeft /\ stmt' = NoStmt /\ redo' = 1

Prompt == status = "running" /\ stmt = NoStmt

Spent   == stops + 2 * faults
MayStop == Spent < MaxStops

(* WALManager::add_record: a write that fails throws to the prompt, which  *)
(* reports it and goes on with what was done before.                       *)
add_record(r) ==
  \/ log' = Append(log, r) /\ UNCHANGED faults
  \/ Spent + 2 <= MaxStops /\ faults' = faults + 1 /\ UNCHANGED log

LogFails == faults' # faults

(* As a begin that reuses the id.                                          *)
BeginSameId ==
  /\ txn' = [id |-> next_txn_id, writes |-> << >>] /\ UNCHANGED next_txn_id
  /\ add_record(Bracket("BEGIN", next_txn_id))
  /\ before' = RowCount(t) /\ quiet' = TRUE

(* TransactionManager::begin and the BEGIN record.                         *)
BeginTxn ==
  /\ txn' = [id |-> next_txn_id, writes |-> << >>]
  /\ next_txn_id' = next_txn_id + 1
  /\ add_record(Bracket("BEGIN", next_txn_id))
  /\ before' = RowCount(t) /\ quiet' = TRUE

(* BEGIN.  (begin throws when a transaction is open.)                      *)
Begin ==
  /\ Prompt /\ txn = NoTxn /\ statements < MaxStatements
  /\ BeginTxn
  /\ statements' = statements + 1 /\ begun' = RowCount(t)
  /\ UNCHANGED <<t, table_id, stmt, redo, status, stops, committed, pristine>>

(* COMMIT and ROLLBACK read the id after the transaction was deleted, or,  *)
(* when none was open, through a null pointer.                             *)
NothingOpen ==
  /\ Prompt /\ txn = NoTxn
  /\ Die
  /\ UNCHANGED <<log, table_id, next_txn_id, statements, stops, faults, committed, pristine>>

Commit ==
  /\ Prompt /\ txn # NoTxn
  /\ \E id \in {txn.id, GarbageId} : add_record(Bracket("COMMIT", id))
  /\ NoTxnLeft
  /\ committed' = IF LogFails THEN committed ELSE RowCount(t)
  /\ pristine' = FALSE
  /\ UNCHANGED <<t, table_id, next_txn_id, stmt, redo, status, statements, stops>>

(* As an undo that forgets to put a deleted tuple back.                    *)
undoWithoutDelete(u, w) ==
  IF w.type = "UPDATE" THEN updateTuple(u, w.rid, w.old)
  ELSE IF w.type = "INSERT" THEN deleteTuple(u, w.rid)
  ELSE u

(* rollback_write, for the writes in reverse order.  An update of a tuple  *)
(* that is no longer at its rid dereferences a null pointer.               *)
undo(u, w) ==
  IF w.type = "UPDATE" THEN updateTuple(u, w.rid, w.old)
  ELSE IF w.type = "INSERT" THEN deleteTuple(u, w.rid)
  ELSE insertTuple(u, w.old)

Rollback ==
  /\ Prompt /\ txn # NoTxn
  /\ stmt' = [op |-> "rollback"] /\ pristine' = FALSE
  /\ UNCHANGED <<t, log, table_id, txn, next_txn_id, redo, status, statements, stops,
                 faults, begun, before, committed, quiet>>

Undoing == stmt.op = "rollback"

UndoWrite ==
  /\ Undoing /\ txn.writes # << >>
  /\ LET w == Last(txn.writes)
     IN  /\ w.type = "UPDATE" => Present(t, w.rid)
         /\ w.type = "DELETE" \/ (w.type = "UPDATE" /\ Grows(t, w.rid, w.old))
              => RoomFor(w.old)
         /\ t' = undo(t, w)
  /\ txn' = [txn EXCEPT !.writes = Front(@)]
  /\ UNCHANGED <<log, table_id, next_txn_id, stmt, redo, status, statements, stops, faults, history>>

UndoFails ==
  /\ Undoing /\ txn.writes # << >>
  /\ Last(txn.writes).type = "UPDATE" /\ ~Present(t, Last(txn.writes).rid)
  /\ Die
  /\ UNCHANGED <<log, table_id, next_txn_id, statements, stops, faults, committed, pristine>>

FinishRollback ==
  /\ Undoing /\ txn.writes = << >>
  /\ \E id \in {txn.id, GarbageId} : add_record(Bracket("ABORT", id))
  /\ NoTxnLeft /\ stmt' = NoStmt
  /\ UNCHANGED <<t, table_id, next_txn_id, redo, status, statements, stops,
                 committed, pristine>>

---------------------------------------------------------------------------
(* As a statement that expects the user to have typed BEGIN.               *)
TxnExpected ==
  /\ quiet' = (quiet /\ txn.writes = << >>)
  /\ UNCHANGED <<txn, next_txn_id, log, faults, before>>

(* A DML statement begins a transaction when none is open.  Logging that,  *)
(* or binding the statement, may throw, which leaves it open.              *)
TxnOpened ==
  \/ txn = NoTxn /\ BeginTxn
  \/ /\ txn # NoTxn
     /\ quiet' = (quiet /\ txn.writes = << >>)
     /\ UNCHANGED <<txn, next_txn_id, log, faults, before>>

StartStatement(s) ==
  /\ Prompt /\ statements < MaxStatements
  /\ TxnOpened
  /\ stmt' \in IF LogFails THEN {NoStmt} ELSE {s, NoStmt}
  /\ statements' = statements + 1
  /\ pristine' = (pristine /\ stmt'.op = "INSERT" /\ txn = NoTxn)
  /\ UNCHANGED <<t, table_id, redo, status, stops, begun, committed>>

(* As a change that is not logged.                                         *)
ChangeUnlogged(u, type, logged, rid, old, new) ==
  /\ t' = u
  /\ txn' = [txn EXCEPT !.writes = Append(@, [type |-> type, rid |-> rid, old |-> old])]
  /\ quiet' = (quiet /\ rid.slot # -1)
  /\ UNCHANGED <<log, table_id, next_txn_id, redo, status, statements, stops, faults,
                 begun, before, committed, pristine>>

(* The executers change the row, enter it in the write set and log it, in  *)
(* this order; the statement ends there when the record is not written.    *)
ChangeRow(u, type, logged, rid, old, new) ==
  /\ t' = u
  /\ txn' = [txn EXCEPT !.writes = Append(@, [type |-> type, rid |-> rid, old |-> old])]
  /\ add_record(Record(logged, txn.id, rid, old, new))
  /\ quiet' = (quiet /\ rid.slot # -1)
  /\ UNCHANGED <<table_id, next_txn_id, redo, status, statements, stops,
                 begun, before, committed, pristine>>

StatementGoesOn(next) == stmt' = IF LogFails THEN NoStmt ELSE next

InsertRow ==
  /\ stmt.op = "INSERT" /\ RoomFor(stmt.new)
  /\ ChangeRow(insertTuple(t, stmt.new), "INSERT", "INSERT",
               insertedRID(t, stmt.new), Empty, stmt.new)
  /\ StatementGoesOn([op |-> "done"])

(* The rows a statement meets next: it stops at one its predicate accepts, *)
(* or whose comparison cannot be made.                                     *)
Stops(rid) == Yields(t, rid) /\ getTuple(t, rid) \in stmt.where \cup WithNull \cup {Empty}

Ahead == LET at   == Positions(t, stmt.pos)
             hits == {n \in DOMAIN at : Stops(readAt(t, at[n]))}
         IN  IF hits = {} THEN [rid |-> NoRID, pos |-> NoRID]
             ELSE LET n == Min(hits)
                  IN  [rid |-> readAt(t, at[n]), pos |-> scanNext(t, at[n])]

Scanning == stmt.op \in {"UPDATE", "DELETE"}

UpdateRow ==
  /\ stmt.op = "UPDATE"
  /\ LET next == Ahead
         met  == getTuple(t, next.rid)
     IN  /\ next.rid # NoRID /\ met \in stmt.where
         /\ Grows(t, next.rid, stmt.new) => RoomFor(stmt.new)
         /\ ChangeRow(updateTuple(t, next.rid, stmt.new), "UPDATE", "UPDATE",
                      next.rid, met, stmt.new)
         /\ StatementGoesOn([stmt EXCEPT !.pos = next.pos])

(* A deletion is logged as an update to the empty tuple.                   *)
DeleteRow ==
  /\ stmt.op = "DELETE"
  /\ LET next == Ahead
         met  == getTuple(t, next.rid)
     IN  /\ next.rid # NoRID /\ met \in stmt.where
         /\ ChangeRow(deleteTuple(t, next.rid), "DELETE", "UPDATE", next.rid, met, Empty)
         /\ StatementGoesOn([stmt EXCEPT !.pos = next.pos])

(* Comparing a NULL with a value fails the assertion that their types are  *)
(* one, which ends the process.  Evaluating a predicate on the empty tuple *)
(* reads past its fields.                                                  *)
PredicateFails ==
  /\ Scanning
  /\ LET next == Ahead
         met  == getTuple(t, next.rid)
     IN  /\ next.rid # NoRID /\ met \notin stmt.where
         /\ \/ /\ met # Empty /\ Die
               /\ UNCHANGED <<log, table_id, next_txn_id, statements, stops, faults,
                              committed, pristine>>
            \/ /\ met = Empty /\ stmt' = NoStmt /\ status' = "lost"
               /\ UNCHANGED <<t, log, table_id, txn, next_txn_id, redo, statements, stops,
                              faults, history>>

(* A statement that ends commits the transaction it is in, whoever began   *)
(* it, and logs that.                                                      *)
Finish ==
  /\ status = "running"
  /\ stmt.op = "done" \/ (Scanning /\ Ahead.rid = NoRID)
  /\ add_record(Bracket("COMMIT", txn.id))
  /\ NoTxnLeft /\ stmt' = NoStmt
  /\ committed' = IF LogFails THEN committed ELSE RowCount(t)
  /\ pristine' = (pristine /\ ~LogFails)
  /\ UNCHANGED <<t, table_id, next_txn_id, redo, status, statements, stops>>

---------------------------------------------------------------------------
Evict(p) ==
  /\ status \in {"running", "recovering", "closing"}
  /\ t.view[p] = t.stored[p] => p \in t.marked
  /\ t' = Evicted(t, {p})
  /\ quiet' = (txn = NoTxn) /\ pristine' = FALSE
  /\ UNCHANGED <<log, memory, status, statements, stops, faults, begun, before, committed>>

Crash ==
  /\ status \in {"running", "recovering", "closing"} /\ MayStop
  /\ stops' = stops + 1
  /\ Die
  /\ UNCHANGED <<log, table_id, next_txn_id, statements, faults, committed, pristine>>

(* exit truncates the wal.bin of the working directory, which may be the   *)
(* log; CONNECT closes the database the same way and leaves the log alone. *)
Exit ==
  /\ Prompt /\ MayStop
  /\ status' = "closing" /\ stops' = stops + 1
  /\ log' \in {log, << >>}
  /\ pristine' = FALSE
  /\ UNCHANGED <<t, memory, statements, faults, begun, before, committed, quiet>>

Close ==
  /\ status = "closing"
  /\ t' = Closed(t) /\ status' = "down"
  /\ NoTxnLeft
  /\ pristine' = (log = << >> /\ committed = RowCount(t'))
  /\ UNCHANGED <<log, table_id, next_txn_id, stmt, redo, statements, stops, faults, committed>>

(* setup_database: the catalog and the table are loaded (the heap's        *)
(* table_id is left uninitialised), then the log is replayed.  Without its *)
(* metadata page, or with a page of the chain that the directory does not  *)
(* know, loading reads whatever the frame held; a deleted tuple throws.    *)
Readable == t.first_page_id \in DOMAIN t.view /\ ChainIntact(t)

Start ==
  /\ status = "down"
  /\ IF Readable
     THEN /\ NoTupleDeleted(t)
          /\ status' = "recovering" /\ t' = loadMetaData(t)
     ELSE status' = "lost" /\ UNCHANGED t
  /\ table_id' \in {"own", "other"}
  /\ next_txn_id' = 0 /\ redo' = 1
  /\ UNCHANGED <<log, txn, stmt, statements, stops, faults, history>>

---------------------------------------------------------------------------
(* WALManager::recover: the data records, in the order of the log, redone  *)
(* when a COMMIT record has their id and undone when none has.  These are  *)
(* left:                                                                   *)
Pending == {i \in redo .. Len(log) : log[i].type \in {"INSERT", "UPDATE"}}

(* As a test that takes the BEGIN record for the COMMIT record.            *)
Begun(r) == \E i \in DOMAIN log : log[i].type = "BEGIN" /\ log[i].txn = r.txn

Committed(r) == \E i \in DOMAIN log : log[i].type = "COMMIT" /\ log[i].txn = r.txn

(* The tuple record r gives its row.                                       *)
recoveredTuple(r) == IF Committed(r) THEN r.new ELSE r.old

ReplayInsert(r) ==
  IF Committed(r)
  THEN RoomFor(r.new) /\ t' = insertTuple(t, r.new)
  ELSE t' = deleteTuple(t, r.rid)

ReplayUpdate(r) ==
  /\ Grows(t, r.rid, recoveredTuple(r)) => RoomFor(recoveredTuple(r))
  /\ t' = updateTuple(t, r.rid, recoveredTuple(r))

(* The record is about a page, and a tuple, that is there.                 *)
UsesRid(r) == r.type = "UPDATE" \/ ~Committed(r)
PageKnown(r)  == UsesRid(r) => r.rid.page \in DOMAIN t.view
TupleFound(r) == r.type = "UPDATE" => Present(t, r.rid)

Recovering == status = "recovering" /\ Pending # {}

Replay ==
  /\ Recovering
  /\ LET r == log[Min(Pending)]
     IN  /\ r.table = "own" /\ PageKnown(r) /\ TupleFound(r)
         /\ IF r.type = "INSERT" THEN ReplayInsert(r) ELSE ReplayUpdate(r)
  /\ redo' = Min(Pending) + 1
  /\ UNCHANGED <<log, table_id, txn, next_txn_id, stmt, status, statements, stops, faults, history>>

(* An unknown table_id throws, outside any handler; a tuple that is not    *)
(* there is dereferenced; a page that is not there is garbage.  The log    *)
(* stays as it is.                                                         *)
ReplayFails ==
  /\ Recovering
  /\ LET r == log[Min(Pending)]
     IN  \/ r.table # "own" /\ Die
         \/ /\ r.table = "own" /\ PageKnown(r) /\ ~TupleFound(r)
            /\ Die
         \/ /\ r.table = "own" /\ ~PageKnown(r)
            /\ status' = "lost" /\ UNCHANGED <<t, txn, stmt, redo, begun, before, quiet>>
  /\ UNCHANGED <<log, table_id, next_txn_id, statements, stops, faults, committed, pristine>>

(* The log is cleared, and nothing is flushed.                             *)
FinishRecovery ==
  /\ status = "recovering" /\ Pending = {}
  /\ log' = << >> /\ status' = "running" /\ redo' = 1
  /\ pristine' = (pristine /\ log = << >>)
  /\ UNCHANGED <<t, table_id, txn, next_txn_id, stmt, statements, stops, faults, begun, before, committed, quiet>>

(* The scan of the table under an UPDATE or a DELETE.                      *)
WithScan(s) == IF s.op = "INSERT" THEN s ELSE Put(s, "pos", t.starting_rid)

Row == InsertRow \/ UpdateRow \/ DeleteRow \/ PredicateFails

Next ==
  \/ Begin \/ Commit \/ NothingOpen
  \/ Rollback \/ UndoWrite \/ UndoFails \/ FinishRollback
  \/ \E s \in Statements : StartStatement(WithScan(s))
  \/ Row \/ Finish
  \/ \E p \in DOMAIN t.view : Evict(p)
  \/ Crash \/ Exit \/ Close \/ Start
  \/ Replay \/ ReplayFails \/ FinishRecovery

Spec == Init /\ [][Next]_vars

---------------------------------------------------------------------------
TypeOK ==
  /\ IsTable(t)
  /\ \A i \in DOMAIN log :
       /\ log[i].type \in {"BEGIN", "INSERT", "UPDATE", "COMMIT", "ABORT"}
       /\ log[i].rid \in RID /\ {log[i].old, log[i].new} \subseteq Tuples
  /\ txn.id \in Nat \cup {-1} /\ (stmt # NoStmt => txn # NoTxn)
  /\ status \in {"running", "recovering", "closing", "down", "lost"}
  /\ status \in {"running", "recovering", "closing"} =>
       {t.first_page_id, t.last_page_id} \subseteq DOMAIN t.view
  /\ redo \in 1 .. Len(log) + 1

(* Recovery decides by id: the ids of the log's transactions are distinct, *)
(* through restarts, failed statements, failed writes and unfinished       *)
(* recoveries, and between two changes of one transaction the log has      *)
(* nothing of another and nothing that ends it.                            *)
LogSerial ==
  /\ \A i \in DOMAIN log : log[i].type = "BEGIN" =>
       \A j \in DOMAIN log : log[j].type = "BEGIN" /\ log[i].txn = log[j].txn => i = j
  /\ \A j \in DOMAIN log : log[j].type \in {"INSERT", "UPDATE"} =>
       \A i \in 1 .. j - 1 : log[i].txn = log[j].txn =>
         \A k \in i .. j : /\ log[k].txn = log[j].txn
                           /\ log[k].type \in {"BEGIN", "INSERT", "UPDATE"}

(* What ROLLBACK would undo is what recovery would: the write set of the   *)
(* open transaction is, row by row, what the log has under its id, but for *)
(* the records that could not be written.                                  *)
OpenChanges ==
  {i \in DOMAIN log : log[i].type \in {"INSERT", "UPDATE"} /\ log[i].txn = txn.id}

WriteSetIsLogged == status = "running" /\ txn # NoTxn /\ ~Undoing =>
  \E lost \in SUBSET DOMAIN txn.writes :
    /\ Cardinality(lost) <= faults
    /\ \E at \in [DOMAIN txn.writes \ lost -> OpenChanges] :
         /\ Range(at) = OpenChanges
         /\ \A m, n \in DOMAIN at : m < n => at[m] < at[n]
         /\ \A n \in DOMAIN at : /\ log[at[n]].rid = txn.writes[n].rid
                                 /\ log[at[n]].old = txn.writes[n].old

(* The records the log keeps make up for a lost cache as long as nothing   *)
(* but insertions happened and no page reached the file: recovery then     *)
(* brings back the rows of the committed transactions, each once, and none *)
(* of an unfinished one, even if it was itself interrupted.                *)
InsertsRecovered == [][FinishRecovery /\ pristine => RowCount(t') = committed]_vars

(* ROLLBACK of what one statement did before it failed restores the rows,  *)
(* if no page was evicted meanwhile and the program survives it.  (Not of  *)
(* two: a row inserted by one and deleted by the next is put back elsewhere*)
(* and stays.  Nor of an insertion that took a new page: its rid, which    *)
(* has no slot, is where the undo looks for the row.)                      *)
RollbackRestores == [][FinishRollback /\ quiet => RowCount(t) = before]_vars

(* An UPDATE meets the tuples it moved to the end of the table again.  It  *)
(* still ends: each row it changes leaves fewer rows ahead that would move,*)
(* or as many of those and fewer rows ahead at all.                        *)
RowsAhead(u, s) ==
  LET at == Positions(u, s.pos)
  IN  {readAt(u, at[n]) : n \in {k \in DOMAIN at : Yields(u, readAt(u, at[k]))}}

ToMove(u, s) ==
  IF s.op = "DELETE" THEN {}
  ELSE {rid \in RowsAhead(u, s) : /\ getTuple(u, rid) \in s.where
                                  /\ TupleSize[getTuple(u, rid)] < TupleSize[s.new]}

StatementsShrink ==
  [][stmt' # NoStmt /\ (UpdateRow \/ DeleteRow) =>
       LET moving == Cardinality(ToMove(t, stmt))
           left   == Cardinality(ToMove(t', stmt'))
       IN  \/ left < moving
           \/ left = moving
              /\ Cardinality(RowsAhead(t', stmt')) < Cardinality(RowsAhead(t, stmt))]_vars

(* "undoes all changes made in the transaction"                            *)
RollbackUndoes == [][FinishRollback /\ begun # NoRows => RowCount(t) = begun]_vars

(* "redo committed transactions, undo uncommitted ones"                    *)
RecoveryRestores == [][FinishRecovery => RowCount(t') = committed]_vars

---------------------------------------------------------------------------
(* What makes LogSerial inductive: while the program runs, no record has   *)
(* an id that begin could still give; the open transaction has the last    *)
(* one given, and the records with its id end the log.                     *)
TxnTyped ==
  /\ DOMAIN txn = {"id", "writes"} /\ next_txn_id \in Nat
  /\ log \in Seq(Range(log)) /\ \A i \in DOMAIN log : log[i].txn \in Int

StatementOpen ==
  /\ stmt # NoStmt => status = "running" /\ txn # NoTxn
  /\ status \in {"down", "recovering"} => txn = NoTxn

IdsGiven == status = "running" =>
  /\ \A i \in DOMAIN log : log[i].txn < next_txn_id
  /\ txn # NoTxn => txn.id \in Nat /\ next_txn_id = txn.id + 1

OpenIsLast == status = "running" /\ txn # NoTxn =>
  \A i \in DOMAIN log : log[i].txn = txn.id =>
    \A k \in i .. Len(log) : /\ log[k].txn = txn.id
                             /\ log[k].type \in {"BEGIN", "INSERT", "UPDATE"}

IInv == TxnTyped /\ StatementOpen /\ IdsGiven /\ OpenIsLast /\ LogSerial

(* And WriteSetIsLogged, which rests on it.                                *)
Tracked == /\ faults \in Nat /\ txn.writes \in Seq(Range(txn.writes))
           /\ WriteSetIsLogged

(* And TypeOK.  While the process runs the table is sound, and a scan that *)
(* starts ends on its last page.  What a crash leaves is what the last     *)
(* clean close has saved, but for the link that an extension since then    *)
(* has written into its last page.  Rids in memory are on the table's      *)
(* pages; the log may have others.                                         *)
Alive == status \in {"running", "recovering", "closing"}

StopsAtEnd(u) == u.starting_rid.page # -1 =>
  u.starting_rid.page \in DOMAIN u.view /\ u.stopping_rid.page = u.last_page_id

Saved(u) == u.known # {} => \E last \in 2 .. MaxPages :
  LET meta == u.stored[1].meta
  IN  /\ u.known = 1 .. last /\ u.view[1].meta = meta /\ meta.last_page_id = last
      /\ meta.starting_rid.page # -1 =>
           meta.starting_rid.page \in 1 .. last /\ meta.stopping_rid.page = last
      /\ \A p \in 1 .. last - 1 : u.stored[p].next_page_id = p + 1
      /\ u.stored[last].next_page_id \in {-1, last + 1}

AtRest(u) ==
  /\ DOMAIN u = TableFields /\ u.first_page_id = 1
  /\ u.stored = u.view /\ u.marked = {} /\ u.known = DOMAIN u.view
  /\ u.view = Restrict(u.stored, u.known)
  /\ \A p \in DOMAIN u.view : Fitting(u.view[p])

TableHeld ==
  /\ IsTable(t)
  /\ Alive => Sound(t) /\ StopsAtEnd(t)
  /\ status = "down" => AtRest(t)
  /\ status # "lost" => Saved(t)

Known(rid) == rid \in RID /\ rid.page \in DOMAIN t.view \cup {-1}

StmtTyped ==
  /\ stmt.op \in {"none", "rollback", "done", "INSERT", "UPDATE", "DELETE"}
  /\ stmt.op = "none" => stmt = NoStmt
  /\ stmt.op \in {"INSERT", "UPDATE"} => stmt.new \in Tuples
  /\ Scanning => /\ "pos" \in DOMAIN stmt /\ Known(stmt.pos)
                 /\ stmt.pos.page # -1 => t.stopping_rid.page = t.last_page_id

TxnHeld ==
  /\ txn.id \in Nat \cup {-1} /\ txn.writes \in Seq(Range(txn.writes))
  /\ \A n \in DOMAIN txn.writes :
       LET w == txn.writes[n]
       IN  /\ w.rid \in RID /\ w.rid.page \in DOMAIN t.view /\ w.old \in Tuples
           /\ w.type \in {"INSERT", "UPDATE", "DELETE"}

LogTyped ==
  /\ \A i \in DOMAIN log :
       /\ log[i].type \in {"BEGIN", "INSERT", "UPDATE", "COMMIT", "ABORT"}
       /\ log[i].rid \in RID /\ log[i].old \in Tuples /\ log[i].new \in Tuples
  /\ redo \in 1 .. Len(log) + 1
  /\ status \in {"running", "closing", "down"} => redo = 1

Held == /\ status \in {"running", "recovering", "closing", "down", "lost"}
        /\ TableHeld /\ StmtTyped /\ TxnHeld /\ LogTyped

(* And RollbackRestores.  Until the write set holds a row that has moved,  *)
(* which the undo does not survive, the rows at the transaction's begin are*)
(* those it left alone and those the undo would put back; a scan has left  *)
(* behind the rows it changed.                                             *)
Changed(ws) == {ws[n].rid : n \in DOMAIN ws}

LeftAlone(u, ws, x) == {rid \in Rows(u) \ Changed(ws) : getTuple(u, rid) = x}

PutBack(ws, x) == {n \in DOMAIN ws : ws[n].type # "INSERT" /\ ws[n].old = x}

Undone(u, ws) ==
  [x \in Tuples |-> Cardinality(LeftAlone(u, ws, x)) + Cardinality(PutBack(ws, x))]

Moved(u, ws) == \E n \in DOMAIN ws : ws[n].type = "UPDATE" /\ ~Present(u, ws[n].rid)

WriteFound(u, w) ==
  /\ HasSlot(u.view[w.rid.page], w.rid.slot)
  /\ w.type = "INSERT" => Present(u, w.rid)
  /\ w.type = "DELETE" => ~Present(u, w.rid)
  /\ w.type # "INSERT" => Fits(EmptyPage, w.old)

Undoable == status = "running" /\ txn # NoTxn /\ quiet =>
  /\ \A n \in DOMAIN txn.writes :
       /\ WriteFound(t, txn.writes[n])
       /\ \A m \in 1 .. n - 1 : txn.writes[m].rid # txn.writes[n].rid
       /\ Scanning => Before(txn.writes[n].rid, stmt.pos)
  /\ stmt.op = "INSERT" => txn.writes = << >>
  /\ Moved(t, txn.writes) \/ before = Undone(t, txn.writes)
=============================================================================
