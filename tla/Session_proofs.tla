--------------------------- MODULE Session_proofs ---------------------------
(***************************************************************************)
(* Proofs about a session, for any statements, tuples and pages and any    *)
(* number of exits, crashes and failed writes: what recovery reads under an*)
(* id is one transaction's, the table stays a table, a scan over the rows  *)
(* it changes still ends, an undo that is through restores the rows, and   *)
(* so does a recovery when nothing but insertions is to be redone.         *)
(***************************************************************************)
EXTENDS Session, TableHeap_proofs

---------------------------------------------------------------------------
(* One more record at the end of the log.                                  *)
LEMMA Appended ==
  ASSUME log \in Seq(Range(log)), NEW r, log' = Append(log, r)
  PROVE  /\ log' \in Seq(Range(log')) /\ Len(log) \in Nat
         /\ DOMAIN log = 1 .. Len(log) /\ DOMAIN log' = 1 .. Len(log) + 1
         /\ Len(log') = Len(log) + 1 /\ log'[Len(log) + 1] = r
         /\ \A i \in DOMAIN log : log'[i] = log[i]
<1>. DEFINE S == Range(log) \cup {r}
<1>1. log \in Seq(S) /\ r \in S
  <2>1. Range(log) \subseteq S
    OBVIOUS
  <2>. HIDE DEF S
  <2>2. log \in Seq(S)
    BY <2>1
  <2>. QED  BY <2>2 DEF S
<1>2. /\ Append(log, r) \in Seq(S) /\ Range(Append(log, r)) = S
  <2>. HIDE DEF S
  <2>1. Append(log, r) \in Seq(S) /\ Range(Append(log, r)) = Range(log) \cup {r}
    BY <1>1, AppendToList
  <2>. QED  BY <2>1 DEF S
<1>. HIDE DEF S
<1>3. /\ Len(Append(log, r)) = Len(log) + 1 /\ Append(log, r)[Len(log) + 1] = r
      /\ \A i \in 1 .. Len(log) : Append(log, r)[i] = log[i]
  BY <1>1, AppendProperties
<1>4. /\ Len(log) \in Nat /\ DOMAIN log = 1 .. Len(log)
      /\ DOMAIN Append(log, r) = 1 .. Len(Append(log, r))
  BY <1>1, <1>2
<1>. QED  BY <1>2, <1>3, <1>4

(* The end of a transaction's brackets, under its id or another.           *)
LEMMA EndAppended ==
  ASSUME LogSerial, log \in Seq(Range(log)), NEW r, log' = Append(log, r),
         r.type \in {"COMMIT", "ABORT"}
  PROVE  LogSerial'
<1>1. /\ Len(log) \in Nat /\ DOMAIN log = 1 .. Len(log) /\ DOMAIN log' = 1 .. Len(log) + 1
      /\ log'[Len(log) + 1] = r /\ \A i \in DOMAIN log : log'[i] = log[i]
  BY Appended
<1>2. \A i \in DOMAIN log' : log'[i].type \in {"BEGIN", "INSERT", "UPDATE"}
                             => i \in DOMAIN log
  BY <1>1
<1>3. ASSUME NEW i \in DOMAIN log', NEW j \in DOMAIN log',
             log'[i].type = "BEGIN", log'[j].type = "BEGIN", log'[i].txn = log'[j].txn
      PROVE  i = j
  BY <1>1, <1>2, <1>3 DEF LogSerial
<1>4. ASSUME NEW j \in DOMAIN log', log'[j].type \in {"INSERT", "UPDATE"},
             NEW i \in 1 .. j - 1, log'[i].txn = log'[j].txn, NEW k \in i .. j
      PROVE  log'[k].txn = log'[j].txn /\ log'[k].type \in {"BEGIN", "INSERT", "UPDATE"}
  <2>1. j \in DOMAIN log /\ i \in DOMAIN log /\ k \in DOMAIN log
    BY <1>1, <1>2, <1>4
  <2>. QED  BY <1>1, <1>4, <2>1 DEF LogSerial
<1>. QED  BY <1>3, <1>4 DEF LogSerial

(* The beginning of one, under an id the log does not have.                *)
LEMMA BeginAppended ==
  ASSUME LogSerial, log \in Seq(Range(log)), NEW r, log' = Append(log, r),
         r.type = "BEGIN", \A i \in DOMAIN log : log[i].txn # r.txn
  PROVE  LogSerial'
<1>1. /\ Len(log) \in Nat /\ DOMAIN log = 1 .. Len(log) /\ DOMAIN log' = 1 .. Len(log) + 1
      /\ log'[Len(log) + 1] = r /\ \A i \in DOMAIN log : log'[i] = log[i]
  BY Appended
<1>2. ASSUME NEW i \in DOMAIN log', NEW j \in DOMAIN log',
             log'[i].type = "BEGIN", log'[j].type = "BEGIN", log'[i].txn = log'[j].txn
      PROVE  i = j
  <2>1. CASE i \in DOMAIN log /\ j \in DOMAIN log
    BY <1>1, <1>2, <2>1 DEF LogSerial
  <2>2. CASE i = Len(log) + 1 /\ j = Len(log) + 1
    BY <2>2
  <2>3. CASE i = Len(log) + 1 /\ j \in DOMAIN log
    BY <1>1, <1>2, <2>3
  <2>4. CASE i \in DOMAIN log /\ j = Len(log) + 1
    BY <1>1, <1>2, <2>4
  <2>. QED  BY <1>1, <2>1, <2>2, <2>3, <2>4
<1>3. ASSUME NEW j \in DOMAIN log', log'[j].type \in {"INSERT", "UPDATE"},
             NEW i \in 1 .. j - 1, log'[i].txn = log'[j].txn, NEW k \in i .. j
      PROVE  log'[k].txn = log'[j].txn /\ log'[k].type \in {"BEGIN", "INSERT", "UPDATE"}
  <2>1. j \in DOMAIN log
    BY <1>1, <1>3
  <2>2. i \in DOMAIN log /\ k \in DOMAIN log
    BY <1>1, <1>3, <2>1
  <2>. QED  BY <1>1, <1>3, <2>1, <2>2 DEF LogSerial
<1>. QED  BY <1>2, <1>3 DEF LogSerial

(* A change by the transaction that is open.                               *)
LEMMA ChangeAppended ==
  ASSUME LogSerial, log \in Seq(Range(log)), NEW r, log' = Append(log, r),
         r.type \in {"INSERT", "UPDATE"},
         \A i \in DOMAIN log : log[i].txn = r.txn =>
           \A k \in i .. Len(log) : /\ log[k].txn = r.txn
                                    /\ log[k].type \in {"BEGIN", "INSERT", "UPDATE"}
  PROVE  LogSerial'
<1>1. /\ Len(log) \in Nat /\ DOMAIN log = 1 .. Len(log) /\ DOMAIN log' = 1 .. Len(log) + 1
      /\ log'[Len(log) + 1] = r /\ \A i \in DOMAIN log : log'[i] = log[i]
  BY Appended
<1>2. ASSUME NEW i \in DOMAIN log', NEW j \in DOMAIN log',
             log'[i].type = "BEGIN", log'[j].type = "BEGIN", log'[i].txn = log'[j].txn
      PROVE  i = j
  <2>1. i \in DOMAIN log /\ j \in DOMAIN log
    BY <1>1, <1>2
  <2>. QED  BY <1>1, <1>2, <2>1 DEF LogSerial
<1>3. ASSUME NEW j \in DOMAIN log', log'[j].type \in {"INSERT", "UPDATE"},
             NEW i \in 1 .. j - 1, log'[i].txn = log'[j].txn, NEW k \in i .. j
      PROVE  log'[k].txn = log'[j].txn /\ log'[k].type \in {"BEGIN", "INSERT", "UPDATE"}
  <2>1. CASE j \in DOMAIN log
    <3>1. i \in DOMAIN log /\ k \in DOMAIN log
      BY <1>1, <1>3, <2>1
    <3>. QED  BY <1>1, <1>3, <2>1, <3>1 DEF LogSerial
  <2>2. CASE j = Len(log) + 1
    <3>1. i \in DOMAIN log /\ log[i].txn = r.txn
      BY <1>1, <1>3, <2>2
    <3>2. CASE k = j
      BY <1>1, <2>2, <3>2
    <3>3. CASE k # j
      <4>1. k \in i .. Len(log) /\ k \in DOMAIN log
        BY <1>1, <1>3, <2>2, <3>1, <3>3
      <4>. QED  BY <1>1, <2>2, <3>1, <4>1
    <3>. QED  BY <3>2, <3>3
  <2>. QED  BY <1>1, <2>1, <2>2
<1>. QED  BY <1>2, <1>3 DEF LogSerial

---------------------------------------------------------------------------
(* The kinds of steps.                                                     *)

(* One that leaves the log, and the id of the transaction if it goes on.   *)
LEMMA LogKept ==
  ASSUME IInv, log' = log, next_txn_id' = next_txn_id,
         txn' = NoTxn \/ (DOMAIN txn' = DOMAIN txn /\ txn # NoTxn /\ txn'.id = txn.id),
         status' = "running" => status = "running", StatementOpen'
  PROVE  IInv'
<1>1. TxnTyped'
  BY DEF IInv, TxnTyped, NoTxn
<1>2. IdsGiven' /\ OpenIsLast'
  BY DEF IInv, IdsGiven, OpenIsLast
<1>3. LogSerial'
  BY DEF IInv, LogSerial
<1>. QED  BY <1>1, <1>2, <1>3 DEF IInv

(* One out of which no transaction comes, and a log that is empty or where *)
(* nothing is going to be appended.                                        *)
LEMMA LogLeft ==
  ASSUME IInv, log' = << >> \/ (log' = log /\ status' # "running"),
         next_txn_id' \in Nat, DOMAIN txn' = {"id", "writes"},
         status' = "running" => txn' = NoTxn, StatementOpen'
  PROVE  IInv'
<1>1. CASE log' = log /\ status' # "running"
  <2>1. TxnTyped'
    BY <1>1 DEF IInv, TxnTyped
  <2>2. IdsGiven' /\ OpenIsLast'
    BY <1>1 DEF IdsGiven, OpenIsLast
  <2>3. LogSerial'
    BY <1>1 DEF IInv, LogSerial
  <2>. QED  BY <2>1, <2>2, <2>3 DEF IInv
<1>2. CASE log' = << >>
  <2>1. DOMAIN log' = {} /\ log' \in Seq(Range(log'))
    BY <1>2
  <2>2. TxnTyped'
    BY <2>1 DEF TxnTyped
  <2>3. IdsGiven' /\ OpenIsLast'
    BY <2>1 DEF IdsGiven, OpenIsLast
  <2>4. LogSerial'
    BY <2>1 DEF LogSerial
  <2>. QED  BY <2>2, <2>3, <2>4 DEF IInv
<1>. QED  BY <1>1, <1>2

(* One that ends the transaction.                                          *)
LEMMA TxnEnds ==
  ASSUME IInv, status = "running", NEW r, add_record(r),
         r.type \in {"COMMIT", "ABORT"}, r.txn \in Int, r.txn < next_txn_id,
         next_txn_id' = next_txn_id, txn' = NoTxn, stmt' = NoStmt, status' = status
  PROVE  IInv'
<1>1. StatementOpen'
  BY DEF StatementOpen
<1>2. CASE log' = log
  BY <1>1, <1>2, LogKept
<1>3. CASE log' = Append(log, r)
  <2>1. /\ log' \in Seq(Range(log')) /\ DOMAIN log = 1 .. Len(log)
        /\ DOMAIN log' = 1 .. Len(log) + 1 /\ Len(log) \in Nat
        /\ log'[Len(log) + 1] = r /\ \A i \in DOMAIN log : log'[i] = log[i]
    BY <1>3, Appended DEF IInv, TxnTyped
  <2>2. \A i \in DOMAIN log' : i \in DOMAIN log \/ i = Len(log) + 1
    BY <2>1
  <2>3. TxnTyped'
    BY <2>1, <2>2 DEF IInv, TxnTyped, NoTxn
  <2>4. IdsGiven' /\ OpenIsLast'
    BY <2>1, <2>2 DEF IInv, IdsGiven, OpenIsLast
  <2>5. LogSerial'
    BY <1>3, EndAppended DEF IInv, TxnTyped
  <2>. QED  BY <1>1, <2>3, <2>4, <2>5 DEF IInv
<1>. QED  BY <1>2, <1>3 DEF add_record

(* One that begins a transaction.                                          *)
LEMMA TxnBegun ==
  ASSUME IInv, BeginTxn
  PROVE  txn' # NoTxn
<1>1. txn'.id = next_txn_id /\ next_txn_id \in Nat
  BY DEF BeginTxn, IInv, TxnTyped
<1>2. NoTxn.id = -1
  BY DEF NoTxn
<1>. QED  BY <1>1, <1>2

LEMMA TxnBegins ==
  ASSUME IInv, status = "running", txn = NoTxn, BeginTxn, status' = status, StatementOpen'
  PROVE  IInv'
<1>. DEFINE r == Bracket("BEGIN", next_txn_id)
<1>1. /\ txn' = [id |-> next_txn_id, writes |-> << >>] /\ next_txn_id' = next_txn_id + 1
      /\ log' = log \/ log' = Append(log, r)
      /\ r.type = "BEGIN" /\ r.txn = next_txn_id
  BY DEF BeginTxn, add_record, Bracket, Record
<1>. HIDE DEF r
<1>2. /\ next_txn_id \in Nat /\ log \in Seq(Range(log))
      /\ \A i \in DOMAIN log : log[i].txn \in Int /\ log[i].txn < next_txn_id
  BY DEF IInv, TxnTyped, IdsGiven
<1>3. txn' # NoTxn /\ txn'.id = next_txn_id /\ DOMAIN txn' = {"id", "writes"}
  BY <1>1, TxnBegun
<1>4. CASE log' = log
  <2>1. TxnTyped'
    BY <1>1, <1>2, <1>3, <1>4 DEF TxnTyped
  <2>2. IdsGiven'
    BY <1>1, <1>2, <1>3, <1>4 DEF IdsGiven
  <2>3. OpenIsLast'
    BY <1>2, <1>3, <1>4 DEF OpenIsLast
  <2>4. LogSerial'
    BY <1>4 DEF IInv, LogSerial
  <2>. QED  BY <1>3, <2>1, <2>2, <2>3, <2>4 DEF IInv
<1>5. CASE log' = Append(log, r)
  <2>1. /\ log' \in Seq(Range(log')) /\ DOMAIN log = 1 .. Len(log)
        /\ DOMAIN log' = 1 .. Len(log) + 1 /\ Len(log) \in Nat /\ Len(log') = Len(log) + 1
        /\ log'[Len(log) + 1] = r /\ \A i \in DOMAIN log : log'[i] = log[i]
    BY <1>2, <1>5, Appended
  <2>2. \A i \in DOMAIN log' : \/ i \in DOMAIN log /\ log'[i] = log[i]
                               \/ i = Len(log) + 1 /\ log'[i] = r
    BY <2>1
  <2>3. TxnTyped'
    BY <1>1, <1>2, <1>3, <2>1, <2>2 DEF TxnTyped
  <2>4. IdsGiven'
    BY <1>1, <1>2, <1>3, <2>2 DEF IdsGiven
  <2>5. OpenIsLast'
    <3>. SUFFICES ASSUME NEW i \in DOMAIN log', log'[i].txn = txn'.id, NEW k \in i .. Len(log')
                  PROVE  /\ log'[k].txn = txn'.id
                         /\ log'[k].type \in {"BEGIN", "INSERT", "UPDATE"}
      BY DEF OpenIsLast
    <3>1. i = Len(log) + 1
      BY <1>2, <1>3, <2>2
    <3>2. k = Len(log) + 1
      BY <2>1, <3>1
    <3>. QED  BY <1>1, <1>3, <2>1, <3>2
  <2>6. LogSerial'
    BY <1>1, <1>2, <1>5, BeginAppended DEF IInv
  <2>. QED  BY <1>3, <2>3, <2>4, <2>5, <2>6 DEF IInv
<1>. QED  BY <1>1, <1>4, <1>5

(* One that changes a row.                                                 *)
LEMMA RowChanges ==
  ASSUME IInv, status = "running", txn # NoTxn,
         NEW r, add_record(r), r.type \in {"INSERT", "UPDATE"}, r.txn = txn.id,
         DOMAIN txn' = DOMAIN txn, txn'.id = txn.id,
         next_txn_id' = next_txn_id, status' = status
  PROVE  IInv'
<1>1. /\ next_txn_id \in Nat /\ log \in Seq(Range(log)) /\ DOMAIN txn = {"id", "writes"}
      /\ \A i \in DOMAIN log : log[i].txn \in Int /\ log[i].txn < next_txn_id
      /\ txn.id \in Nat /\ next_txn_id = txn.id + 1
  BY DEF IInv, TxnTyped, IdsGiven
<1>2. txn' # NoTxn
  <2>1. NoTxn.id = -1
    BY DEF NoTxn
  <2>. QED  BY <1>1, <2>1
<1>3. StatementOpen'
  BY <1>2 DEF StatementOpen
<1>4. CASE log' = log
  BY <1>3, <1>4, LogKept
<1>5. CASE log' = Append(log, r)
  <2>1. /\ log' \in Seq(Range(log')) /\ DOMAIN log = 1 .. Len(log)
        /\ DOMAIN log' = 1 .. Len(log) + 1 /\ Len(log) \in Nat /\ Len(log') = Len(log) + 1
        /\ log'[Len(log) + 1] = r /\ \A i \in DOMAIN log : log'[i] = log[i]
    BY <1>1, <1>5, Appended
  <2>2. \A i \in DOMAIN log' : \/ i \in DOMAIN log /\ log'[i] = log[i]
                               \/ i = Len(log) + 1 /\ log'[i] = r
    BY <2>1
  <2>3. TxnTyped'
    BY <1>1, <2>1, <2>2 DEF TxnTyped
  <2>4. IdsGiven'
    BY <1>1, <2>2 DEF IdsGiven
  <2>5. \A i \in DOMAIN log : log[i].txn = r.txn =>
          \A k \in i .. Len(log) : /\ log[k].txn = r.txn
                                   /\ log[k].type \in {"BEGIN", "INSERT", "UPDATE"}
    BY DEF IInv, OpenIsLast
  <2>6. OpenIsLast'
    <3>. SUFFICES ASSUME NEW i \in DOMAIN log', log'[i].txn = txn'.id, NEW k \in i .. Len(log')
                  PROVE  /\ log'[k].txn = txn'.id
                         /\ log'[k].type \in {"BEGIN", "INSERT", "UPDATE"}
      BY DEF OpenIsLast
    <3>1. CASE k = Len(log) + 1
      BY <2>1, <3>1
    <3>2. CASE k # Len(log) + 1
      <4>1. i \in DOMAIN log /\ k \in DOMAIN log /\ k \in i .. Len(log)
        BY <2>1, <3>2
      <4>. QED  BY <2>1, <2>5, <4>1
    <3>. QED  BY <3>1, <3>2
  <2>7. LogSerial'
    BY <1>1, <1>5, <2>5, ChangeAppended DEF IInv
  <2>. QED  BY <1>3, <2>3, <2>4, <2>6, <2>7 DEF IInv
<1>. QED  BY <1>4, <1>5 DEF add_record

---------------------------------------------------------------------------
(* The steps.                                                              *)
LEMMA Open ==
  ASSUME IInv, status = "running", txn # NoTxn
  PROVE  /\ txn.id \in Nat /\ txn.id < next_txn_id /\ next_txn_id \in Nat
         /\ GarbageId \in Int /\ GarbageId < next_txn_id
         /\ DOMAIN txn = {"id", "writes"}
BY DEF IInv, IdsGiven, TxnTyped, GarbageId

LEMMA NothingIsOpen == NoTxn.id = -1 /\ DOMAIN NoTxn = {"id", "writes"} /\ NoStmt.op = "none"
BY DEF NoTxn, NoStmt

LEMMA DiePreserves ==
  ASSUME IInv, Die, log' = log, next_txn_id' \in Nat
  PROVE  IInv'
<1>1. status' = "down" /\ txn' = NoTxn /\ stmt' = NoStmt
  BY DEF Die, NoTxnLeft
<1>2. StatementOpen'
  BY <1>1 DEF StatementOpen
<1>. QED  BY <1>1, <1>2, NothingIsOpen, LogLeft

LEMMA BeginPreserves ==
  ASSUME IInv, Begin
  PROVE  IInv'
<1>1. /\ status = "running" /\ stmt = NoStmt /\ txn = NoTxn /\ BeginTxn
      /\ stmt' = stmt /\ status' = status
  BY DEF Begin, Prompt
<1>2. StatementOpen'
  BY <1>1 DEF StatementOpen
<1>. QED  BY <1>1, <1>2, TxnBegins

LEMMA CommitPreserves ==
  ASSUME IInv, Commit
  PROVE  IInv'
<1>1. /\ status = "running" /\ stmt = NoStmt /\ txn # NoTxn /\ txn' = NoTxn
      /\ next_txn_id' = next_txn_id /\ stmt' = stmt /\ status' = status
  BY DEF Commit, NoTxnLeft, Prompt
<1>2. PICK id \in {txn.id, GarbageId} : add_record(Bracket("COMMIT", id))
  BY DEF Commit
<1>. DEFINE r == Bracket("COMMIT", id)
<1>3. r.type = "COMMIT" /\ r.txn = id
  BY DEF Bracket, Record
<1>4. id \in Int /\ id < next_txn_id
  BY <1>1, Open
<1>5. add_record(r)
  BY <1>2
<1>. HIDE DEF r
<1>. QED  BY <1>1, <1>3, <1>4, <1>5, TxnEnds

LEMMA FinishRollbackPreserves ==
  ASSUME IInv, FinishRollback
  PROVE  IInv'
<1>1. /\ stmt.op = "rollback" /\ txn' = NoTxn /\ stmt' = NoStmt
      /\ next_txn_id' = next_txn_id /\ status' = status
  BY DEF FinishRollback, NoTxnLeft, Undoing
<1>2. PICK id \in {txn.id, GarbageId} : add_record(Bracket("ABORT", id))
  BY DEF FinishRollback
<1>3. status = "running" /\ txn # NoTxn
  BY <1>1, NothingIsOpen DEF IInv, StatementOpen
<1>. DEFINE r == Bracket("ABORT", id)
<1>4. r.type = "ABORT" /\ r.txn = id
  BY DEF Bracket, Record
<1>5. id \in Int /\ id < next_txn_id
  BY <1>3, Open
<1>6. add_record(r)
  BY <1>2
<1>. HIDE DEF r
<1>. QED  BY <1>1, <1>3, <1>4, <1>5, <1>6, TxnEnds

LEMMA FinishPreserves ==
  ASSUME IInv, Finish
  PROVE  IInv'
<1>. DEFINE r == Bracket("COMMIT", txn.id)
<1>1. /\ status = "running" /\ stmt # NoStmt /\ add_record(r)
      /\ txn' = NoTxn /\ stmt' = NoStmt
      /\ next_txn_id' = next_txn_id /\ status' = status
  BY NothingIsOpen DEF Finish, NoTxnLeft, Scanning
<1>2. txn # NoTxn
  BY <1>1 DEF IInv, StatementOpen
<1>3. r.type = "COMMIT" /\ r.txn = txn.id
  BY DEF Bracket, Record
<1>4. txn.id \in Int /\ txn.id < next_txn_id
  BY <1>1, <1>2, Open
<1>. HIDE DEF r
<1>. QED  BY <1>1, <1>3, <1>4, TxnEnds

LEMMA StartStatementPreserves ==
  ASSUME IInv, NEW s, StartStatement(s)
  PROVE  IInv'
<1>1. /\ status = "running" /\ TxnOpened /\ status' = status
  BY DEF StartStatement, Prompt
<1>2. CASE txn = NoTxn /\ BeginTxn
  <2>1. StatementOpen'
    BY <1>1, <1>2, TxnBegun DEF StatementOpen
  <2>. QED  BY <1>1, <1>2, <2>1, TxnBegins
<1>3. CASE txn # NoTxn /\ UNCHANGED <<txn, next_txn_id, log, faults, before>>
  <2>1. StatementOpen'
    BY <1>1, <1>3 DEF StatementOpen
  <2>. QED  BY <1>1, <1>3, <2>1, LogKept
<1>. QED  BY <1>1, <1>2, <1>3 DEF TxnOpened

LEMMA ChangeRowPreserves ==
  ASSUME IInv, stmt # NoStmt, NEW u, NEW type, NEW logged \in {"INSERT", "UPDATE"},
         NEW rid, NEW old, NEW new, ChangeRow(u, type, logged, rid, old, new)
  PROVE  IInv'
<1>. DEFINE r == Record(logged, txn.id, rid, old, new)
<1>1. /\ txn' = [txn EXCEPT !.writes = Append(@, [type |-> type, rid |-> rid, old |-> old])]
      /\ add_record(r)
      /\ next_txn_id' = next_txn_id /\ status' = status
  BY DEF ChangeRow
<1>2. status = "running" /\ txn # NoTxn
  BY DEF IInv, StatementOpen
<1>3. r.type = logged /\ r.txn = txn.id
  BY DEF Record
<1>4. DOMAIN txn' = DOMAIN txn /\ txn'.id = txn.id
  BY <1>1, <1>2, Open
<1>. HIDE DEF r
<1>. QED  BY <1>1, <1>2, <1>3, <1>4, RowChanges

LEMMA RowPreserves ==
  ASSUME IInv, Row
  PROVE  IInv'
<1>1. CASE InsertRow
  <2>1. stmt # NoStmt
    BY <1>1, NothingIsOpen DEF InsertRow
  <2>2. ChangeRow(insertTuple(t, stmt.new), "INSERT", "INSERT",
                  insertedRID(t, stmt.new), Empty, stmt.new)
    BY <1>1 DEF InsertRow
  <2>. QED  BY <2>1, <2>2, ChangeRowPreserves
<1>2. CASE UpdateRow
  <2>1. stmt # NoStmt
    BY <1>2, NothingIsOpen DEF UpdateRow
  <2>2. ChangeRow(updateTuple(t, Ahead.rid, stmt.new), "UPDATE", "UPDATE",
                  Ahead.rid, getTuple(t, Ahead.rid), stmt.new)
    BY <1>2 DEF UpdateRow
  <2>. QED  BY <2>1, <2>2, ChangeRowPreserves
<1>3. CASE DeleteRow
  <2>1. stmt # NoStmt
    BY <1>3, NothingIsOpen DEF DeleteRow
  <2>2. ChangeRow(deleteTuple(t, Ahead.rid), "DELETE", "UPDATE",
                  Ahead.rid, getTuple(t, Ahead.rid), Empty)
    BY <1>3 DEF DeleteRow
  <2>. QED  BY <2>1, <2>2, ChangeRowPreserves
<1>4. CASE PredicateFails
  <2>1. CASE Die /\ UNCHANGED <<log, next_txn_id>>
    BY <2>1, DiePreserves DEF IInv, TxnTyped
  <2>2. CASE stmt' = NoStmt /\ status' = "lost" /\ UNCHANGED <<log, txn, next_txn_id>>
    <3>1. StatementOpen'
      BY <2>2 DEF StatementOpen
    <3>2. next_txn_id' \in Nat /\ DOMAIN txn' = {"id", "writes"}
      BY <2>2 DEF IInv, TxnTyped
    <3>. QED  BY <2>2, <3>1, <3>2, LogLeft
  <2>. QED  BY <1>4, <2>1, <2>2 DEF PredicateFails
<1>. QED  BY <1>1, <1>2, <1>3, <1>4 DEF Row

(* A rollback is a statement of its own, with the transaction it undoes.   *)
LEMMA RollbackPreserves ==
  ASSUME IInv, Rollback
  PROVE  IInv'
<1>1. /\ status = "running" /\ txn # NoTxn /\ log' = log /\ txn' = txn
      /\ next_txn_id' = next_txn_id /\ status' = status
  BY DEF Rollback, Prompt
<1>2. StatementOpen'
  BY <1>1 DEF StatementOpen
<1>. QED  BY <1>1, <1>2, LogKept

LEMMA UndoWritePreserves ==
  ASSUME IInv, UndoWrite
  PROVE  IInv'
<1>1. /\ stmt.op = "rollback" /\ txn' = [txn EXCEPT !.writes = Front(@)]
      /\ log' = log /\ next_txn_id' = next_txn_id /\ stmt' = stmt /\ status' = status
  BY DEF UndoWrite, Undoing
<1>2. status = "running" /\ txn # NoTxn
  BY <1>1, NothingIsOpen DEF IInv, StatementOpen
<1>3. DOMAIN txn' = DOMAIN txn /\ txn'.id = txn.id /\ txn.id \in Nat
  BY <1>1, <1>2, Open
<1>4. txn' # NoTxn
  BY <1>3, NothingIsOpen
<1>5. StatementOpen'
  BY <1>1, <1>2, <1>4 DEF StatementOpen
<1>. QED  BY <1>1, <1>2, <1>3, <1>5, LogKept

(* Where the process goes on with what it has, in whatever phase.          *)
LEMMA SessionKept ==
  ASSUME IInv, log' = log, txn' = txn, stmt' = stmt, status' = status,
         next_txn_id' = next_txn_id
  PROVE  IInv'
<1>1. StatementOpen'
  BY DEF IInv, StatementOpen
<1>2. CASE txn = NoTxn
  BY <1>1, <1>2, LogKept
<1>3. CASE txn # NoTxn
  BY <1>1, <1>3, LogKept
<1>. QED  BY <1>2, <1>3

(* exit may leave the transaction of a BEGIN open until the destructors.   *)
LEMMA ExitPreserves ==
  ASSUME IInv, Exit
  PROVE  IInv'
<1>1. /\ stmt = NoStmt /\ stmt' = stmt /\ status' = "closing" /\ log' \in {log, << >>}
      /\ txn' = txn /\ next_txn_id' = next_txn_id
  BY DEF Exit, Prompt, memory
<1>2. StatementOpen'
  BY <1>1 DEF StatementOpen
<1>3. next_txn_id' \in Nat /\ DOMAIN txn' = {"id", "writes"}
  BY <1>1 DEF IInv, TxnTyped
<1>. QED  BY <1>1, <1>2, <1>3, LogLeft

LEMMA ClosePreserves ==
  ASSUME IInv, Close
  PROVE  IInv'
<1>1. /\ status = "closing" /\ status' = "down" /\ txn' = NoTxn /\ stmt' = stmt
      /\ log' = log /\ next_txn_id' = next_txn_id
  BY DEF Close, NoTxnLeft
<1>2. StatementOpen'
  BY <1>1 DEF IInv, StatementOpen
<1>3. next_txn_id' \in Nat
  BY <1>1 DEF IInv, TxnTyped
<1>. QED  BY <1>1, <1>2, <1>3, NothingIsOpen, LogLeft

LEMMA StartPreserves ==
  ASSUME IInv, Start
  PROVE  IInv'
<1>1. /\ status = "down" /\ status' \in {"recovering", "lost"} /\ txn' = txn /\ stmt' = stmt
      /\ log' = log /\ next_txn_id' = 0
  BY DEF Start
<1>2. StatementOpen'
  BY <1>1 DEF IInv, StatementOpen
<1>3. next_txn_id' \in Nat /\ DOMAIN txn' = {"id", "writes"}
  BY <1>1 DEF IInv, TxnTyped
<1>. QED  BY <1>1, <1>2, <1>3, LogLeft

LEMMA ReplayFailsPreserves ==
  ASSUME IInv, ReplayFails
  PROVE  IInv'
<1>1. /\ status = "recovering" /\ log' = log /\ next_txn_id' = next_txn_id
      /\ Die \/ (status' = "lost" /\ txn' = txn /\ stmt' = stmt)
  BY DEF ReplayFails, Recovering
<1>2. next_txn_id' \in Nat /\ DOMAIN txn = {"id", "writes"}
  BY <1>1 DEF IInv, TxnTyped
<1>3. CASE Die
  BY <1>1, <1>2, <1>3, DiePreserves
<1>4. CASE status' = "lost" /\ txn' = txn /\ stmt' = stmt
  <2>1. StatementOpen'
    BY <1>1, <1>4 DEF IInv, StatementOpen
  <2>. QED  BY <1>1, <1>2, <1>4, <2>1, LogLeft
<1>. QED  BY <1>1, <1>3, <1>4

LEMMA FinishRecoveryPreserves ==
  ASSUME IInv, FinishRecovery
  PROVE  IInv'
<1>1. /\ status = "recovering" /\ status' = "running" /\ log' = << >>
      /\ txn' = txn /\ stmt' = stmt /\ next_txn_id' = next_txn_id
  BY DEF FinishRecovery
<1>2. stmt = NoStmt /\ txn = NoTxn
  BY <1>1 DEF IInv, StatementOpen
<1>3. StatementOpen'
  BY <1>1, <1>2 DEF StatementOpen
<1>4. next_txn_id' \in Nat
  BY <1>1 DEF IInv, TxnTyped
<1>. QED  BY <1>1, <1>2, <1>3, <1>4, NothingIsOpen, LogLeft

---------------------------------------------------------------------------
LEMMA InitIInv == Init => IInv
<1>. SUFFICES ASSUME Init
              PROVE  IInv
  OBVIOUS
<1>1. log = << >> /\ txn = NoTxn /\ stmt = NoStmt /\ next_txn_id = 0
  BY DEF Init
<1>2. log \in Seq(Range(log)) /\ DOMAIN log = {}
  BY <1>1
<1>3. TxnTyped
  BY <1>1, <1>2, NothingIsOpen DEF TxnTyped
<1>4. StatementOpen /\ IdsGiven /\ OpenIsLast /\ LogSerial
  BY <1>1, <1>2 DEF StatementOpen, IdsGiven, OpenIsLast, LogSerial
<1>. QED  BY <1>3, <1>4 DEF IInv

LEMMA NextIInv == IInv /\ [Next]_vars => IInv'
<1>. SUFFICES ASSUME IInv, [Next]_vars
              PROVE  IInv'
  OBVIOUS
<1>0. next_txn_id \in Nat
  BY DEF IInv, TxnTyped
<1>1. CASE Begin
  BY <1>1, BeginPreserves
<1>2. CASE Commit
  BY <1>2, CommitPreserves
<1>3. CASE NothingOpen
  BY <1>0, <1>3, DiePreserves DEF NothingOpen
<1>4. CASE Rollback
  BY <1>4, RollbackPreserves
<1>5. CASE UndoWrite
  BY <1>5, UndoWritePreserves
<1>6. CASE UndoFails
  BY <1>0, <1>6, DiePreserves DEF UndoFails
<1>7. CASE FinishRollback
  BY <1>7, FinishRollbackPreserves
<1>8. ASSUME NEW s \in Statements, StartStatement(WithScan(s))
      PROVE  IInv'
  BY <1>8, StartStatementPreserves
<1>9. CASE Row
  BY <1>9, RowPreserves
<1>10. CASE Finish
  BY <1>10, FinishPreserves
<1>11. ASSUME NEW p \in DOMAIN t.view, Evict(p)
       PROVE  IInv'
  BY <1>11, SessionKept DEF Evict, memory
<1>12. CASE Crash
  BY <1>0, <1>12, DiePreserves DEF Crash
<1>13. CASE Exit
  BY <1>13, ExitPreserves
<1>14. CASE Close
  BY <1>14, ClosePreserves
<1>15. CASE Start
  BY <1>15, StartPreserves
<1>16. CASE Replay
  BY <1>16, SessionKept DEF Replay
<1>17. CASE ReplayFails
  BY <1>17, ReplayFailsPreserves
<1>18. CASE FinishRecovery
  BY <1>18, FinishRecoveryPreserves
<1>19. CASE UNCHANGED vars
  BY <1>19, SessionKept DEF vars, memory
<1>. QED
  BY <1>1, <1>2, <1>3, <1>4, <1>5, <1>6, <1>7, <1>8, <1>9, <1>10, <1>11, <1>12, <1>13,
     <1>14, <1>15, <1>16, <1>17, <1>18, <1>19 DEF Next

---------------------------------------------------------------------------
(* The write set and the log.                                              *)

LEMMA WritesFinite ==
  ASSUME txn.writes \in Seq(Range(txn.writes)), NEW lost \in SUBSET DOMAIN txn.writes
  PROVE  IsFiniteSet(lost) /\ Cardinality(lost) \in Nat
<1>1. DOMAIN txn.writes = 1 .. Len(txn.writes) /\ Len(txn.writes) \in Nat
  OBVIOUS
<1>2. IsFiniteSet(DOMAIN txn.writes)
  BY <1>1, FS_Interval
<1>. QED  BY <1>2, FS_Subset, FS_CardinalityType

LEMMA WritesAppended ==
  ASSUME txn.writes \in Seq(Range(txn.writes)), NEW w
  PROVE  LET new == Append(txn.writes, w)
         IN  /\ new \in Seq(Range(new)) /\ Len(txn.writes) \in Nat
             /\ DOMAIN txn.writes = 1 .. Len(txn.writes)
             /\ DOMAIN new = 1 .. Len(txn.writes) + 1
             /\ new[Len(txn.writes) + 1] = w
             /\ \A n \in DOMAIN txn.writes : new[n] = txn.writes[n]
<1>. DEFINE s == txn.writes
            S == Range(s) \cup {w}
<1>1. s \in Seq(S) /\ w \in S
  <2>1. Range(s) \subseteq S /\ s \in Seq(Range(s))
    OBVIOUS
  <2>. HIDE DEF S, s
  <2>2. s \in Seq(S)
    BY <2>1
  <2>. QED  BY <2>2 DEF S
<1>2. Append(s, w) \in Seq(S) /\ Range(Append(s, w)) = S
  <2>. HIDE DEF S, s
  <2>1. Append(s, w) \in Seq(S) /\ Range(Append(s, w)) = Range(s) \cup {w}
    BY <1>1, AppendToList
  <2>. QED  BY <2>1 DEF S
<1>. HIDE DEF S
<1>3. /\ Len(Append(s, w)) = Len(s) + 1 /\ Append(s, w)[Len(s) + 1] = w
      /\ \A i \in 1 .. Len(s) : Append(s, w)[i] = s[i]
  BY <1>1, AppendProperties
<1>. QED  BY <1>1, <1>2, <1>3

(* Nothing to show.                                                        *)
LEMMA NothingTracked ==
  ASSUME faults' \in Nat, txn'.writes \in Seq(Range(txn'.writes)),
         status' # "running" \/ txn' = NoTxn \/ Undoing'
  PROVE  Tracked'
BY DEF Tracked, WriteSetIsLogged

LEMMA NoTxnTracked ==
  ASSUME faults' \in Nat, txn' = NoTxn
  PROVE  Tracked'
<1>1. txn'.writes = << >> /\ << >> \in Seq(Range(<< >>))
  BY DEF NoTxn
<1>. QED  BY <1>1, NothingTracked

(* What WriteSetIsLogged says of the writes w, the records open of the log *)
(* l and the f writes at most that went without a record.                  *)
Matched(w, open, l, f) ==
  \E lost \in SUBSET DOMAIN w :
    /\ Cardinality(lost) <= f
    /\ \E at \in [DOMAIN w \ lost -> open] :
         /\ Range(at) = open
         /\ \A m, n \in DOMAIN at : m < n => at[m] < at[n]
         /\ \A n \in DOMAIN at : l[at[n]].rid = w[n].rid /\ l[at[n]].old = w[n].old

(* Neither the log nor the write set changes.                              *)
LEMMA TrackedKept ==
  ASSUME Tracked, log' = log, txn' = txn, faults' = faults,
         status' = "running" => status = "running", Undoing => Undoing'
  PROVE  Tracked'
<1>1. OpenChanges' = OpenChanges
  BY DEF OpenChanges
<1>2. Matched(txn'.writes, OpenChanges', log', faults')
        <=> Matched(txn.writes, OpenChanges, log, faults)
  <2>. HIDE DEF OpenChanges
  <2>. QED  BY <1>1
<1>3. /\ WriteSetIsLogged <=> (status = "running" /\ txn # NoTxn /\ ~Undoing =>
                               Matched(txn.writes, OpenChanges, log, faults))
      /\ WriteSetIsLogged' <=> (status' = "running" /\ txn' # NoTxn /\ ~Undoing' =>
                               Matched(txn'.writes, OpenChanges', log', faults'))
  BY DEF WriteSetIsLogged, Matched
<1>4. WriteSetIsLogged'
  BY <1>2, <1>3 DEF Tracked
<1>. QED  BY <1>4 DEF Tracked

(* A transaction begins: the log has nothing under its id but its BEGIN.   *)
LEMMA TrackedBegin ==
  ASSUME IInv, Tracked, status = "running", txn = NoTxn, BeginTxn
  PROVE  Tracked'
<1>. DEFINE r == Bracket("BEGIN", next_txn_id)
            none == [n \in {} |-> 0]
<1>1. /\ txn'.writes = << >> /\ txn'.id = next_txn_id
      /\ \/ log' = log /\ faults' = faults + 1
         \/ log' = Append(log, r) /\ faults' = faults
      /\ r.type = "BEGIN"
  BY DEF BeginTxn, add_record, Bracket, Record
<1>. HIDE DEF r
<1>2. /\ next_txn_id \in Nat /\ log \in Seq(Range(log)) /\ faults \in Nat
      /\ \A i \in DOMAIN log : log[i].txn \in Int /\ log[i].txn < next_txn_id
  BY DEF IInv, TxnTyped, IdsGiven, Tracked
<1>3. \A i \in DOMAIN log' : log'[i] = r \/ (i \in DOMAIN log /\ log'[i] = log[i])
  <2>1. CASE log' = log
    BY <2>1
  <2>2. CASE log' = Append(log, r)
    <3>1. /\ DOMAIN log = 1 .. Len(log) /\ DOMAIN log' = 1 .. Len(log) + 1
          /\ Len(log) \in Nat /\ log'[Len(log) + 1] = r
          /\ \A i \in DOMAIN log : log'[i] = log[i]
      BY <1>2, <2>2, Appended
    <3>. QED  BY <3>1
  <2>. QED  BY <1>1, <2>1, <2>2
<1>4. OpenChanges' = {}
  BY <1>1, <1>2, <1>3 DEF OpenChanges
<1>5. faults' \in Nat
  BY <1>1, <1>2
<1>6. txn'.writes \in Seq(Range(txn'.writes)) /\ DOMAIN txn'.writes = {}
  BY <1>1
<1>7. WriteSetIsLogged'
  <2>1. {} \in SUBSET DOMAIN txn'.writes /\ Cardinality({}) <= faults'
    BY <1>5, FS_EmptySet
  <2>2. none \in [DOMAIN txn'.writes \ {} -> OpenChanges']
    BY <1>4, <1>6
  <2>3. Range(none) = {} /\ DOMAIN none = {}
    BY DEF Range
  <2>. HIDE DEF none
  <2>. QED  BY <1>4, <2>1, <2>2, <2>3 DEF WriteSetIsLogged
<1>. QED  BY <1>5, <1>6, <1>7 DEF Tracked

(* A row is changed: its record is behind the others, or lost.             *)
LEMMA TrackedChange ==
  ASSUME IInv, Tracked, status = "running", txn # NoTxn, ~Undoing,
         NEW r, NEW w, add_record(r), r.type \in {"INSERT", "UPDATE"}, r.txn = txn.id,
         r.rid = w.rid, r.old = w.old,
         txn'.writes = Append(txn.writes, w), txn'.id = txn.id
  PROVE  Tracked'
<1>. DEFINE new == Append(txn.writes, w)
            len == Len(txn.writes)
<1>1. /\ txn.writes \in Seq(Range(txn.writes)) /\ faults \in Nat
      /\ log \in Seq(Range(log))
  BY DEF Tracked, IInv, TxnTyped
<1>2. /\ new \in Seq(Range(new)) /\ len \in Nat
      /\ DOMAIN txn.writes = 1 .. len /\ DOMAIN new = 1 .. len + 1
      /\ new[len + 1] = w /\ \A n \in DOMAIN txn.writes : new[n] = txn.writes[n]
  BY <1>1, WritesAppended
<1>3. txn'.writes = new
  OBVIOUS
<1>. HIDE DEF new, len
<1>4. PICK lost \in SUBSET DOMAIN txn.writes :
        /\ Cardinality(lost) <= faults
        /\ \E at \in [DOMAIN txn.writes \ lost -> OpenChanges] :
             /\ Range(at) = OpenChanges
             /\ \A m, n \in DOMAIN at : m < n => at[m] < at[n]
             /\ \A n \in DOMAIN at : /\ log[at[n]].rid = txn.writes[n].rid
                                     /\ log[at[n]].old = txn.writes[n].old
  BY DEF Tracked, WriteSetIsLogged
<1>5. PICK at \in [DOMAIN txn.writes \ lost -> OpenChanges] :
        /\ Range(at) = OpenChanges
        /\ \A m, n \in DOMAIN at : m < n => at[m] < at[n]
        /\ \A n \in DOMAIN at : /\ log[at[n]].rid = txn.writes[n].rid
                                /\ log[at[n]].old = txn.writes[n].old
  BY <1>4
<1>6. IsFiniteSet(lost) /\ Cardinality(lost) \in Nat
  BY <1>1, WritesFinite
<1>7. /\ DOMAIN at = (1 .. len) \ lost /\ len + 1 \notin lost
      /\ \A n \in DOMAIN at : at[n] \in OpenChanges
  BY <1>2, <1>5
<1>8. CASE log' = log /\ faults' = faults + 1
  <2>. DEFINE more == lost \cup {len + 1}
  <2>1. more \in SUBSET DOMAIN new /\ DOMAIN new \ more = DOMAIN txn.writes \ lost
    BY <1>2
  <2>2. Cardinality(more) <= faults'
    <3>1. Cardinality(more) = Cardinality(lost) + 1
      BY <1>6, <1>7, FS_AddElement
    <3>. HIDE DEF more
    <3>. QED  BY <1>1, <1>4, <1>6, <1>8, <3>1
  <2>3. OpenChanges' = OpenChanges
    BY <1>8 DEF OpenChanges
  <2>4. \A n \in DOMAIN at : new[n] = txn.writes[n]
    BY <1>2, <1>7
  <2>5. at \in [DOMAIN new \ more -> OpenChanges']
    BY <2>1, <2>3
  <2>. HIDE DEF more
  <2>6. \A n \in DOMAIN at : /\ log'[at[n]].rid = txn'.writes[n].rid
                             /\ log'[at[n]].old = txn'.writes[n].old
    BY <1>3, <1>5, <1>8, <2>4
  <2>7. WriteSetIsLogged'
    BY <1>3, <1>5, <2>1, <2>2, <2>3, <2>5, <2>6 DEF WriteSetIsLogged
  <2>8. faults' \in Nat
    BY <1>1, <1>8
  <2>. QED  BY <1>2, <1>3, <2>7, <2>8 DEF Tracked
<1>9. CASE log' = Append(log, r) /\ faults' = faults
  <2>. DEFINE end == Len(log) + 1
              longer == [n \in DOMAIN new \ lost |-> IF n = len + 1 THEN end ELSE at[n]]
  <2>1. /\ DOMAIN log = 1 .. Len(log) /\ DOMAIN log' = 1 .. end /\ Len(log) \in Nat
        /\ log'[end] = r /\ \A i \in DOMAIN log : log'[i] = log[i]
    BY <1>1, <1>9, Appended
  <2>2. OpenChanges' = OpenChanges \cup {end} /\ OpenChanges \subseteq 1 .. Len(log)
    <3>1. \A i \in DOMAIN log' : i = end \/ i \in DOMAIN log
      BY <2>1
    <3>2. end \in DOMAIN log' /\ \A i \in DOMAIN log : i \in DOMAIN log'
      BY <2>1
    <3>. HIDE DEF end
    <3>. QED  BY <2>1, <3>1, <3>2 DEF OpenChanges
  <2>3. /\ DOMAIN longer = DOMAIN at \cup {len + 1} /\ len + 1 \notin DOMAIN at
        /\ longer[len + 1] = end /\ \A n \in DOMAIN at : longer[n] = at[n]
    <3>1. DOMAIN new \ lost = DOMAIN at \cup {len + 1} /\ len + 1 \notin DOMAIN at
      BY <1>2, <1>7
    <3>. QED  BY <3>1
  <2>4. longer = [n \in DOMAIN new \ lost |-> longer[n]]
    OBVIOUS
  <2>. HIDE DEF longer, end
  <2>5. longer \in [DOMAIN new \ lost -> OpenChanges']
    BY <1>7, <2>2, <2>3, <2>4
  <2>6. Range(longer) = OpenChanges'
    BY <1>5, <2>2, <2>3 DEF Range
  <2>7. ASSUME NEW m \in DOMAIN longer, NEW n \in DOMAIN longer, m < n
        PROVE  longer[m] < longer[n]
    <3>1. m \in DOMAIN at /\ m \in 1 .. len
      BY <1>2, <1>7, <2>3, <2>7
    <3>2. CASE n \in DOMAIN at
      BY <1>5, <2>3, <2>7, <3>1, <3>2
    <3>3. CASE n = len + 1
      <4>1. at[m] \in 1 .. Len(log) /\ longer[n] = end /\ longer[m] = at[m]
        BY <1>7, <2>2, <2>3, <3>1, <3>3
      <4>. QED  BY <2>1, <4>1 DEF end
    <3>. QED  BY <2>3, <3>2, <3>3
  <2>8. ASSUME NEW n \in DOMAIN longer
        PROVE  /\ log'[longer[n]].rid = txn'.writes[n].rid
               /\ log'[longer[n]].old = txn'.writes[n].old
    <3>1. CASE n = len + 1
      BY <1>2, <1>3, <2>1, <2>3, <3>1
    <3>2. CASE n \in DOMAIN at
      <4>1. /\ at[n] \in DOMAIN log /\ longer[n] = at[n] /\ new[n] = txn.writes[n]
        BY <1>2, <1>7, <2>1, <2>2, <2>3, <3>2
      <4>. QED  BY <1>3, <1>5, <2>1, <3>2, <4>1
    <3>. QED  BY <2>3, <3>1, <3>2
  <2>9. lost \in SUBSET DOMAIN txn'.writes /\ Cardinality(lost) <= faults'
    BY <1>2, <1>3, <1>4, <1>9
  <2>10. WriteSetIsLogged'
    BY <1>3, <2>5, <2>6, <2>7, <2>8, <2>9 DEF WriteSetIsLogged
  <2>. QED  BY <1>1, <1>2, <1>3, <1>9, <2>10 DEF Tracked
<1>. QED  BY <1>8, <1>9 DEF add_record

LEMMA RowTracked ==
  ASSUME IInv, Tracked, Row
  PROVE  Tracked'
<1>1. faults \in Nat
  BY DEF Tracked
<1>2. ASSUME stmt # NoStmt, ~Undoing,
             NEW u, NEW type, NEW logged \in {"INSERT", "UPDATE"}, NEW rid, NEW old, NEW new,
             ChangeRow(u, type, logged, rid, old, new)
      PROVE  Tracked'
  <2>. DEFINE r == Record(logged, txn.id, rid, old, new)
              w == [type |-> type, rid |-> rid, old |-> old]
  <2>1. status = "running" /\ txn # NoTxn
    BY <1>2 DEF IInv, StatementOpen
  <2>2. /\ txn' = [txn EXCEPT !.writes = Append(txn.writes, w)] /\ add_record(r)
    BY <1>2 DEF ChangeRow
  <2>3. /\ r.type = logged /\ r.txn = txn.id /\ r.rid = rid /\ r.old = old
        /\ w.rid = rid /\ w.old = old
    BY DEF Record
  <2>. HIDE DEF r, w
  <2>4. txn'.writes = Append(txn.writes, w) /\ txn'.id = txn.id
    BY <2>1, <2>2, Open
  <2>. QED  BY <1>2, <2>1, <2>2, <2>3, <2>4, TrackedChange
<1>3. CASE InsertRow
  <2>1. stmt # NoStmt /\ ~Undoing
    BY <1>3, NothingIsOpen DEF InsertRow, Undoing
  <2>2. ChangeRow(insertTuple(t, stmt.new), "INSERT", "INSERT",
                  insertedRID(t, stmt.new), Empty, stmt.new)
    BY <1>3 DEF InsertRow
  <2>. QED  BY <1>2, <2>1, <2>2
<1>4. CASE UpdateRow
  <2>1. stmt # NoStmt /\ ~Undoing
    BY <1>4, NothingIsOpen DEF UpdateRow, Undoing
  <2>2. ChangeRow(updateTuple(t, Ahead.rid, stmt.new), "UPDATE", "UPDATE",
                  Ahead.rid, getTuple(t, Ahead.rid), stmt.new)
    BY <1>4 DEF UpdateRow
  <2>. QED  BY <1>2, <2>1, <2>2
<1>5. CASE DeleteRow
  <2>1. stmt # NoStmt /\ ~Undoing
    BY <1>5, NothingIsOpen DEF DeleteRow, Undoing
  <2>2. ChangeRow(deleteTuple(t, Ahead.rid), "DELETE", "UPDATE",
                  Ahead.rid, getTuple(t, Ahead.rid), Empty)
    BY <1>5 DEF DeleteRow
  <2>. QED  BY <1>2, <2>1, <2>2
<1>6. CASE PredicateFails
  <2>1. CASE Die /\ UNCHANGED faults
    BY <1>1, <2>1, NoTxnTracked DEF Die, NoTxnLeft
  <2>2. CASE status' = "lost" /\ UNCHANGED <<txn, faults>>
    BY <1>1, <2>2, NothingTracked DEF Tracked
  <2>. QED  BY <1>6, <2>1, <2>2 DEF PredicateFails
<1>. QED  BY <1>3, <1>4, <1>5, <1>6 DEF Row

LEMMA UndoWriteTracked ==
  ASSUME IInv, Tracked, UndoWrite
  PROVE  Tracked'
<1>. DEFINE s == txn.writes
<1>1. /\ stmt.op = "rollback" /\ stmt' = stmt /\ faults' = faults
      /\ txn' = [txn EXCEPT !.writes = Front(s)] /\ s # << >>
      /\ faults \in Nat /\ s \in Seq(Range(s))
  BY DEF UndoWrite, Undoing, Tracked
<1>2. DOMAIN txn = {"id", "writes"}
  BY DEF IInv, TxnTyped
<1>3. txn'.writes = Front(s)
  BY <1>1, <1>2
<1>4. Front(s) \in Seq(Range(s)) /\ Len(Front(s)) = Len(s) - 1
  BY <1>1, FrontElements
<1>5. Front(s) \in Seq(Range(Front(s)))
  BY <1>4 DEF Range
<1>. QED  BY <1>1, <1>3, <1>5, NothingTracked DEF Undoing

LEMMA InitTracked == Init => Tracked
<1>. SUFFICES ASSUME Init PROVE Tracked
  OBVIOUS
<1>1. faults = 0 /\ txn = NoTxn /\ txn.writes = << >> /\ << >> \in Seq(Range(<< >>))
  BY DEF Init, NoTxn
<1>. QED  BY <1>1 DEF Tracked, WriteSetIsLogged

LEMMA NextTracked == IInv /\ Tracked /\ [Next]_vars => Tracked'
<1>. SUFFICES ASSUME IInv, Tracked, [Next]_vars
              PROVE  Tracked'
  OBVIOUS
<1>0. faults \in Nat /\ txn.writes \in Seq(Range(txn.writes))
  BY DEF Tracked
<1>. DEFINE Failing == faults' = faults \/ faults' = faults + 1
<1>1. \A r : add_record(r) => Failing
  BY DEF add_record
<1>2. Failing => faults' \in Nat
  BY <1>0
<1>. HIDE DEF Failing
<1>3. CASE Begin
  <2>1. status = "running" /\ txn = NoTxn /\ BeginTxn
    BY <1>3 DEF Begin, Prompt
  <2>. QED  BY <2>1, TrackedBegin
<1>4. CASE Commit
  <2>1. Failing /\ txn' = NoTxn
    BY <1>1, <1>4 DEF Commit, NoTxnLeft
  <2>. QED  BY <1>2, <2>1, NoTxnTracked
<1>5. CASE FinishRollback
  <2>1. Failing /\ txn' = NoTxn
    BY <1>1, <1>5 DEF FinishRollback, NoTxnLeft
  <2>. QED  BY <1>2, <2>1, NoTxnTracked
<1>6. CASE Finish
  <2>1. Failing /\ txn' = NoTxn
    BY <1>1, <1>6 DEF Finish, NoTxnLeft
  <2>. QED  BY <1>2, <2>1, NoTxnTracked
<1>7. CASE NothingOpen \/ UndoFails \/ Crash
  <2>1. faults' = faults /\ txn' = NoTxn
    BY <1>7 DEF NothingOpen, UndoFails, Crash, Die, NoTxnLeft
  <2>. QED  BY <1>0, <2>1, NoTxnTracked
<1>8. CASE Rollback
  <2>1. stmt'.op = "rollback" /\ txn' = txn /\ faults' = faults
    BY <1>8 DEF Rollback
  <2>. QED  BY <1>0, <2>1, NothingTracked DEF Undoing
<1>9. CASE UndoWrite
  BY <1>9, UndoWriteTracked
<1>10. ASSUME NEW s \in Statements, StartStatement(WithScan(s))
       PROVE  Tracked'
  <2>1. status = "running" /\ stmt = NoStmt /\ status' = status
    BY <1>10 DEF StartStatement, Prompt
  <2>2. CASE txn = NoTxn /\ BeginTxn
    BY <2>1, <2>2, TrackedBegin
  <2>3. CASE UNCHANGED <<txn, log, faults>>
    <3>1. ~Undoing
      BY <2>1, NothingIsOpen DEF Undoing
    <3>. QED  BY <2>1, <2>3, <3>1, TrackedKept
  <2>. QED  BY <1>10, <2>2, <2>3 DEF StartStatement, TxnOpened
<1>11. CASE Row
  BY <1>11, RowTracked
<1>12. ASSUME NEW p \in DOMAIN t.view, Evict(p)
       PROVE  Tracked'
  BY <1>12, TrackedKept DEF Evict, memory, Undoing
<1>13. CASE Exit \/ Close \/ Start
  <2>1. /\ faults' = faults /\ status' # "running" /\ (txn' = txn \/ txn' = NoTxn)
    BY <1>13 DEF Exit, Close, NoTxnLeft, Start, memory
  <2>. QED  BY <1>0, <2>1, NothingTracked, NoTxnTracked
<1>14. CASE Replay
  BY <1>14, TrackedKept DEF Replay, Undoing
<1>15. CASE ReplayFails
  <2>1. faults' = faults /\ (txn' = NoTxn \/ (status' = "lost" /\ txn' = txn))
    BY <1>15 DEF ReplayFails, Die, NoTxnLeft
  <2>. QED  BY <1>0, <2>1, NothingTracked, NoTxnTracked
<1>16. CASE FinishRecovery
  <2>1. status = "recovering" /\ txn' = txn /\ faults' = faults
    BY <1>16 DEF FinishRecovery
  <2>2. txn = NoTxn
    BY <2>1 DEF IInv, StatementOpen
  <2>. QED  BY <1>0, <2>1, <2>2, NoTxnTracked
<1>17. CASE UNCHANGED vars
  BY <1>17, TrackedKept DEF vars, memory, Undoing
<1>. QED
  BY <1>3, <1>4, <1>5, <1>6, <1>7, <1>8, <1>9, <1>10, <1>11, <1>12, <1>13, <1>14, <1>15,
     <1>16, <1>17 DEF Next

---------------------------------------------------------------------------
(* The table, through the steps that change or lose it.                    *)

(* What a method of the heap, which writes to no page of the file, keeps.  *)
MethodOn(u, v) ==
  /\ Sound(v) /\ InMemory(u, v)
  /\ StopsAtEnd(u) => StopsAtEnd(v)
  /\ u.stopping_rid.page = u.last_page_id => v.stopping_rid.page = v.last_page_id

LEMMA InsertMethod ==
  ASSUME NEW u, Sound(u), NEW tuple \in Tuples, Room(u, tuple)
  PROVE  LET v == insertTuple(u, tuple)
         IN  /\ Sound(v) /\ InMemory(u, v)
             /\ StopsAtEnd(u) => StopsAtEnd(v)
             /\ v.stopping_rid.page = v.last_page_id
             /\ insertedRID(u, tuple) \in RID /\ insertedRID(u, tuple).page \in DOMAIN v.view
<1>. DEFINE v == insertTuple(u, tuple)
            rid == insertedRID(u, tuple)
<1>1. /\ Sound(v) /\ v.last_page_id = rid.page /\ v.stopping_rid = rid
      /\ v.starting_rid = IF u.starting_rid.page = -1 THEN rid ELSE u.starting_rid
  BY InsertedTable
<1>2. InMemory(u, v) /\ rid \in RID
  BY InsertInMemory, PlaceType
<1>. HIDE DEF v, rid
<1>3. v.last_page_id \in DOMAIN v.view
  BY <1>1, SoundFields
<1>4. StopsAtEnd(u) => StopsAtEnd(v)
  BY <1>1, <1>2, <1>3 DEF StopsAtEnd, InMemory
<1>. QED  BY <1>1, <1>2, <1>3, <1>4 DEF v, rid

LEMMA DeleteMethod ==
  ASSUME NEW u, Sound(u), NEW rid \in RID, rid.page \in DOMAIN u.view
  PROVE  MethodOn(u, deleteTuple(u, rid))
<1>. DEFINE v == deleteTuple(u, rid)
<1>1. /\ Sound(v) /\ InMemory(u, v) /\ DOMAIN v.view = DOMAIN u.view
      /\ v.last_page_id = u.last_page_id
      /\ v.starting_rid = u.starting_rid /\ v.stopping_rid = u.stopping_rid
  BY DeleteInMemory
<1>. HIDE DEF v
<1>. QED  BY <1>1 DEF MethodOn, StopsAtEnd, v

LEMMA UpdateMethod ==
  ASSUME NEW u, Sound(u), NEW rid \in RID, rid.page \in DOMAIN u.view, Present(u, rid),
         NEW tuple \in Tuples, Grows(u, rid, tuple) => Room(u, tuple)
  PROVE  MethodOn(u, updateTuple(u, rid, tuple))
<1>. DEFINE v == updateTuple(u, rid, tuple)
            w == deleteTuple(u, rid)
<1>1. CASE Grows(u, rid, tuple)
  <2>1. /\ v = insertTuple(w, tuple) /\ Room(w, tuple) /\ InMemory(u, v)
    BY <1>1, MoveInMemory
  <2>2. MethodOn(u, w)
    BY DeleteMethod
  <2>. HIDE DEF w, v
  <2>3. /\ Sound(v) /\ (StopsAtEnd(w) => StopsAtEnd(v))
        /\ v.stopping_rid.page = v.last_page_id
    BY <2>1, <2>2, InsertMethod DEF MethodOn
  <2>. QED  BY <2>1, <2>2, <2>3 DEF MethodOn, v
<1>2. CASE ~Grows(u, rid, tuple)
  <2>1. /\ Sound(v) /\ InMemory(u, v) /\ DOMAIN v.view = DOMAIN u.view
        /\ v.last_page_id = u.last_page_id
        /\ v.starting_rid = u.starting_rid /\ v.stopping_rid = u.stopping_rid
    BY <1>2, OverwriteInMemory
  <2>. HIDE DEF v
  <2>. QED  BY <2>1 DEF MethodOn, StopsAtEnd, v
<1>. QED  BY <1>1, <1>2

(* The pages of the file have their metadata, and lead where they lead in  *)
(* memory once an eviction writes them.                                    *)
LEMMA SavedAgain ==
  ASSUME NEW u, Sound(u), Saved(u), NEW v, Sound(v), v.known = u.known,
         \A p \in DOMAIN u.view :
           /\ p \in DOMAIN v.view
           /\ {v.view[p].meta, v.stored[p].meta} \subseteq {u.view[p].meta, u.stored[p].meta}
           /\ v.stored[p].next_page_id \in {u.stored[p].next_page_id, v.view[p].next_page_id}
  PROVE  Saved(v)
<1>. SUFFICES ASSUME v.known # {} PROVE Saved(v)
  BY DEF Saved
<1>1. PICK last \in 2 .. MaxPages :
        LET meta == u.stored[1].meta
        IN  /\ u.known = 1 .. last /\ u.view[1].meta = meta /\ meta.last_page_id = last
            /\ meta.starting_rid.page # -1 =>
                 meta.starting_rid.page \in 1 .. last /\ meta.stopping_rid.page = last
            /\ \A p \in 1 .. last - 1 : u.stored[p].next_page_id = p + 1
            /\ u.stored[last].next_page_id \in {-1, last + 1}
  BY DEF Saved
<1>2. /\ last \in Nat /\ last >= 2 /\ u.known \subseteq DOMAIN u.view
      /\ DOMAIN v.view = 1 .. v.last_page_id /\ v.last_page_id \in Nat
      /\ \A p \in DOMAIN v.view : v.view[p].next_page_id = NextPage(v, p)
  BY PagesAssumption, SoundFields
<1>3. /\ 1 \in DOMAIN u.view /\ last \in DOMAIN u.view /\ last <= v.last_page_id
      /\ \A p \in 1 .. last - 1 : p \in DOMAIN u.view /\ p \in DOMAIN v.view
                                    /\ p < v.last_page_id
  <2>1. \A p \in 1 .. last : p \in DOMAIN u.view /\ p \in DOMAIN v.view
    BY <1>1, <1>2
  <2>2. 1 \in 1 .. last /\ last \in 1 .. last /\ \A p \in 1 .. last - 1 : p \in 1 .. last
                                                                       /\ p < last
    BY <1>2
  <2>. QED  BY <1>2, <2>1, <2>2
<1>4. v.view[1].meta = u.stored[1].meta /\ v.stored[1].meta = u.stored[1].meta
  BY <1>1, <1>3
<1>5. \A p \in 1 .. last - 1 : v.stored[p].next_page_id = p + 1
  <2>. SUFFICES ASSUME NEW p \in 1 .. last - 1 PROVE v.stored[p].next_page_id = p + 1
    OBVIOUS
  <2>1. v.stored[p].next_page_id \in {u.stored[p].next_page_id, NextPage(v, p)}
    BY <1>2, <1>3
  <2>. QED  BY <1>1, <1>3, <2>1 DEF NextPage
<1>6. v.stored[last].next_page_id \in {-1, last + 1}
  <2>1. v.stored[last].next_page_id \in {u.stored[last].next_page_id, NextPage(v, last)}
    BY <1>2, <1>3
  <2>. QED  BY <1>1, <2>1 DEF NextPage
<1>. QED  BY <1>1, <1>4, <1>5, <1>6 DEF Saved

LEMMA SavedInMemory ==
  ASSUME NEW u, Sound(u), Saved(u), NEW v, Sound(v), InMemory(u, v)
  PROVE  Saved(v)
<1>1. \A p \in DOMAIN u.view :
        /\ p \in DOMAIN v.view
        /\ {v.view[p].meta, v.stored[p].meta} \subseteq {u.view[p].meta, u.stored[p].meta}
        /\ v.stored[p].next_page_id \in {u.stored[p].next_page_id, v.view[p].next_page_id}
  BY DEF InMemory
<1>2. v.known = u.known
  BY DEF InMemory
<1>. QED  BY <1>1, <1>2, SavedAgain

LEMMA SavedEvicted ==
  ASSUME NEW u, Sound(u), Saved(u), NEW E
  PROVE  Saved(Evicted(u, E))
<1>. DEFINE v == Evicted(u, E)
<1>1. Sound(v) /\ v.known = u.known /\ DOMAIN v.view = DOMAIN u.view
  BY EvictedTable
<1>2. DOMAIN u = TableFields
  BY SoundFields
<1>3. \A p \in DOMAIN u.view :
        /\ v.view[p] \in {u.view[p], u.stored[p]}
        /\ v.stored[p] = u.stored[p] \/ v.stored[p] = v.view[p]
  <2>1. /\ v.view = [p \in DOMAIN u.view |->
                      IF p \in E \ u.marked THEN u.stored[p] ELSE u.view[p]]
        /\ v.stored = [p \in DOMAIN u.view |->
                        IF p \in E \cap u.marked THEN u.view[p] ELSE u.stored[p]]
    BY <1>2 DEF Evicted, TableFields
  <2>. HIDE DEF v
  <2>. QED  BY <2>1
<1>. HIDE DEF v
<1>4. \A p \in DOMAIN u.view :
        /\ p \in DOMAIN v.view
        /\ {v.view[p].meta, v.stored[p].meta} \subseteq {u.view[p].meta, u.stored[p].meta}
        /\ v.stored[p].next_page_id \in {u.stored[p].next_page_id, v.view[p].next_page_id}
  BY <1>1, <1>3
<1>. QED  BY <1>1, <1>4, SavedAgain DEF v

LEMMA SoundIsTable ==
  ASSUME NEW u, Sound(u)
  PROVE  IsTable(u)
<1>1. DOMAIN u.view \subseteq PageId /\ u.first_page_id \in PageId
  BY SoundFields
<1>. QED  BY <1>1, SoundFields DEF IsTable, Sound

(* A crash keeps the pages the directory knows, as the file has them.      *)
LEMMA CrashedTable ==
  ASSUME NEW u, Sound(u), Saved(u)
  PROVE  LET v == Crashed(u) IN IsTable(v) /\ AtRest(v) /\ Saved(v)
<1>. DEFINE v == Crashed(u)
<1>1. /\ DOMAIN u = TableFields /\ u.known \subseteq DOMAIN u.view
      /\ u.first_page_id = 1
  BY SoundFields
<1>2. /\ DOMAIN v = TableFields /\ v.view = Restrict(u.stored, u.known)
      /\ v.stored = Restrict(u.stored, u.known) /\ v.marked = {} /\ v.known = u.known
      /\ v.first_page_id = u.first_page_id /\ v.last_page_id = u.last_page_id
      /\ v.starting_rid = u.starting_rid /\ v.stopping_rid = u.stopping_rid
  BY <1>1 DEF Crashed, TableFields
<1>. HIDE DEF v
<1>3. /\ DOMAIN v.view = u.known /\ DOMAIN v.stored = u.known
      /\ \A p \in u.known : v.view[p] = u.stored[p] /\ v.stored[p] = u.stored[p]
  BY <1>2 DEF Restrict
<1>4. \A p \in u.known : /\ p \in PageId /\ u.stored[p] \in Page /\ Fitting(u.stored[p])
  BY <1>1, SoundFields
<1>5. AtRest(v)
  <2>1. Restrict(v.stored, v.known) = v.view
    BY <1>2 DEF Restrict
  <2>. QED  BY <1>1, <1>2, <1>3, <1>4, <2>1 DEF AtRest
<1>6. IsTable(v)
  <2>1. IsFile(v) /\ DOMAIN v.view \subseteq PageId
    BY <1>2, <1>3, <1>4 DEF IsFile
  <2>2. \A p \in DOMAIN v.view : v.view[p] \in Page /\ v.stored[p] \in Page
    BY <1>3, <1>4
  <2>3. /\ {v.first_page_id, v.last_page_id} \subseteq PageId
        /\ {v.starting_rid, v.stopping_rid} \subseteq RID
    BY <1>1, <1>2, SoundFields
  <2>. QED  BY <2>1, <2>2, <2>3 DEF IsTable
<1>7. Saved(v)
  <2>. SUFFICES ASSUME u.known # {} PROVE Saved(v)
    BY <1>2 DEF Saved
  <2>1. PICK last \in 2 .. MaxPages :
          LET meta == u.stored[1].meta
          IN  /\ u.known = 1 .. last /\ u.view[1].meta = meta /\ meta.last_page_id = last
              /\ meta.starting_rid.page # -1 =>
                   meta.starting_rid.page \in 1 .. last /\ meta.stopping_rid.page = last
              /\ \A p \in 1 .. last - 1 : u.stored[p].next_page_id = p + 1
              /\ u.stored[last].next_page_id \in {-1, last + 1}
    BY DEF Saved
  <2>2. /\ 1 \in u.known /\ last \in u.known /\ \A p \in 1 .. last - 1 : p \in u.known
    BY <2>1, PagesAssumption
  <2>3. v.stored[1].meta = u.stored[1].meta /\ v.view[1].meta = u.stored[1].meta
    BY <1>3, <2>2
  <2>4. /\ \A p \in 1 .. last - 1 : v.stored[p].next_page_id = p + 1
        /\ v.stored[last].next_page_id \in {-1, last + 1}
    BY <1>3, <2>1, <2>2
  <2>. QED  BY <1>2, <2>1, <2>3, <2>4 DEF Saved
<1>. QED  BY <1>5, <1>6, <1>7 DEF v

(* A clean close writes everything.                                        *)
LEMMA ClosedAtRest ==
  ASSUME NEW u, Sound(u), StopsAtEnd(u)
  PROVE  LET v == Closed(u) IN IsTable(v) /\ AtRest(v) /\ Saved(v)
<1>. DEFINE w == saveMetaData(u)
            e == Evicted(w, DOMAIN w.view)
            v == Closed(u)
<1>1. /\ Sound(v) /\ v.last_page_id = u.last_page_id
      /\ v.view[1].meta = [last_page_id |-> u.last_page_id,
                           starting_rid |-> u.starting_rid, stopping_rid |-> u.stopping_rid]
      /\ v.starting_rid = u.starting_rid /\ v.stopping_rid = u.stopping_rid
  BY ClosedTable
<1>2. /\ DOMAIN w = TableFields
  <2>1. DOMAIN u = TableFields
    BY SoundFields
  <2>. QED  BY <2>1 DEF saveMetaData, Marked, Written, TableFields
<1>3. v = [e EXCEPT !.known = DOMAIN w.view]
  BY DEF Closed, Flushed
<1>. HIDE DEF w
<1>4. /\ DOMAIN e = TableFields
      /\ e.view = [p \in DOMAIN w.view |->
                     IF p \in DOMAIN w.view \ w.marked THEN w.stored[p] ELSE w.view[p]]
      /\ e.stored = [p \in DOMAIN w.view |->
                       IF p \in DOMAIN w.view \cap w.marked THEN w.view[p] ELSE w.stored[p]]
      /\ e.marked = w.marked \ DOMAIN w.view
  BY <1>2 DEF Evicted, TableFields
<1>. HIDE DEF e, v
<1>5. /\ DOMAIN v = TableFields /\ v.view = e.view /\ v.stored = e.stored
      /\ v.marked = w.marked \ DOMAIN w.view /\ v.known = DOMAIN w.view
  BY <1>3, <1>4 DEF TableFields
<1>6. v.stored = v.view /\ v.known = DOMAIN v.view
  BY <1>4, <1>5
<1>7. /\ v.marked = {} /\ v.first_page_id = 1 /\ DOMAIN v.view = 1 .. v.last_page_id
      /\ v.last_page_id \in Nat /\ 2 <= v.last_page_id /\ v.last_page_id <= MaxPages
      /\ MaxPages \in Nat
      /\ \A p \in DOMAIN v.view : Fitting(v.view[p])
                                  /\ v.view[p].next_page_id = NextPage(v, p)
  <2>1. v.marked \subseteq DOMAIN v.view
    BY <1>1, SoundFields
  <2>2. DOMAIN v.view = DOMAIN w.view
    BY <1>4, <1>5
  <2>. QED  BY <1>1, <1>5, <2>1, <2>2, SoundFields
<1>8. AtRest(v)
  <2>1. Restrict(v.stored, v.known) = v.view
    BY <1>4, <1>5 DEF Restrict
  <2>. QED  BY <1>5, <1>6, <1>7, <2>1 DEF AtRest
<1>9. Saved(v)
  <2>. DEFINE last == v.last_page_id
  <2>1. last \in 2 .. MaxPages /\ 1 \in DOMAIN v.view /\ last \in DOMAIN v.view
    BY <1>7
  <2>2. v.stored[1].meta = [last_page_id |-> last, starting_rid |-> v.starting_rid,
                            stopping_rid |-> v.stopping_rid]
    BY <1>1, <1>6
  <2>3. StopsAtEnd(v)
    BY <1>1, <1>7, SoundFields DEF StopsAtEnd
  <2>4. \A p \in 1 .. last - 1 : v.stored[p].next_page_id = p + 1
    <3>1. \A p \in 1 .. last - 1 : p \in DOMAIN v.view /\ p < last
      BY <1>7
    <3>. QED  BY <1>6, <1>7, <3>1 DEF NextPage
  <2>5. v.stored[last].next_page_id = -1
    BY <1>6, <1>7, <2>1 DEF NextPage
  <2>6. v.known = 1 .. last /\ v.view[1].meta = v.stored[1].meta
    BY <1>6, <1>7
  <2>7. v.starting_rid.page # -1 => v.starting_rid.page \in 1 .. last
                                    /\ v.stopping_rid.page = last
    BY <1>7, <2>3 DEF StopsAtEnd
  <2>. HIDE DEF last
  <2>. QED  BY <2>1, <2>2, <2>4, <2>5, <2>6, <2>7 DEF Saved
<1>10. IsTable(v)
  BY <1>1, SoundIsTable
<1>. QED  BY <1>8, <1>9, <1>10 DEF v

(* Loading takes the metadata for what it was, and the chain, which ends,  *)
(* has the pages it had.                                                   *)
LEMMA LoadedSound ==
  ASSUME NEW u, IsTable(u), AtRest(u), Saved(u), u.first_page_id \in DOMAIN u.view,
         ChainIntact(u)
  PROVE  LET v == loadMetaData(u)
         IN  Sound(v) /\ StopsAtEnd(v) /\ Saved(v) /\ IsTable(v)
<1>. DEFINE v == loadMetaData(u)
            meta == u.view[1].meta
<1>1. /\ DOMAIN u = TableFields /\ u.first_page_id = 1 /\ u.stored = u.view
      /\ u.marked = {} /\ u.known = DOMAIN u.view
      /\ \A p \in DOMAIN u.view : Fitting(u.view[p]) /\ u.view[p] \in Page
  BY DEF AtRest, IsTable
<1>2. PICK last \in 2 .. MaxPages :
        /\ DOMAIN u.view = 1 .. last /\ meta.last_page_id = last
        /\ meta.starting_rid.page # -1 =>
             meta.starting_rid.page \in 1 .. last /\ meta.stopping_rid.page = last
        /\ \A p \in 1 .. last - 1 : u.view[p].next_page_id = p + 1
        /\ u.view[last].next_page_id \in {-1, last + 1}
  BY <1>1 DEF Saved
<1>3. last \in Nat /\ 2 <= last /\ last <= MaxPages /\ MaxPages \in Nat
  BY PagesAssumption
<1>4. u.view[last].next_page_id = -1
  <2>. SUFFICES ASSUME u.view[last].next_page_id = last + 1 PROVE FALSE
    BY <1>2
  <2>1. Linked(u, last, last + 1)
    <3>1. \A p \in 1 .. last : p \in 1 .. last - 1 \/ p = last
      BY <1>3
    <3>2. \A p \in 1 .. last - 1 : p < last
      BY <1>3
    <3>. QED  BY <1>1, <1>2, <1>3, <3>1, <3>2 DEF Linked
  <2>. QED  BY <2>1, LinkedPastEnd
<1>5. /\ DOMAIN v = TableFields /\ v.view = u.view /\ v.stored = u.stored
      /\ v.marked = u.marked /\ v.known = u.known /\ v.first_page_id = 1
      /\ v.last_page_id = last /\ v.starting_rid = meta.starting_rid
      /\ v.stopping_rid = meta.stopping_rid
  BY <1>1, <1>2 DEF loadMetaData, TableFields
<1>. HIDE DEF v
<1>6. meta.starting_rid \in RID /\ meta.stopping_rid \in RID
  <2>1. meta \in [last_page_id : PageId \cup {-1}, starting_rid : RID, stopping_rid : RID]
    BY <1>1, PageFields
  <2>. QED  BY <2>1
<1>7. \A p \in DOMAIN v.view : v.view[p].next_page_id = NextPage(v, p)
  <2>1. \A p \in 1 .. last : (p \in 1 .. last - 1 /\ p < last) \/ p = last
    BY <1>3
  <2>. QED  BY <1>2, <1>3, <1>4, <1>5, <2>1 DEF NextPage
<1>8. IsFile(v)
  BY <1>1, <1>5 DEF IsFile
<1>9. Sound(v)
  BY <1>1, <1>2, <1>5, <1>6, <1>7, <1>8 DEF Sound
<1>10. StopsAtEnd(v)
  BY <1>2, <1>5 DEF StopsAtEnd
<1>11. Saved(v)
  BY <1>5 DEF Saved
<1>. QED  BY <1>9, <1>10, <1>11, SoundIsTable DEF v

---------------------------------------------------------------------------
(* The rows a statement meets.                                             *)
LEMMA KnownSpots ==
  ASSUME Sound(t), NEW rid
  PROVE  /\ Known(rid) /\ rid.page # -1 => rid \in Spots(t)
         /\ rid \in Spots(t) => Known(rid)
<1>1. /\ DOMAIN t.view \subseteq PageId /\ NoRID \in RID /\ NoRID.page = -1
  BY SoundFields DEF NoRID, RID
<1>2. \A p \in DOMAIN t.view : p \in PageId \cup {-1}
  BY <1>1
<1>3. ASSUME rid \in RID, rid.page \in DOMAIN t.view
      PROVE  rid \in Spots(t)
  <2>1. rid = [page |-> rid.page, slot |-> rid.slot] /\ rid.slot \in Nat \cup {-1}
    BY <1>3 DEF RID
  <2>. QED  BY <1>3, <2>1 DEF Spots
<1>4. ASSUME rid \in Spots(t) PROVE Known(rid)
  <2>1. CASE rid = NoRID
    BY <1>1, <2>1 DEF Known
  <2>2. CASE rid \in [page : DOMAIN t.view, slot : Nat \cup {-1}]
    BY <1>2, <2>2 DEF Known, RID
  <2>. QED  BY <1>4, <2>1, <2>2 DEF Spots
<1>. QED  BY <1>3, <1>4 DEF Known

(* A scan that is over meets nothing.                                      *)
LEMMA OverIsOver ==
  ASSUME NEW u, Sound(u), NEW from, from.page = -1
  PROVE  \A n \in DOMAIN Positions(u, from) : Positions(u, from)[n].page = -1
<1>1. ScanSteps(u) \in Nat
  BY StepsCounted
<1>2. \A a \in {from, NoRID} : ScanStep(u, a) \in {from, NoRID}
  BY DEF ScanStep, NoRID
<1>3. Positions(u, from) \in [0 .. ScanSteps(u) -> {from, NoRID}]
  BY <1>1, <1>2, PositionsForm
<1>4. NoRID.page = -1
  BY DEF NoRID
<1>. QED  BY <1>3, <1>4

LEMMA AheadMet ==
  ASSUME Sound(t), Known(stmt.pos),
         stmt.pos.page # -1 => t.stopping_rid.page = t.last_page_id,
         Ahead.rid # NoRID
  PROVE  LET at == Positions(t, stmt.pos)
         IN  /\ Scans(t, at, ScanSteps(t)) /\ at[0] = stmt.pos /\ stmt.pos.page # -1
             /\ t.stopping_rid.page = t.last_page_id
             /\ Ahead.pos \in Spots(t) /\ Ahead.rid \in RowsFrom(t, stmt.pos)
             /\ \E n \in 0 .. ScanSteps(t) :
                  /\ at[n].page # -1 /\ Ahead.rid = readAt(t, at[n])
                  /\ Ahead.pos = scanNext(t, at[n])
<1>. DEFINE at == Positions(t, stmt.pos)
            N == ScanSteps(t)
            hits == {n \in DOMAIN at : Stops(readAt(t, at[n]))}
            n == Min(hits)
<1>1. Ahead = IF hits = {} THEN [rid |-> NoRID, pos |-> NoRID]
              ELSE [rid |-> readAt(t, at[n]), pos |-> scanNext(t, at[n])]
  BY DEF Ahead
<1>2. hits # {} /\ Ahead.rid = readAt(t, at[n]) /\ Ahead.pos = scanNext(t, at[n])
  <2>. HIDE DEF hits, at, n
  <2>. QED  BY <1>1
<1>4. stmt.pos.page # -1
  <2>. SUFFICES ASSUME stmt.pos.page = -1 PROVE FALSE
    OBVIOUS
  <2>2. \A k \in DOMAIN at : readAt(t, at[k]) = NoRID
    BY OverIsOver DEF readAt
  <2>3. \A k \in DOMAIN at : ~Stops(readAt(t, at[k]))
    <3>. HIDE DEF at
    <3>. QED  BY <2>2 DEF Stops, Yields, NoRID
  <2>. QED  BY <1>2, <2>3
<1>3. stmt.pos \in Spots(t)
  BY <1>4, KnownSpots
<1>5. Scans(t, at, N) /\ at[0] = stmt.pos
  BY <1>3, <1>4, PositionsScan
<1>. HIDE DEF at, N
<1>6. /\ N \in Nat /\ DOMAIN at = 0 .. N
      /\ \A k \in 0 .. N : at[k] \in Spots(t)
  BY <1>5 DEF Scans
<1>7. n \in hits
  <2>1. hits \in SUBSET Nat
    BY <1>6
  <2>. HIDE DEF hits
  <2>2. \E k \in hits : \A m \in hits : k <= m
    BY <1>2, <2>1, LeastNumber
  <2>. QED  BY <2>2 DEF Min
<1>8. n \in 0 .. N /\ Yields(t, readAt(t, at[n]))
  BY <1>6, <1>7 DEF Stops
<1>. HIDE DEF n
<1>9. at[n].page # -1
  BY <1>8 DEF Yields, readAt, NoRID
<1>10. at[n] \in Spots(t)
  BY <1>6, <1>8
<1>11. scanNext(t, at[n]) \in Spots(t)
  BY <1>4, <1>9, <1>10, ScanStepForm
<1>12. readAt(t, at[n]) \in RowsFrom(t, stmt.pos)
  BY <1>5, <1>8, ScanReads DEF N
<1>. QED  BY <1>2, <1>4, <1>5, <1>8, <1>9, <1>11, <1>12 DEF at, N

(* What AheadMet says of types.                                            *)
LEMMA AheadTyped ==
  ASSUME Sound(t), StmtTyped, Scanning, Ahead.rid # NoRID
  PROVE  /\ Ahead.rid \in RID /\ Ahead.rid.page \in DOMAIN t.view /\ Present(t, Ahead.rid)
         /\ Ahead.rid \in Place /\ getTuple(t, Ahead.rid) \in Tuples
         /\ Ahead.pos \in Spots(t) /\ t.stopping_rid.page = t.last_page_id
         /\ stmt.pos \in Spots(t) /\ stmt.pos.page # -1
<1>. DEFINE rid == Ahead.rid
<1>1. Known(stmt.pos) /\ (stmt.pos.page # -1 => t.stopping_rid.page = t.last_page_id)
  BY DEF StmtTyped
<1>2. /\ Ahead.pos \in Spots(t) /\ rid \in RowsFrom(t, stmt.pos)
      /\ t.stopping_rid.page = t.last_page_id /\ stmt.pos.page # -1
  BY <1>1, AheadMet
<1>. HIDE DEF rid
<1>3. rid \in AllSlots(t) /\ Present(t, rid)
  BY <1>2 DEF RowsFrom
<1>4. /\ rid \in [page : DOMAIN t.view, slot : Nat] /\ rid.page \in DOMAIN t.view
      /\ rid.slot \in Nat /\ rid.slot < Len(t.view[rid.page].slots)
  BY <1>3, SlotSpots
<1>5. /\ \A p \in DOMAIN t.view : p \in PageId
      /\ t.view[rid.page] \in Page
  BY <1>4, SoundFields
<1>6. rid \in RID /\ rid \in Place
  BY <1>4, <1>5 DEF RID, Place
<1>7. getTuple(t, rid) \in Tuples
  <2>1. rid.slot + 1 \in DOMAIN t.view[rid.page].slots
    BY <1>4, <1>5, PageFields
  <2>. QED  BY <1>5, <2>1, PageFields DEF getTuple
<1>. QED  BY <1>1, <1>2, <1>3, <1>4, <1>6, <1>7, KnownSpots DEF rid

---------------------------------------------------------------------------
(* What the steps keep of Held.                                            *)
Statuses == {"running", "recovering", "closing", "down", "lost"}

LEMMA TableMoves ==
  ASSUME TableHeld, Alive, MethodOn(t, t'), status' \in {"running", "recovering", "closing"}
  PROVE  TableHeld' /\ DOMAIN t.view \subseteq DOMAIN t'.view
<1>1. Sound(t) /\ StopsAtEnd(t) /\ Saved(t)
  BY DEF TableHeld, Alive
<1>2. Sound(t') /\ StopsAtEnd(t') /\ InMemory(t, t')
  BY <1>1 DEF MethodOn
<1>3. Saved(t')
  BY <1>1, <1>2, SavedInMemory
<1>4. IsTable(t')
  BY <1>2, SoundIsTable
<1>. QED  BY <1>2, <1>3, <1>4 DEF TableHeld, InMemory

LEMMA TableStays ==
  ASSUME TableHeld, t' = t, status' = status \/ status' = "lost" \/ (Alive /\ Alive')
  PROVE  TableHeld'
BY DEF TableHeld, Alive

(* The write set of the transaction, over a table that has its pages.      *)
LEMMA NoWrites == ASSUME txn' = NoTxn PROVE TxnHeld'
<1>1. txn'.id = -1 /\ txn'.writes = << >> /\ << >> \in Seq(Range(<< >>)) /\ DOMAIN << >> = {}
  BY DEF NoTxn
<1>. QED  BY <1>1 DEF TxnHeld

LEMMA WritesStay ==
  ASSUME TxnHeld, txn' = txn, DOMAIN t.view \subseteq DOMAIN t'.view
  PROVE  TxnHeld'
BY DEF TxnHeld

LEMMA WriteAdded ==
  ASSUME TxnHeld, DOMAIN t.view \subseteq DOMAIN t'.view, DOMAIN txn = {"id", "writes"},
         NEW type \in {"INSERT", "UPDATE", "DELETE"}, NEW rid \in RID,
         rid.page \in DOMAIN t'.view, NEW old \in Tuples,
         txn' = [txn EXCEPT !.writes = Append(@, [type |-> type, rid |-> rid, old |-> old])]
  PROVE  TxnHeld'
<1>. DEFINE w == [type |-> type, rid |-> rid, old |-> old]
            s == txn.writes
            S == Range(s) \cup {w}
            Good(x) == /\ x.rid \in RID /\ x.rid.page \in DOMAIN t'.view /\ x.old \in Tuples
                       /\ x.type \in {"INSERT", "UPDATE", "DELETE"}
<1>1. txn'.writes = Append(s, w) /\ txn'.id = txn.id
  OBVIOUS
<1>2. Good(w)
  OBVIOUS
<1>. HIDE DEF w
<1>3. s \in Seq(Range(s)) /\ \A n \in DOMAIN s : Good(s[n])
  BY DEF TxnHeld
<1>. HIDE DEF Good, s
<1>4. s \in Seq(S) /\ w \in S
  BY <1>3
<1>. HIDE DEF S
<1>5. /\ Append(s, w) \in Seq(S) /\ Range(Append(s, w)) = Range(s) \cup {w}
  BY <1>4, AppendToList
<1>6. Append(s, w) \in Seq(Range(Append(s, w)))
  BY <1>5 DEF S
<1>7. \A n \in DOMAIN Append(s, w) : Good(Append(s, w)[n])
  <2>1. Len(s) \in Nat /\ DOMAIN s = 1 .. Len(s) /\ DOMAIN Append(s, w) = 1 .. Len(s) + 1
        /\ Append(s, w)[Len(s) + 1] = w /\ \A n \in 1 .. Len(s) : Append(s, w)[n] = s[n]
    BY <1>4, <1>5, AppendProperties
  <2>2. \A n \in DOMAIN Append(s, w) : n \in DOMAIN s \/ n = Len(s) + 1
    BY <2>1
  <2>. QED  BY <1>2, <1>3, <2>1, <2>2
<1>. QED  BY <1>1, <1>6, <1>7 DEF TxnHeld, Good

(* The log.                                                                *)
LEMMA LogAdded ==
  ASSUME LogTyped, log \in Seq(Range(log)), status = "running", redo' = redo,
         NEW r, add_record(r), r.type \in {"BEGIN", "INSERT", "UPDATE", "COMMIT", "ABORT"},
         r.rid \in RID, r.old \in Tuples, r.new \in Tuples
  PROVE  LogTyped'
<1>1. redo' = 1
  BY DEF LogTyped
<1>2. CASE log' = log
  BY <1>1, <1>2 DEF LogTyped
<1>3. CASE log' = Append(log, r)
  <2>1. /\ Len(log) \in Nat /\ DOMAIN log = 1 .. Len(log) /\ DOMAIN log' = 1 .. Len(log) + 1
        /\ Len(log') = Len(log) + 1 /\ log'[Len(log) + 1] = r
        /\ \A i \in DOMAIN log : log'[i] = log[i]
    BY <1>3, Appended
  <2>2. \A i \in DOMAIN log' : i \in DOMAIN log \/ i = Len(log) + 1
    BY <2>1
  <2>3. redo' \in 1 .. Len(log') + 1
    BY <1>1, <2>1
  <2>. QED  BY <1>1, <2>1, <2>2, <2>3 DEF LogTyped
<1>. QED  BY <1>2, <1>3 DEF add_record

LEMMA BracketAdded ==
  ASSUME LogTyped, log \in Seq(Range(log)), status = "running", redo' = redo,
         NEW type \in {"BEGIN", "COMMIT", "ABORT"}, NEW id, add_record(Bracket(type, id))
  PROVE  LogTyped'
<1>. DEFINE r == Bracket(type, id)
<1>1. /\ r.type = type /\ r.rid = NoRID /\ r.old = Empty /\ r.new = Empty
  BY DEF Bracket, Record
<1>2. NoRID \in RID /\ Empty \in Tuples
  BY TuplesAssumption DEF NoRID, RID
<1>3. add_record(r)
  OBVIOUS
<1>. HIDE DEF r
<1>. QED  BY <1>1, <1>2, <1>3, LogAdded

LEMMA LogStays ==
  ASSUME LogTyped, log' = log, redo' = redo,
         status' = status \/ status' = "lost" \/ status = "running"
  PROVE  LogTyped'
BY DEF LogTyped

LEMMA LogFromStart ==
  ASSUME LogTyped, log \in Seq(Range(log)), log' = log \/ log' = << >>, redo' = 1
  PROVE  LogTyped'
<1>1. Len(log) \in Nat
  OBVIOUS
<1>2. Len(log') \in Nat /\ 1 \in 1 .. Len(log') + 1
  BY <1>1
<1>3. \A i \in DOMAIN log' : log' = log
  OBVIOUS
<1>. QED  BY <1>2, <1>3 DEF LogTyped

(* No statement.                                                           *)
LEMMA NoStatement ==
  ASSUME stmt' = NoStmt \/ stmt' = [op |-> "done"] \/ stmt' = [op |-> "rollback"]
  PROVE  StmtTyped'
<1>1. stmt'.op \in {"none", "done", "rollback"} /\ (stmt'.op = "none" => stmt' = NoStmt)
  BY DEF NoStmt
<1>. QED  BY <1>1 DEF StmtTyped, Scanning

LEMMA StatementStays ==
  ASSUME StmtTyped, stmt' = stmt, DOMAIN t.view \subseteq DOMAIN t'.view,
         t.stopping_rid.page = t.last_page_id => t'.stopping_rid.page = t'.last_page_id
  PROVE  StmtTyped'
BY DEF StmtTyped, Scanning, Known

(* The process dies.                                                       *)
LEMMA DieHeld ==
  ASSUME Held, log \in Seq(Range(log)), Alive, Die, log' = log
  PROVE  Held'
<1>1. t' = Crashed(t) /\ status' = "down" /\ txn' = NoTxn /\ stmt' = NoStmt /\ redo' = 1
  BY DEF Die, NoTxnLeft
<1>2. TableHeld'
  <2>1. Sound(t) /\ Saved(t)
    BY DEF Held, TableHeld, Alive
  <2>2. IsTable(t') /\ AtRest(t') /\ Saved(t')
    BY <1>1, <2>1, CrashedTable
  <2>. QED  BY <1>1, <2>2 DEF TableHeld, Alive
<1>3. LogTyped'
  BY <1>1, LogFromStart DEF Held
<1>. QED  BY <1>1, <1>2, <1>3, NoWrites, NoStatement DEF Held

LEMMA HeldParts ==
  ASSUME IInv, Held
  PROVE  /\ log \in Seq(Range(log)) /\ DOMAIN txn = {"id", "writes"}
         /\ TableHeld /\ StmtTyped /\ TxnHeld /\ LogTyped
         /\ Alive => /\ Sound(t) /\ DOMAIN t.view \subseteq PageId
         /\ stmt # NoStmt => status = "running" /\ txn # NoTxn
BY SoundFields DEF IInv, TxnTyped, StatementOpen, Held, TableHeld

(* The steps that leave the table alone.                                   *)
LEMMA InPlace ==
  ASSUME Held, t' = t, status' \in Statuses,
         status' = status \/ status' = "lost" \/ (Alive /\ Alive'),
         txn' = txn \/ txn' = NoTxn,
         (stmt' = stmt /\ status' = status) \/ stmt' = [op |-> "done"]
           \/ stmt' = [op |-> "rollback"] \/ stmt' = NoStmt,
         LogTyped'
  PROVE  Held'
<1>1. TableHeld'
  BY TableStays DEF Held
<1>2. TxnHeld'
  BY NoWrites, WritesStay DEF Held
<1>3. StmtTyped'
  BY NoStatement, StatementStays DEF Held
<1>. QED  BY <1>1, <1>2, <1>3 DEF Held, Statuses

LEMMA BeginHeld ==
  ASSUME IInv, Held, Begin
  PROVE  Held'
<1>1. /\ status = "running" /\ stmt' = stmt /\ status' = status /\ t' = t /\ redo' = redo
      /\ txn' = [id |-> next_txn_id, writes |-> << >>]
      /\ add_record(Bracket("BEGIN", next_txn_id))
  BY DEF Begin, Prompt, BeginTxn
<1>2. LogTyped'
  BY <1>1, HeldParts, BracketAdded
<1>3. TxnHeld'
  <2>1. txn'.writes = << >> /\ txn'.id \in Nat /\ << >> \in Seq(Range(<< >>))
    BY <1>1 DEF IInv, TxnTyped
  <2>. QED  BY <2>1 DEF TxnHeld
<1>4. TableHeld' /\ StmtTyped'
  BY <1>1, HeldParts, TableStays, StatementStays
<1>. QED  BY <1>1, <1>2, <1>3, <1>4 DEF Held

LEMMA EndsHeld ==
  ASSUME IInv, Held, Commit \/ FinishRollback \/ Finish
  PROVE  Held'
<1>1. /\ status = "running" /\ status' = status /\ t' = t /\ redo' = redo
      /\ txn' = NoTxn /\ (stmt' = NoStmt \/ stmt' = stmt)
  <2>1. CASE Commit
    BY <2>1 DEF Commit, Prompt, NoTxnLeft
  <2>2. CASE FinishRollback
    <3>1. stmt # NoStmt
      BY <2>2, NothingIsOpen DEF FinishRollback, Undoing
    <3>. QED  BY <2>2, <3>1, HeldParts DEF FinishRollback, NoTxnLeft
  <2>3. CASE Finish
    BY <2>3 DEF Finish, NoTxnLeft
  <2>. QED  BY <2>1, <2>2, <2>3
<1>2. \E type \in {"COMMIT", "ABORT"} : \E id : add_record(Bracket(type, id))
  BY DEF Commit, FinishRollback, Finish
<1>3. LogTyped'
  BY <1>1, <1>2, HeldParts, BracketAdded
<1>. QED  BY <1>1, <1>3, InPlace DEF Statuses

LEMMA StartStatementHeld ==
  ASSUME IInv, Held, NEW s \in Statements, StartStatement(WithScan(s))
  PROVE  Held'
<1>. DEFINE x == WithScan(s)
<1>1. /\ status = "running" /\ stmt = NoStmt /\ status' = status /\ t' = t /\ redo' = redo
      /\ stmt' = x \/ stmt' = NoStmt
  BY DEF StartStatement, Prompt
<1>2. LogTyped' /\ TxnHeld'
  <2>1. CASE txn = NoTxn /\ BeginTxn
    <3>1. /\ txn' = [id |-> next_txn_id, writes |-> << >>]
          /\ add_record(Bracket("BEGIN", next_txn_id))
      BY <2>1 DEF BeginTxn
    <3>2. txn'.writes = << >> /\ txn'.id \in Nat /\ << >> \in Seq(Range(<< >>))
      BY <3>1 DEF IInv, TxnTyped
    <3>. QED  BY <1>1, <3>1, <3>2, HeldParts, BracketAdded DEF TxnHeld
  <2>2. CASE UNCHANGED <<txn, log>>
    BY <1>1, <2>2, HeldParts, LogStays, WritesStay
  <2>. QED  BY <2>1, <2>2 DEF StartStatement, TxnOpened
<1>3. TableHeld'
  BY <1>1, HeldParts, TableStays
<1>4. Sound(t) /\ StopsAtEnd(t)
  BY <1>1 DEF Held, TableHeld, Alive
<1>5. ASSUME stmt' = x PROVE StmtTyped'
  <2>1. \/ s \in [op : {"INSERT"}, new : Tuples \ {Empty}]
        \/ s \in [op : {"UPDATE"}, where : SUBSET Values, new : Values]
        \/ s \in [op : {"DELETE"}, where : SUBSET Values]
    BY StatementsAssumption
  <2>2. CASE s.op = "INSERT"
    <3>1. x.op = "INSERT" /\ x.new \in Tuples
      BY <2>1, <2>2 DEF WithScan
    <3>. QED  BY <1>5, <3>1 DEF StmtTyped, Scanning
  <2>3. CASE s.op \in {"UPDATE", "DELETE"}
    <3>1. /\ x.op = s.op /\ x.pos = t.starting_rid /\ "pos" \in DOMAIN x
          /\ s.op = "UPDATE" => x.new = s.new /\ s.new \in Tuples
      <4>1. x = Put(s, "pos", t.starting_rid)
        BY <2>3 DEF WithScan
      <4>2. "op" \in DOMAIN s /\ (s.op = "UPDATE" => "new" \in DOMAIN s /\ s.new \in Tuples)
        BY <2>1, <2>3 DEF Values
      <4>. HIDE DEF x
      <4>. QED  BY <4>1, <4>2 DEF Put
    <3>2. Known(t.starting_rid) /\ (t.starting_rid.page # -1 =>
                                      t.stopping_rid.page = t.last_page_id)
      <4>1. t.starting_rid \in RID
        BY <1>4, SoundFields
      <4>. QED  BY <1>4, <4>1 DEF StopsAtEnd, Known
    <3>. HIDE DEF x
    <3>3. Known(t.starting_rid)'
      BY <1>1, <3>2 DEF Known
    <3>. QED  BY <1>1, <1>5, <2>3, <3>1, <3>2, <3>3 DEF StmtTyped, Scanning, Known
  <2>. QED  BY <2>1, <2>2, <2>3
<1>6. StmtTyped'
  BY <1>1, <1>5, NoStatement
<1>. QED  BY <1>1, <1>2, <1>3, <1>6 DEF Held

(* A row changed.                                                          *)
LEMMA ChangeHeld ==
  ASSUME IInv, Held, status = "running", NEW v, MethodOn(t, v),
         NEW type \in {"INSERT", "UPDATE", "DELETE"}, NEW logged \in {"INSERT", "UPDATE"},
         NEW rid \in RID, rid.page \in DOMAIN v.view, NEW old \in Tuples, NEW new \in Tuples,
         ChangeRow(v, type, logged, rid, old, new), StmtTyped'
  PROVE  Held'
<1>. DEFINE r == Record(logged, txn.id, rid, old, new)
<1>1. /\ t' = v /\ status' = status /\ redo' = redo /\ add_record(r)
      /\ txn' = [txn EXCEPT !.writes = Append(@, [type |-> type, rid |-> rid, old |-> old])]
  BY DEF ChangeRow
<1>2. r.type = logged /\ r.rid = rid /\ r.old = old /\ r.new = new
  BY DEF Record
<1>. HIDE DEF r
<1>3. LogTyped'
  <2>1. r.type \in {"BEGIN", "INSERT", "UPDATE", "COMMIT", "ABORT"}
    BY <1>2
  <2>. QED  BY <1>1, <1>2, <2>1, HeldParts, LogAdded
<1>4. TableHeld' /\ DOMAIN t.view \subseteq DOMAIN t'.view
  BY <1>1, HeldParts, TableMoves DEF Alive
<1>5. TxnHeld'
  <2>1. rid.page \in DOMAIN t'.view
    BY <1>1
  <2>. QED  BY <1>1, <1>4, <2>1, HeldParts, WriteAdded
<1>. QED  BY <1>1, <1>3, <1>4, <1>5 DEF Held

(* The statement after it.                                                 *)
LEMMA ScanGoesOn ==
  ASSUME StmtTyped, Scanning, NEW pos, StatementGoesOn([stmt EXCEPT !.pos = pos]),
         pos \in Spots(t), Sound(t), MethodOn(t, t'), t.stopping_rid.page = t.last_page_id
  PROVE  StmtTyped'
<1>. DEFINE next == [stmt EXCEPT !.pos = pos]
<1>1. stmt' = NoStmt \/ stmt' = next
  BY DEF StatementGoesOn
<1>2. /\ DOMAIN next = DOMAIN stmt /\ next.op = stmt.op /\ next.new = stmt.new
      /\ next.pos = pos /\ "pos" \in DOMAIN next
  BY DEF StmtTyped
<1>. HIDE DEF next
<1>3. pos \in RID /\ pos.page \in DOMAIN t'.view \cup {-1}
  <2>1. Known(pos)
    BY KnownSpots
  <2>. QED  BY <2>1 DEF Known, MethodOn, InMemory
<1>4. CASE stmt' = next
  <2>1. t'.stopping_rid.page = t'.last_page_id
    BY DEF MethodOn
  <2>2. stmt'.op \in {"UPDATE", "DELETE"} /\ (stmt'.op = "UPDATE" => stmt'.new \in Tuples)
    BY <1>2, <1>4 DEF StmtTyped, Scanning
  <2>3. "pos" \in DOMAIN stmt' /\ stmt'.pos = pos
    BY <1>2, <1>4
  <2>. QED  BY <1>3, <2>1, <2>2, <2>3 DEF StmtTyped, Scanning, Known
<1>. QED  BY <1>1, <1>4, NoStatement

LEMMA InsertRowHeld ==
  ASSUME IInv, Held, InsertRow
  PROVE  Held'
<1>. DEFINE v == insertTuple(t, stmt.new)
            rid == insertedRID(t, stmt.new)
<1>1. /\ stmt.op = "INSERT" /\ Room(t, stmt.new) /\ stmt.new \in Tuples /\ stmt # NoStmt
      /\ ChangeRow(v, "INSERT", "INSERT", rid, Empty, stmt.new)
      /\ stmt' = NoStmt \/ stmt' = [op |-> "done"]
  BY HeldParts, NothingIsOpen DEF InsertRow, RoomFor, Room, StatementGoesOn, StmtTyped
<1>2. status = "running" /\ Sound(t)
  BY <1>1, HeldParts DEF Alive
<1>3. /\ MethodOn(t, v) /\ rid \in RID /\ rid.page \in DOMAIN v.view
  BY <1>1, <1>2, InsertMethod DEF MethodOn
<1>4. StmtTyped' /\ Empty \in Tuples
  BY <1>1, NoStatement, TuplesAssumption
<1>. HIDE DEF v, rid
<1>. QED  BY <1>1, <1>2, <1>3, <1>4, ChangeHeld

LEMMA UpdateRowHeld ==
  ASSUME IInv, Held, UpdateRow
  PROVE  Held'
<1>. DEFINE rid == Ahead.rid
            met == getTuple(t, rid)
            v   == updateTuple(t, rid, stmt.new)
<1>1. /\ Scanning /\ stmt.new \in Tuples /\ stmt # NoStmt /\ rid # NoRID
      /\ Grows(t, rid, stmt.new) => Room(t, stmt.new)
      /\ ChangeRow(v, "UPDATE", "UPDATE", rid, met, stmt.new)
      /\ StatementGoesOn([stmt EXCEPT !.pos = Ahead.pos])
  BY HeldParts, NothingIsOpen DEF UpdateRow, Scanning, RoomFor, Room, StmtTyped
<1>2. status = "running" /\ Sound(t) /\ StmtTyped
  BY <1>1, HeldParts DEF Alive
<1>3. /\ rid \in RID /\ rid.page \in DOMAIN t.view /\ Present(t, rid) /\ met \in Tuples
      /\ Ahead.pos \in Spots(t) /\ t.stopping_rid.page = t.last_page_id
  BY <1>1, <1>2, AheadTyped
<1>4. MethodOn(t, v)
  <2>. HIDE DEF rid
  <2>. QED  BY <1>1, <1>2, <1>3, UpdateMethod
<1>. HIDE DEF v, rid, met
<1>5. rid.page \in DOMAIN v.view /\ t' = v
  BY <1>1, <1>3, <1>4 DEF MethodOn, InMemory, ChangeRow
<1>6. StmtTyped'
  BY <1>1, <1>2, <1>3, <1>4, <1>5, ScanGoesOn
<1>. QED  BY <1>1, <1>2, <1>3, <1>4, <1>5, <1>6, ChangeHeld

LEMMA DeleteRowHeld ==
  ASSUME IInv, Held, DeleteRow
  PROVE  Held'
<1>. DEFINE rid == Ahead.rid
            met == getTuple(t, rid)
            v   == deleteTuple(t, rid)
<1>1. /\ Scanning /\ stmt # NoStmt /\ rid # NoRID
      /\ ChangeRow(v, "DELETE", "UPDATE", rid, met, Empty)
      /\ StatementGoesOn([stmt EXCEPT !.pos = Ahead.pos])
  BY NothingIsOpen DEF DeleteRow, Scanning
<1>2. status = "running" /\ Sound(t) /\ StmtTyped
  BY <1>1, HeldParts DEF Alive
<1>3. /\ rid \in RID /\ rid.page \in DOMAIN t.view /\ Present(t, rid) /\ met \in Tuples
      /\ Ahead.pos \in Spots(t) /\ t.stopping_rid.page = t.last_page_id
  BY <1>1, <1>2, AheadTyped
<1>4. MethodOn(t, v)
  <2>. HIDE DEF rid
  <2>. QED  BY <1>2, <1>3, DeleteMethod
<1>. HIDE DEF v, rid, met
<1>5. rid.page \in DOMAIN v.view /\ t' = v /\ Empty \in Tuples
  BY <1>1, <1>3, <1>4, TuplesAssumption DEF MethodOn, InMemory, ChangeRow
<1>6. StmtTyped'
  BY <1>1, <1>2, <1>3, <1>4, <1>5, ScanGoesOn
<1>. QED  BY <1>1, <1>2, <1>3, <1>4, <1>5, <1>6, ChangeHeld

LEMMA PredicateFailsHeld ==
  ASSUME IInv, Held, PredicateFails
  PROVE  Held'
<1>1. stmt # NoStmt /\ log' = log
  BY NothingIsOpen DEF PredicateFails, Scanning
<1>2. status = "running" /\ log \in Seq(Range(log))
  BY <1>1, HeldParts
<1>3. CASE Die
  BY <1>1, <1>2, <1>3, DieHeld DEF Alive
<1>4. CASE stmt' = NoStmt /\ status' = "lost" /\ UNCHANGED <<t, txn, redo>>
  <2>1. LogTyped'
    BY <1>1, <1>4, HeldParts, LogStays
  <2>. QED  BY <1>4, <2>1, InPlace DEF Statuses
<1>. QED  BY <1>3, <1>4 DEF PredicateFails

LEMMA UndoWriteHeld ==
  ASSUME IInv, Held, UndoWrite
  PROVE  Held'
<1>. DEFINE s == txn.writes
            w == Last(s)
<1>1. /\ stmt.op = "rollback" /\ s # << >> /\ stmt # NoStmt
      /\ w.type = "UPDATE" => Present(t, w.rid)
      /\ w.type = "DELETE" \/ (w.type = "UPDATE" /\ Grows(t, w.rid, w.old)) => Room(t, w.old)
      /\ t' = undo(t, w) /\ txn' = [txn EXCEPT !.writes = Front(s)]
      /\ stmt' = stmt /\ log' = log /\ redo' = redo /\ status' = status
  BY NothingIsOpen DEF UndoWrite, Undoing, RoomFor, Room
<1>2. /\ status = "running" /\ Sound(t) /\ DOMAIN txn = {"id", "writes"}
      /\ TableHeld /\ TxnHeld /\ LogTyped
  BY <1>1, HeldParts DEF Alive
<1>3. /\ s \in Seq(Range(s))
      /\ \A n \in DOMAIN s : /\ s[n].rid \in RID /\ s[n].rid.page \in DOMAIN t.view
                             /\ s[n].old \in Tuples /\ s[n].type \in {"INSERT", "UPDATE", "DELETE"}
  BY <1>2 DEF TxnHeld
<1>. HIDE DEF s
<1>4. /\ Front(s) \in Seq(Range(s)) /\ Len(Front(s)) = Len(s) - 1 /\ Len(s) \in Nat
      /\ \A j \in 1 .. Len(s) - 1 : Front(s)[j] = s[j]
      /\ w \in Range(s)
  <2>. DEFINE S == Range(s)
  <2>1. s \in Seq(S) /\ s # << >> /\ Len(s) \in Nat
    BY <1>1, <1>3
  <2>. HIDE DEF S
  <2>2. /\ Front(s) \in Seq(S) /\ Len(Front(s)) = Len(s) - 1 /\ Last(s) \in Range(s)
        /\ \A j \in 1 .. Len(s) - 1 : Front(s)[j] = s[j]
    BY <2>1, FrontElements
  <2>. QED  BY <2>1, <2>2 DEF S
<1>5. /\ w.rid \in RID /\ w.rid.page \in DOMAIN t.view /\ w.old \in Tuples
      /\ w.type \in {"INSERT", "UPDATE", "DELETE"}
  <2>. HIDE DEF w
  <2>. QED  BY <1>3, <1>4 DEF Range
<1>. HIDE DEF w
<1>6. MethodOn(t, t')
  <2>1. CASE w.type = "UPDATE"
    BY <1>1, <1>2, <1>5, <2>1, UpdateMethod DEF undo
  <2>2. CASE w.type = "INSERT"
    BY <1>1, <1>2, <1>5, <2>2, DeleteMethod DEF undo
  <2>3. CASE w.type = "DELETE"
    <3>1. t' = insertTuple(t, w.old) /\ Room(t, w.old)
      BY <1>1, <2>3 DEF undo
    <3>. QED  BY <1>2, <1>5, <3>1, InsertMethod DEF MethodOn
  <2>. QED  BY <1>5, <2>1, <2>2, <2>3
<1>7. TableHeld' /\ DOMAIN t.view \subseteq DOMAIN t'.view
  BY <1>1, <1>2, <1>6, TableMoves DEF Alive
<1>8. TxnHeld'
  <2>1. txn'.writes = Front(s) /\ txn'.id = txn.id
    BY <1>1, <1>2
  <2>2. Front(s) \in Seq(Range(Front(s)))
    BY <1>4 DEF Range
  <2>3. \A n \in DOMAIN Front(s) : n \in DOMAIN s /\ Front(s)[n] = s[n]
    BY <1>3, <1>4
  <2>. QED  BY <1>2, <1>3, <1>7, <2>1, <2>2, <2>3 DEF TxnHeld
<1>9. StmtTyped'
  BY <1>1 DEF StmtTyped, Scanning
<1>10. LogTyped'
  BY <1>1, <1>2, LogStays
<1>. QED  BY <1>1, <1>2, <1>7, <1>8, <1>9, <1>10 DEF Held

LEMMA EvictHeld ==
  ASSUME IInv, Held, NEW p, Evict(p)
  PROVE  Held'
<1>1. /\ Alive /\ t' = Evicted(t, {p}) /\ log' = log /\ txn' = txn /\ stmt' = stmt
      /\ redo' = redo /\ status' = status
  BY DEF Evict, memory, Alive
<1>2. Sound(t) /\ StopsAtEnd(t) /\ Saved(t) /\ TxnHeld /\ StmtTyped /\ LogTyped
  BY <1>1 DEF Held, TableHeld, Alive
<1>3. /\ Sound(t') /\ DOMAIN t'.view = DOMAIN t.view /\ t'.last_page_id = t.last_page_id
      /\ t'.starting_rid = t.starting_rid /\ t'.stopping_rid = t.stopping_rid
  BY <1>1, <1>2, EvictedTable
<1>4. Saved(t')
  BY <1>1, <1>2, SavedEvicted
<1>5. IsTable(t') /\ StopsAtEnd(t')
  BY <1>2, <1>3, SoundIsTable DEF StopsAtEnd
<1>6. TableHeld'
  BY <1>1, <1>3, <1>4, <1>5 DEF TableHeld, Alive
<1>. QED  BY <1>1, <1>2, <1>3, <1>6, WritesStay, StatementStays, LogStays DEF Held

LEMMA ExitHeld ==
  ASSUME IInv, Held, Exit
  PROVE  Held'
<1>1. /\ status = "running" /\ status' = "closing" /\ t' = t /\ txn' = txn
      /\ stmt' = NoStmt /\ redo' = redo /\ (log' = log \/ log' = << >>)
  BY DEF Exit, Prompt, memory
<1>2. redo' = 1
  BY <1>1, HeldParts DEF LogTyped
<1>3. LogTyped'
  BY <1>1, <1>2, HeldParts, LogFromStart
<1>. QED  BY <1>1, <1>3, InPlace DEF Alive, Statuses

LEMMA CloseHeld ==
  ASSUME IInv, Held, Close
  PROVE  Held'
<1>1. /\ status = "closing" /\ status' = "down" /\ t' = Closed(t) /\ txn' = NoTxn
      /\ stmt' = stmt /\ redo' = redo /\ log' = log
  BY DEF Close, NoTxnLeft
<1>2. stmt = NoStmt
  BY <1>1, HeldParts
<1>3. redo = 1 /\ Sound(t) /\ StopsAtEnd(t)
  BY <1>1 DEF Held, LogTyped, TableHeld, Alive
<1>4. IsTable(t') /\ AtRest(t') /\ Saved(t')
  BY <1>1, <1>3, ClosedAtRest
<1>5. TableHeld'
  BY <1>1, <1>4 DEF TableHeld, Alive
<1>6. LogTyped'
  BY <1>1, <1>3, HeldParts, LogFromStart
<1>. QED  BY <1>1, <1>2, <1>5, <1>6, NoWrites, NoStatement DEF Held

LEMMA StartHeld ==
  ASSUME IInv, Held, Start
  PROVE  Held'
<1>1. /\ status = "down" /\ log' = log /\ txn' = txn /\ stmt' = stmt /\ redo' = 1
      /\ \/ Readable /\ status' = "recovering" /\ t' = loadMetaData(t)
         \/ status' = "lost" /\ t' = t
  BY DEF Start
<1>2. stmt = NoStmt /\ txn = NoTxn
  BY <1>1 DEF IInv, StatementOpen
<1>3. IsTable(t) /\ AtRest(t) /\ Saved(t)
  BY <1>1 DEF Held, TableHeld
<1>4. TableHeld'
  <2>1. CASE Readable /\ status' = "recovering" /\ t' = loadMetaData(t)
    <3>1. Sound(t') /\ StopsAtEnd(t') /\ Saved(t') /\ IsTable(t')
      BY <1>3, <2>1, LoadedSound DEF Readable
    <3>. QED  BY <2>1, <3>1 DEF TableHeld
  <2>2. CASE status' = "lost" /\ t' = t
    BY <1>3, <2>2 DEF TableHeld, Alive
  <2>. QED  BY <1>1, <2>1, <2>2
<1>5. LogTyped'
  BY <1>1, HeldParts, LogFromStart
<1>. QED  BY <1>1, <1>2, <1>4, <1>5, NoWrites, NoStatement DEF Held

(* The next record of the log.                                             *)
LEMMA NextRecord ==
  ASSUME IInv, Held, Recovering
  PROVE  LET r == log[Min(Pending)]
         IN  /\ Min(Pending) \in redo .. Len(log) /\ Min(Pending) \in DOMAIN log
             /\ r.type \in {"INSERT", "UPDATE"}
             /\ r.rid \in RID /\ r.old \in Tuples /\ r.new \in Tuples
             /\ Min(Pending) + 1 \in 1 .. Len(log) + 1
<1>. DEFINE k == Min(Pending)
<1>1. log \in Seq(Range(log)) /\ LogTyped /\ Len(log) \in Nat /\ redo \in 1 .. Len(log) + 1
  BY HeldParts DEF LogTyped
<1>2. Pending # {} /\ Pending \in SUBSET Nat
  BY <1>1 DEF Recovering, Pending
<1>3. k \in Pending
  <2>1. \E i \in Pending : \A j \in Pending : i <= j
    BY <1>2, LeastNumber
  <2>. QED  BY <2>1 DEF Min
<1>. HIDE DEF k
<1>4. k \in redo .. Len(log) /\ log[k].type \in {"INSERT", "UPDATE"}
  BY <1>3 DEF Pending
<1>5. k \in DOMAIN log /\ k + 1 \in 1 .. Len(log) + 1
  BY <1>1, <1>4
<1>. QED  BY <1>1, <1>4, <1>5 DEF k, LogTyped

LEMMA ReplayHeld ==
  ASSUME IInv, Held, Replay
  PROVE  Held'
<1>. DEFINE r == log[Min(Pending)]
<1>1. /\ Recovering /\ r.table = "own" /\ PageKnown(r) /\ TupleFound(r)
      /\ IF r.type = "INSERT" THEN ReplayInsert(r) ELSE ReplayUpdate(r)
      /\ redo' = Min(Pending) + 1 /\ log' = log /\ txn' = txn /\ stmt' = stmt
      /\ status' = status
  BY DEF Replay
<1>2. /\ r.type \in {"INSERT", "UPDATE"} /\ Min(Pending) + 1 \in 1 .. Len(log) + 1
      /\ r.rid \in RID /\ r.old \in Tuples /\ r.new \in Tuples
  BY <1>1, NextRecord
<1>3. status = "recovering" /\ Sound(t) /\ TableHeld /\ TxnHeld /\ StmtTyped /\ LogTyped
  BY <1>1, HeldParts DEF Recovering, Alive
<1>. HIDE DEF r
<1>4. recoveredTuple(r) \in Tuples
  BY <1>2 DEF recoveredTuple
<1>5. MethodOn(t, t')
  <2>1. CASE r.type = "INSERT" /\ Committed(r)
    <3>1. Room(t, r.new) /\ t' = insertTuple(t, r.new)
      BY <1>1, <2>1 DEF ReplayInsert, RoomFor, Room
    <3>. QED  BY <1>2, <1>3, <3>1, InsertMethod DEF MethodOn
  <2>2. CASE r.type = "INSERT" /\ ~Committed(r)
    <3>1. t' = deleteTuple(t, r.rid) /\ r.rid.page \in DOMAIN t.view
      BY <1>1, <2>2 DEF ReplayInsert, PageKnown, UsesRid
    <3>. QED  BY <1>2, <1>3, <3>1, DeleteMethod
  <2>3. CASE r.type = "UPDATE"
    <3>1. /\ t' = updateTuple(t, r.rid, recoveredTuple(r))
          /\ Grows(t, r.rid, recoveredTuple(r)) => Room(t, recoveredTuple(r))
          /\ r.rid.page \in DOMAIN t.view /\ Present(t, r.rid)
      BY <1>1, <2>3 DEF ReplayUpdate, PageKnown, UsesRid, TupleFound, RoomFor, Room
    <3>. QED  BY <1>2, <1>3, <1>4, <3>1, UpdateMethod
  <2>. QED  BY <1>2, <2>1, <2>2, <2>3
<1>6. TableHeld' /\ DOMAIN t.view \subseteq DOMAIN t'.view
  BY <1>1, <1>3, <1>5, TableMoves DEF Alive
<1>7. TxnHeld' /\ StmtTyped'
  BY <1>1, <1>3, <1>5, <1>6, WritesStay, StatementStays DEF MethodOn
<1>8. LogTyped'
  BY <1>1, <1>2, <1>3 DEF LogTyped
<1>. QED  BY <1>1, <1>3, <1>6, <1>7, <1>8 DEF Held

LEMMA ReplayFailsHeld ==
  ASSUME IInv, Held, ReplayFails
  PROVE  Held'
<1>1. status = "recovering" /\ log' = log /\ log \in Seq(Range(log))
  BY HeldParts DEF ReplayFails, Recovering
<1>2. CASE Die
  BY <1>1, <1>2, DieHeld DEF Alive
<1>3. CASE status' = "lost" /\ UNCHANGED <<t, txn, stmt, redo>>
  <2>1. stmt' = NoStmt
    BY <1>1, <1>3, HeldParts
  <2>2. LogTyped'
    BY <1>1, <1>3, HeldParts, LogStays
  <2>. QED  BY <1>3, <2>1, <2>2, InPlace DEF Statuses
<1>. QED  BY <1>2, <1>3 DEF ReplayFails

LEMMA FinishRecoveryHeld ==
  ASSUME IInv, Held, FinishRecovery
  PROVE  Held'
<1>1. /\ status = "recovering" /\ status' = "running" /\ t' = t /\ txn' = txn
      /\ stmt' = stmt /\ redo' = 1 /\ log' = << >>
  BY DEF FinishRecovery
<1>2. stmt' = NoStmt
  BY <1>1, HeldParts
<1>3. LogTyped'
  BY <1>1, HeldParts, LogFromStart
<1>. QED  BY <1>1, <1>2, <1>3, InPlace DEF Alive, Statuses

LEMMA InitHeld == Init => Held
<1>. SUFFICES ASSUME Init PROVE Held
  OBVIOUS
<1>1. t = NewTable /\ log = << >> /\ txn = NoTxn /\ stmt = NoStmt /\ status = "running"
      /\ redo = 1
  BY DEF Init
<1>2. Sound(t) /\ t.starting_rid = NoRID /\ t.known = {}
  <2>1. Sound(NewTable)
    BY NewTableSound
  <2>2. NewTable.starting_rid = NoRID /\ NewTable.known = {}
    BY DEF NewTable, Marked, Written, newPage, Extended
  <2>. QED  BY <1>1, <2>1, <2>2
<1>3. TableHeld
  <2>1. StopsAtEnd(t)
    BY <1>2 DEF StopsAtEnd, NoRID
  <2>2. Saved(t)
    BY <1>2 DEF Saved
  <2>. QED  BY <1>1, <1>2, <2>1, <2>2, SoundIsTable DEF TableHeld
<1>4. StmtTyped
  BY <1>1 DEF StmtTyped, Scanning, NoStmt
<1>5. TxnHeld
  <2>1. txn.id = -1 /\ txn.writes = << >> /\ << >> \in Seq(Range(<< >>)) /\ DOMAIN << >> = {}
    BY <1>1 DEF NoTxn
  <2>. QED  BY <2>1 DEF TxnHeld
<1>6. LogTyped
  <2>1. DOMAIN log = {} /\ Len(log) = 0
    BY <1>1
  <2>. QED  BY <1>1, <2>1 DEF LogTyped
<1>. QED  BY <1>1, <1>3, <1>4, <1>5, <1>6 DEF Held

LEMMA NextHeld == IInv /\ Held /\ [Next]_vars => Held'
<1>. SUFFICES ASSUME IInv, Held, [Next]_vars PROVE Held'
  OBVIOUS
<1>1. CASE Begin
  BY <1>1, BeginHeld
<1>2. CASE Commit \/ FinishRollback \/ Finish
  BY <1>2, EndsHeld
<1>3. CASE NothingOpen \/ UndoFails \/ Crash
  <2>1. Die /\ log' = log
    BY <1>3 DEF NothingOpen, UndoFails, Crash
  <2>2. Alive
    <3>1. CASE NothingOpen \/ Crash
      BY <3>1 DEF NothingOpen, Prompt, Crash, Alive
    <3>2. CASE UndoFails
      <4>1. stmt # NoStmt
        BY <3>2, NothingIsOpen DEF UndoFails, Undoing
      <4>. QED  BY <4>1, HeldParts DEF Alive
    <3>. QED  BY <1>3, <3>1, <3>2
  <2>. QED  BY <2>1, <2>2, HeldParts, DieHeld
<1>4. CASE Rollback
  <2>1. /\ t' = t /\ txn' = txn /\ log' = log /\ redo' = redo /\ status' = status
        /\ stmt' = [op |-> "rollback"]
    BY <1>4 DEF Rollback
  <2>2. LogTyped'
    BY <2>1, HeldParts, LogStays
  <2>. QED  BY <2>1, <2>2, InPlace DEF Held, Statuses
<1>5. CASE UndoWrite
  BY <1>5, UndoWriteHeld
<1>6. ASSUME NEW s \in Statements, StartStatement(WithScan(s)) PROVE Held'
  BY <1>6, StartStatementHeld
<1>7. CASE Row
  BY <1>7, InsertRowHeld, UpdateRowHeld, DeleteRowHeld, PredicateFailsHeld DEF Row
<1>8. ASSUME NEW p \in DOMAIN t.view, Evict(p) PROVE Held'
  BY <1>8, EvictHeld
<1>9. CASE Exit \/ Close \/ Start
  BY <1>9, ExitHeld, CloseHeld, StartHeld
<1>10. CASE Replay \/ ReplayFails \/ FinishRecovery
  BY <1>10, ReplayHeld, ReplayFailsHeld, FinishRecoveryHeld
<1>11. CASE UNCHANGED vars
  <2>1. /\ t' = t /\ txn' = txn /\ log' = log /\ redo' = redo /\ status' = status
        /\ stmt' = stmt
    BY <1>11 DEF vars, memory
  <2>2. LogTyped'
    BY <2>1, HeldParts, LogStays
  <2>. QED  BY <2>1, <2>2, InPlace DEF Held, Statuses
<1>. QED
  BY <1>1, <1>2, <1>3, <1>4, <1>5, <1>6, <1>7, <1>8, <1>9, <1>10, <1>11 DEF Next

---------------------------------------------------------------------------
(* StatementsShrink: the rows a scan has ahead of it, as a set.            *)
Scannable(u, s) ==
  /\ Sound(u) /\ u.stopping_rid.page = u.last_page_id
  /\ s.pos \in Spots(u) /\ s.pos.page # -1

LEMMA RowsAheadAre ==
  ASSUME NEW u, NEW s, Scannable(u, s)
  PROVE  /\ RowsAhead(u, s) = RowsFrom(u, s.pos)
         /\ IsFiniteSet(RowsAhead(u, s)) /\ ToMove(u, s) \subseteq RowsAhead(u, s)
<1>. DEFINE at == Positions(u, s.pos)
<1>1. /\ Scans(u, at, ScanSteps(u)) /\ at[0] = s.pos /\ DOMAIN at = 0 .. ScanSteps(u)
  BY PositionsScan DEF Scannable, Scans
<1>2. RowsAhead(u, s)
        = {readAt(u, at[n]) : n \in {k \in 0 .. ScanSteps(u) : Yields(u, readAt(u, at[k]))}}
  BY <1>1 DEF RowsAhead
<1>. HIDE DEF at
<1>3. ASSUME NEW rid \in RowsFrom(u, s.pos) PROVE rid \in RowsAhead(u, s)
  <2>1. rid \in AllSlots(u) /\ Present(u, rid) /\ UpTo(s.pos, rid) /\ rid.page # -1
    BY SlotSpots DEF RowsFrom, Scannable
  <2>2. PICK n \in 0 .. ScanSteps(u) : readAt(u, at[n]) = rid
    <3>1. at[0].page # -1 /\ UpTo(at[0], rid)
      BY <1>1, <2>1 DEF Scannable
    <3>2. Scans(u, at, ScanSteps(u)) /\ rid \in AllSlots(u)
      BY <1>1, <2>1
    <3>. QED  BY <3>1, <3>2, ScanCovers
  <2>. QED  BY <1>2, <2>1, <2>2 DEF Yields
<1>4. ASSUME NEW rid \in RowsAhead(u, s) PROVE rid \in RowsFrom(u, s.pos)
  <2>1. PICK n \in 0 .. ScanSteps(u) : Yields(u, readAt(u, at[n])) /\ rid = readAt(u, at[n])
    BY <1>2
  <2>. QED  BY <1>1, <2>1, ScanReads
<1>5. IsFiniteSet(RowsFrom(u, s.pos))
  <2>1. IsFiniteSet(AllSlots(u)) /\ RowsFrom(u, s.pos) \subseteq AllSlots(u)
    BY StepsCounted DEF RowsFrom, Scannable
  <2>. QED  BY <2>1, FS_Subset
<1>6. ToMove(u, s) \subseteq RowsAhead(u, s)
  BY DEF ToMove
<1>7. RowsAhead(u, s) = RowsFrom(u, s.pos)
  BY <1>3, <1>4
<1>. QED  BY <1>5, <1>6, <1>7

LEMMA FewerRows ==
  ASSUME NEW T, IsFiniteSet(T), NEW S, S \subseteq T
  PROVE  /\ Cardinality(S) \in Nat /\ Cardinality(T) \in Nat
         /\ Cardinality(S) <= Cardinality(T)
         /\ \A x \in T : x \notin S => Cardinality(S) < Cardinality(T)
<1>1. /\ Cardinality(S) \in Nat /\ Cardinality(T) \in Nat
      /\ Cardinality(S) <= Cardinality(T)
      /\ Cardinality(S) = Cardinality(T) => S = T
  BY FS_Subset, FS_CardinalityType
<1>. QED  BY <1>1

(* A statement that goes on behind the row it changed.                     *)
GoesOn(u, s, rid, next) ==
  /\ rid \in RowsFrom(u, s.pos)
  /\ next.pos = [page |-> rid.page, slot |-> rid.slot + 1]
  /\ next.op = s.op /\ next.where = s.where /\ next.new = s.new

Shrinks(u, s, v, next) ==
  \/ Cardinality(ToMove(v, next)) < Cardinality(ToMove(u, s))
  \/ /\ Cardinality(ToMove(v, next)) = Cardinality(ToMove(u, s))
     /\ Cardinality(RowsAhead(v, next)) < Cardinality(RowsAhead(u, s))

(* What stays where it is, or leaves the table, is not ahead any more.     *)
LEMMA ChangedInPlace ==
  ASSUME NEW u, NEW s, Scannable(u, s), NEW v, NEW next, Scannable(v, next),
         NEW rid, GoesOn(u, s, rid, next),
         AllSlots(v) \subseteq AllSlots(u),
         \A x \in AllSlots(u) : x # rid => SameSlot(u, v, x)
  PROVE  Shrinks(u, s, v, next)
<1>1. /\ RowsAhead(u, s) = RowsFrom(u, s.pos) /\ IsFiniteSet(RowsAhead(u, s))
      /\ ToMove(u, s) \subseteq RowsAhead(u, s)
      /\ RowsAhead(v, next) = RowsFrom(v, [page |-> rid.page, slot |-> rid.slot + 1])
  BY RowsAheadAre DEF GoesOn
<1>2. ASSUME NEW x \in RowsAhead(v, next)
      PROVE  x \in RowsAhead(u, s) /\ x # rid /\ getTuple(v, x) = getTuple(u, x)
  <2>1. x \in RowsFrom(v, [page |-> rid.page, slot |-> rid.slot + 1])
    BY <1>1
  <2>2. /\ x \in AllSlots(v) /\ x # rid /\ Present(v, x)
        /\ x \in AllSlots(u) /\ Present(u, x) => x \in RowsFrom(u, s.pos)
    BY <2>1, RowsPassed DEF Scannable, GoesOn
  <2>. QED  BY <1>1, <2>2 DEF SameSlot
<1>3. rid \in RowsAhead(u, s)
  BY <1>1 DEF GoesOn
<1>4. /\ Cardinality(RowsAhead(v, next)) < Cardinality(RowsAhead(u, s))
  <2>. DEFINE S == RowsAhead(v, next)
              T == RowsAhead(u, s)
  <2>1. S \subseteq T /\ rid \in T /\ rid \notin S /\ IsFiniteSet(T)
    BY <1>1, <1>2, <1>3
  <2>. HIDE DEF S, T
  <2>2. Cardinality(S) < Cardinality(T)
    BY <2>1, FewerRows
  <2>. QED  BY <2>2 DEF S, T
<1>5. ToMove(v, next) \subseteq ToMove(u, s)
  BY <1>2 DEF ToMove, GoesOn
<1>6. /\ Cardinality(ToMove(v, next)) \in Nat /\ Cardinality(ToMove(u, s)) \in Nat
      /\ Cardinality(ToMove(v, next)) <= Cardinality(ToMove(u, s))
  <2>. DEFINE S == ToMove(v, next)
              T == ToMove(u, s)
  <2>1. S \subseteq T /\ IsFiniteSet(T)
    BY <1>1, <1>5, FS_Subset
  <2>. HIDE DEF S, T
  <2>2. Cardinality(S) \in Nat /\ Cardinality(T) \in Nat /\ Cardinality(S) <= Cardinality(T)
    BY <2>1, FewerRows
  <2>. QED  BY <2>2 DEF S, T
<1>. QED  BY <1>4, <1>6 DEF Shrinks

(* What moves to the end is not ahead to be moved again: it has grown.     *)
LEMMA ChangedByMoving ==
  ASSUME NEW u, NEW s, Scannable(u, s), NEW v, NEW next, Scannable(v, next),
         NEW rid, GoesOn(u, s, rid, next),
         s.op = "UPDATE", s.new \in Tuples, getTuple(u, rid) \in s.where, Grows(u, rid, s.new),
         \A x \in AllSlots(u) : x # rid => SameSlot(u, v, x),
         \A x \in AllSlots(v) : x \in AllSlots(u) \/ getTuple(v, x) = s.new
  PROVE  Shrinks(u, s, v, next)
<1>1. /\ RowsAhead(u, s) = RowsFrom(u, s.pos) /\ IsFiniteSet(RowsAhead(u, s))
      /\ ToMove(u, s) \subseteq RowsAhead(u, s)
      /\ RowsAhead(v, next) = RowsFrom(v, [page |-> rid.page, slot |-> rid.slot + 1])
  BY RowsAheadAre DEF GoesOn
<1>2. ~(TupleSize[s.new] < TupleSize[s.new])
  BY PaddedSize
<1>3. ASSUME NEW x \in ToMove(v, next)
      PROVE  x \in ToMove(u, s) /\ x # rid
  <2>1. /\ x \in RowsFrom(v, [page |-> rid.page, slot |-> rid.slot + 1])
        /\ getTuple(v, x) \in s.where /\ TupleSize[getTuple(v, x)] < TupleSize[s.new]
    BY <1>1 DEF ToMove, GoesOn
  <2>2. /\ x \in AllSlots(v) /\ x # rid /\ Present(v, x)
        /\ x \in AllSlots(u) /\ Present(u, x) => x \in RowsFrom(u, s.pos)
    BY <2>1, RowsPassed DEF Scannable, GoesOn
  <2>3. getTuple(v, x) # s.new
    BY <1>2, <2>1
  <2>. QED  BY <1>1, <2>1, <2>2, <2>3 DEF ToMove, SameSlot
<1>4. rid \in ToMove(u, s)
  BY <1>1 DEF ToMove, GoesOn, Grows
<1>5. Cardinality(ToMove(v, next)) < Cardinality(ToMove(u, s))
  <2>. DEFINE S == ToMove(v, next)
              T == ToMove(u, s)
  <2>1. S \subseteq T /\ rid \in T /\ rid \notin S /\ IsFiniteSet(T)
    BY <1>1, <1>3, <1>4, FS_Subset
  <2>. HIDE DEF S, T
  <2>2. Cardinality(S) < Cardinality(T)
    BY <2>1, FewerRows
  <2>. QED  BY <2>2 DEF S, T
<1>. QED  BY <1>5 DEF Shrinks

(* The row a scan meets is ahead of it, and it goes on right behind.       *)
LEMMA AheadPassed ==
  ASSUME Sound(t), StmtTyped, Scanning, Ahead.rid # NoRID
  PROVE  /\ Scannable(t, stmt) /\ Ahead.rid \in RowsFrom(t, stmt.pos)
         /\ Ahead.rid \in AllSlots(t) /\ Present(t, Ahead.rid)
         /\ Ahead.pos = [page |-> Ahead.rid.page, slot |-> Ahead.rid.slot + 1]
<1>. DEFINE at == Positions(t, stmt.pos)
            rid == Ahead.rid
            pos == Ahead.pos
<1>1. /\ Scans(t, at, ScanSteps(t)) /\ stmt.pos.page # -1
      /\ t.stopping_rid.page = t.last_page_id /\ rid \in RowsFrom(t, stmt.pos)
      /\ \E n \in 0 .. ScanSteps(t) :
           at[n].page # -1 /\ rid = readAt(t, at[n]) /\ pos = scanNext(t, at[n])
  BY AheadMet DEF StmtTyped
<1>2. stmt.pos \in Spots(t)
  BY <1>1, KnownSpots DEF StmtTyped
<1>3. Scannable(t, stmt)
  BY <1>1, <1>2 DEF Scannable
<1>. HIDE DEF at, rid, pos
<1>4. rid \in AllSlots(t) /\ Present(t, rid) /\ rid.page # -1
  BY <1>1, SlotSpots DEF RowsFrom
<1>5. pos = [page |-> rid.page, slot |-> rid.slot + 1]
  <2>1. PICK n \in 0 .. ScanSteps(t) :
          at[n].page # -1 /\ rid = readAt(t, at[n]) /\ pos = scanNext(t, at[n])
    BY <1>1
  <2>2. at[n] \in Spots(t)
    BY <1>1, <2>1 DEF Scans
  <2>. QED  BY <1>1, <1>4, <2>1, <2>2, ScanPasses
<1>. QED  BY <1>1, <1>3, <1>4, <1>5 DEF rid, pos

LEMMA ScanRow ==
  ASSUME Sound(t), StmtTyped, Scanning, Ahead.rid # NoRID, MethodOn(t, t'),
         stmt' = [stmt EXCEPT !.pos = Ahead.pos]
  PROVE  /\ Scannable(t, stmt) /\ Scannable(t', stmt')
         /\ GoesOn(t, stmt, Ahead.rid, stmt')
<1>. DEFINE rid == Ahead.rid
            pos == Ahead.pos
<1>1. /\ Scannable(t, stmt) /\ rid \in RowsFrom(t, stmt.pos) /\ rid \in AllSlots(t)
      /\ pos = [page |-> rid.page, slot |-> rid.slot + 1]
  BY AheadPassed
<1>2. /\ "pos" \in DOMAIN stmt
      /\ stmt'.pos = pos /\ stmt'.op = stmt.op /\ stmt'.where = stmt.where /\ stmt'.new = stmt.new
  BY DEF StmtTyped
<1>. HIDE DEF rid, pos
<1>3. /\ rid \in [page : DOMAIN t.view, slot : Nat] /\ rid.page \in 1 .. t.last_page_id
      /\ rid.slot \in Nat /\ rid.page \in DOMAIN t.view /\ rid.page # -1
  BY <1>1, SlotSpots
<1>4. GoesOn(t, stmt, rid, stmt')
  BY <1>1, <1>2 DEF GoesOn
<1>5. Scannable(t', stmt')
  <2>1. pos \in Spots(t') /\ pos.page # -1
    BY <1>1, <1>3 DEF Spots, MethodOn, InMemory
  <2>. QED  BY <1>1, <1>2, <2>1 DEF Scannable, MethodOn
<1>. QED  BY <1>1, <1>4, <1>5 DEF rid

LEMMA UpdateRowShrinks ==
  ASSUME IInv, Held, UpdateRow, stmt' # NoStmt
  PROVE  Shrinks(t, stmt, t', stmt')
<1>. DEFINE rid == Ahead.rid
            v   == updateTuple(t, rid, stmt.new)
<1>1. /\ Scanning /\ stmt.op = "UPDATE" /\ stmt.new \in Tuples /\ stmt # NoStmt /\ rid # NoRID
      /\ getTuple(t, rid) \in stmt.where
      /\ Grows(t, rid, stmt.new) => Room(t, stmt.new)
      /\ t' = v /\ stmt' = [stmt EXCEPT !.pos = Ahead.pos]
  BY HeldParts, NothingIsOpen
     DEF UpdateRow, Scanning, RoomFor, Room, StmtTyped, ChangeRow, StatementGoesOn
<1>2. status = "running" /\ Sound(t) /\ StmtTyped
  BY <1>1, HeldParts DEF Alive
<1>3. rid \in RID /\ rid.page \in DOMAIN t.view /\ Present(t, rid) /\ rid \in AllSlots(t)
  BY <1>1, <1>2, AheadTyped, SlotIsThere DEF Present, Found
<1>4. MethodOn(t, v)
  <2>. HIDE DEF rid
  <2>. QED  BY <1>1, <1>2, <1>3, UpdateMethod
<1>5. MethodOn(t, t')
  BY <1>1, <1>4
<1>6. /\ Scannable(t, stmt) /\ Scannable(t', stmt') /\ GoesOn(t, stmt, rid, stmt')
  <2>1. Ahead.rid # NoRID /\ stmt' = [stmt EXCEPT !.pos = Ahead.pos]
    BY <1>1
  <2>. QED  BY <1>1, <1>2, <1>5, <2>1, ScanRow
<1>. HIDE DEF rid, v
<1>7. CASE Grows(t, rid, stmt.new)
  <2>1. /\ \A x \in AllSlots(t) : x # rid => SameSlot(t, t', x)
        /\ \A x \in AllSlots(t') : x \in AllSlots(t) \/ getTuple(t', x) = stmt.new
    BY <1>1, <1>2, <1>3, <1>7, MoveAdds DEF v
  <2>. QED  BY <1>1, <1>6, <1>7, <2>1, ChangedByMoving
<1>8. CASE ~Grows(t, rid, stmt.new)
  <2>1. AllSlots(t') = AllSlots(t) /\ \A x \in AllSlots(t) : x # rid => SameSlot(t, t', x)
    BY <1>1, <1>2, <1>3, <1>8, OverwriteKeeps DEF v
  <2>. QED  BY <1>6, <2>1, ChangedInPlace
<1>. QED  BY <1>7, <1>8

LEMMA DeleteRowShrinks ==
  ASSUME IInv, Held, DeleteRow, stmt' # NoStmt
  PROVE  Shrinks(t, stmt, t', stmt')
<1>. DEFINE rid == Ahead.rid
            v   == deleteTuple(t, rid)
<1>1. /\ Scanning /\ stmt # NoStmt /\ rid # NoRID
      /\ t' = v /\ stmt' = [stmt EXCEPT !.pos = Ahead.pos]
  BY NothingIsOpen DEF DeleteRow, Scanning, ChangeRow, StatementGoesOn
<1>2. status = "running" /\ Sound(t) /\ StmtTyped
  BY <1>1, HeldParts DEF Alive
<1>3. rid \in RID /\ rid.page \in DOMAIN t.view /\ Present(t, rid) /\ rid \in AllSlots(t)
  BY <1>1, <1>2, AheadTyped, SlotIsThere DEF Present, Found
<1>4. MethodOn(t, v)
  <2>. HIDE DEF rid
  <2>. QED  BY <1>2, <1>3, DeleteMethod
<1>5. MethodOn(t, t')
  BY <1>1, <1>4
<1>6. Scannable(t, stmt) /\ Scannable(t', stmt') /\ GoesOn(t, stmt, rid, stmt')
  <2>1. Ahead.rid # NoRID /\ stmt' = [stmt EXCEPT !.pos = Ahead.pos]
    BY <1>1
  <2>. QED  BY <1>1, <1>2, <1>5, <2>1, ScanRow
<1>. HIDE DEF rid, v
<1>7. AllSlots(t') = AllSlots(t) /\ \A x \in AllSlots(t) : x # rid => SameSlot(t, t', x)
  BY <1>1, <1>2, <1>3, DeleteTakes DEF v
<1>. QED  BY <1>6, <1>7, ChangedInPlace

---------------------------------------------------------------------------
(* RollbackRestores: what the undo would bring back.                       *)
WithWrite(ws, w, long) ==
  /\ Len(ws) \in Nat /\ DOMAIN ws = 1 .. Len(ws) /\ DOMAIN long = 1 .. Len(ws) + 1
  /\ long[Len(ws) + 1] = w /\ \A n \in DOMAIN ws : long[n] = ws[n]

LEMMA WrittenSets ==
  ASSUME NEW ws, NEW w, NEW long, WithWrite(ws, w, long), NEW x
  PROVE  /\ Changed(long) = Changed(ws) \cup {w.rid}
         /\ IsFiniteSet(PutBack(ws, x)) /\ Cardinality(PutBack(ws, x)) \in Nat
         /\ w.type # "INSERT" /\ w.old = x =>
              Cardinality(PutBack(long, x)) = Cardinality(PutBack(ws, x)) + 1
         /\ w.type = "INSERT" \/ w.old # x => PutBack(long, x) = PutBack(ws, x)
<1>. DEFINE len == Len(ws)
<1>1. /\ len \in Nat /\ DOMAIN ws = 1 .. len /\ DOMAIN long = 1 .. len + 1
      /\ long[len + 1] = w /\ \A n \in DOMAIN ws : long[n] = ws[n]
  BY DEF WithWrite
<1>. HIDE DEF len
<1>2. /\ len + 1 \in DOMAIN long /\ len + 1 \notin DOMAIN ws
      /\ \A n \in DOMAIN long : n \in DOMAIN ws \/ n = len + 1
      /\ \A n \in DOMAIN ws : n \in DOMAIN long
  BY <1>1
<1>3. Changed(long) = Changed(ws) \cup {w.rid}
  BY <1>1, <1>2 DEF Changed
<1>4. PutBack(ws, x) \subseteq DOMAIN ws /\ IsFiniteSet(DOMAIN ws)
  BY <1>1, FirstNumbers DEF PutBack
<1>5. IsFiniteSet(PutBack(ws, x)) /\ Cardinality(PutBack(ws, x)) \in Nat
  BY <1>4, FS_Subset, FS_CardinalityType
<1>6. ASSUME w.type # "INSERT", w.old = x
      PROVE  Cardinality(PutBack(long, x)) = Cardinality(PutBack(ws, x)) + 1
  <2>. DEFINE S == PutBack(ws, x)
  <2>1. PutBack(long, x) = S \cup {len + 1} /\ len + 1 \notin S
    BY <1>1, <1>2, <1>6 DEF PutBack
  <2>2. IsFiniteSet(S)
    BY <1>5
  <2>. HIDE DEF S
  <2>3. Cardinality(S \cup {len + 1}) = Cardinality(S) + 1
    BY <2>1, <2>2, FS_AddElement
  <2>. QED  BY <2>1, <2>3 DEF S
<1>7. ASSUME w.type = "INSERT" \/ w.old # x
      PROVE  PutBack(long, x) = PutBack(ws, x)
  BY <1>1, <1>2, <1>7 DEF PutBack
<1>. QED  BY <1>3, <1>5, <1>6, <1>7

(* The rows that no write is about.                                        *)
Rest(u, ws) == Rows(u) \ Changed(ws)

LEMMA RestFinite ==
  ASSUME NEW u, Sound(u), NEW ws, NEW x
  PROVE  /\ LeftAlone(u, ws, x) = {rid \in Rest(u, ws) : getTuple(u, rid) = x}
         /\ IsFiniteSet(LeftAlone(u, ws, x)) /\ Cardinality(LeftAlone(u, ws, x)) \in Nat
<1>1. IsFiniteSet(AllSlots(u)) /\ LeftAlone(u, ws, x) \subseteq AllSlots(u)
  BY StepsCounted, SlotIsThere DEF LeftAlone
<1>. QED  BY <1>1, FS_Subset, FS_CardinalityType DEF LeftAlone, Rest

(* One write more to undo, and the row it changed one less that was left   *)
(* alone: the undo brings back the same.                                   *)
LEMMA UndoneSame ==
  ASSUME NEW u, Sound(u), NEW v, Sound(v), NEW ws, NEW w, NEW long, WithWrite(ws, w, long),
         w.type = "INSERT", Rest(u, ws) = Rest(v, long),
         \A x \in Rest(u, ws) : getTuple(u, x) = getTuple(v, x)
  PROVE  Undone(u, ws) = Undone(v, long)
<1>1. ASSUME NEW x PROVE LeftAlone(u, ws, x) = LeftAlone(v, long, x)
  <2>1. /\ LeftAlone(u, ws, x) = {rid \in Rest(u, ws) : getTuple(u, rid) = x}
        /\ LeftAlone(v, long, x) = {rid \in Rest(v, long) : getTuple(v, rid) = x}
    BY RestFinite
  <2>. QED  BY <2>1
<1>2. ASSUME NEW x PROVE PutBack(long, x) = PutBack(ws, x)
  BY WrittenSets
<1>. QED  BY <1>1, <1>2 DEF Undone

LEMMA UndoneBack ==
  ASSUME NEW u, Sound(u), NEW v, Sound(v), NEW ws, NEW w, NEW long, WithWrite(ws, w, long),
         w.type # "INSERT", NEW rid, Rest(u, ws) = Rest(v, long) \cup {rid},
         rid \notin Rest(v, long), getTuple(u, rid) = w.old,
         \A x \in Rest(v, long) : getTuple(u, x) = getTuple(v, x)
  PROVE  Undone(u, ws) = Undone(v, long)
<1>. SUFFICES ASSUME NEW x \in Tuples
              PROVE  Cardinality(LeftAlone(u, ws, x)) + Cardinality(PutBack(ws, x))
                     = Cardinality(LeftAlone(v, long, x)) + Cardinality(PutBack(long, x))
  BY DEF Undone
<1>. DEFINE A == LeftAlone(u, ws, x)
            B == LeftAlone(v, long, x)
            P == PutBack(ws, x)
            Q == PutBack(long, x)
<1>1. /\ A = {r \in Rest(u, ws) : getTuple(u, r) = x}
      /\ B = {r \in Rest(v, long) : getTuple(v, r) = x}
      /\ IsFiniteSet(B) /\ Cardinality(B) \in Nat
  BY RestFinite
<1>2. Cardinality(P) \in Nat
  BY WrittenSets
<1>3. CASE w.old = x
  <2>1. A = B \cup {rid} /\ rid \notin B
    BY <1>1, <1>3
  <2>2. Cardinality(Q) = Cardinality(P) + 1
    BY <1>3, WrittenSets
  <2>. HIDE DEF A, B, P, Q
  <2>3. Cardinality(B \cup {rid}) = Cardinality(B) + 1
    BY <1>1, <2>1, FS_AddElement
  <2>4. Cardinality(A) + Cardinality(P) = Cardinality(B) + Cardinality(Q)
    BY <1>1, <1>2, <2>1, <2>2, <2>3
  <2>. QED  BY <2>4 DEF A, B, P, Q
<1>4. CASE w.old # x
  <2>1. A = B
    BY <1>1, <1>4
  <2>2. P = Q
    BY <1>4, WrittenSets
  <2>. HIDE DEF A, B, P, Q
  <2>3. Cardinality(A) + Cardinality(P) = Cardinality(B) + Cardinality(Q)
    BY <2>1, <2>2
  <2>. QED  BY <2>3 DEF A, B, P, Q
<1>. QED  BY <1>3, <1>4

(* Undoable, of a table, a write set and the rows there were.              *)
AllFound(u, ws) == \A n \in DOMAIN ws :
  WriteFound(u, ws[n]) /\ \A m \in 1 .. n - 1 : ws[m].rid # ws[n].rid

CanUndo(u, ws, rows) == AllFound(u, ws) /\ (Moved(u, ws) \/ rows = Undone(u, ws))

LEMMA StillFound ==
  ASSUME NEW u, Sound(u), NEW v, Sound(v), NEW w, w.rid \in AllSlots(u),
         SameSlot(u, v, w.rid), WriteFound(u, w)
  PROVE  WriteFound(v, w)
<1>1. w.rid \in AllSlots(v)
  BY DEF SameSlot
<1>2. HasSlot(v.view[w.rid.page], w.rid.slot)
  BY <1>1, SlotIsThere
<1>. QED  BY <1>2 DEF WriteFound, SameSlot

LEMMA CanUndoOneMore ==
  ASSUME NEW u, Sound(u), NEW v, Sound(v), NEW ws, NEW w, NEW long, WithWrite(ws, w, long),
         \A n \in DOMAIN ws : ws[n].rid \in AllSlots(u) /\ ws[n].rid # w.rid,
         \A x \in AllSlots(u) : x # w.rid => SameSlot(u, v, x),
         WriteFound(v, w), NEW rows, CanUndo(u, ws, rows),
         \/ w.type = "UPDATE" /\ ~Present(v, w.rid)
         \/ Undone(u, ws) = Undone(v, long)
  PROVE  CanUndo(v, long, rows)
<1>. DEFINE len == Len(ws)
<1>1. /\ len \in Nat /\ DOMAIN ws = 1 .. len /\ DOMAIN long = 1 .. len + 1
      /\ long[len + 1] = w /\ \A n \in DOMAIN ws : long[n] = ws[n]
  BY DEF WithWrite
<1>. HIDE DEF len
<1>2. \A n \in DOMAIN ws : SameSlot(u, v, ws[n].rid)
  OBVIOUS
<1>3. ASSUME NEW n \in DOMAIN long PROVE WriteFound(v, long[n])
  <2>1. CASE n \in DOMAIN ws
    <3>1. WriteFound(u, ws[n])
      BY <2>1 DEF CanUndo, AllFound
    <3>2. WriteFound(v, ws[n])
      BY <1>2, <2>1, <3>1, StillFound
    <3>. QED  BY <1>1, <2>1, <3>2
  <2>2. CASE n = len + 1
    BY <1>1, <2>2
  <2>. QED  BY <1>1, <2>1, <2>2
<1>4. ASSUME NEW n \in DOMAIN long, NEW m \in 1 .. n - 1 PROVE long[m].rid # long[n].rid
  <2>1. m \in DOMAIN ws /\ long[m] = ws[m]
    BY <1>1
  <2>2. CASE n \in DOMAIN ws
    <3>1. ws[m].rid # ws[n].rid
      BY <2>2 DEF CanUndo, AllFound
    <3>. QED  BY <1>1, <2>1, <2>2, <3>1
  <2>3. CASE n = len + 1
    BY <1>1, <2>1, <2>3
  <2>. QED  BY <1>1, <2>2, <2>3
<1>5. Moved(v, long) \/ rows = Undone(v, long)
  <2>1. CASE Moved(u, ws)
    <3>1. PICK n \in DOMAIN ws : ws[n].type = "UPDATE" /\ ~Present(u, ws[n].rid)
      BY <2>1 DEF Moved
    <3>2. n \in DOMAIN long /\ long[n] = ws[n] /\ ~Present(v, ws[n].rid)
      BY <1>1, <1>2, <3>1 DEF SameSlot
    <3>. QED  BY <3>1, <3>2 DEF Moved
  <2>2. CASE w.type = "UPDATE" /\ ~Present(v, w.rid)
    <3>1. len + 1 \in DOMAIN long
      BY <1>1
    <3>. QED  BY <1>1, <2>2, <3>1 DEF Moved
  <2>. QED  BY <2>1, <2>2 DEF CanUndo
<1>. QED  BY <1>3, <1>4, <1>5 DEF CanUndo, AllFound

LEMMA CanUndoOneLess ==
  ASSUME NEW u, Sound(u), NEW v, Sound(v), NEW ws, NEW w, NEW long, WithWrite(ws, w, long),
         \A n \in DOMAIN long : long[n].rid \in AllSlots(u),
         \A x \in AllSlots(u) : x # w.rid => SameSlot(u, v, x),
         NEW rows, CanUndo(u, long, rows),
         w.type = "UPDATE" => Present(u, w.rid),
         Undone(v, ws) = Undone(u, long)
  PROVE  CanUndo(v, ws, rows)
<1>. DEFINE len == Len(ws)
<1>1. /\ len \in Nat /\ DOMAIN ws = 1 .. len /\ DOMAIN long = 1 .. len + 1
      /\ long[len + 1] = w /\ \A n \in DOMAIN ws : long[n] = ws[n]
  BY DEF WithWrite
<1>. HIDE DEF len
<1>2. ASSUME NEW n \in DOMAIN ws
      PROVE  /\ n \in DOMAIN long /\ WriteFound(u, ws[n]) /\ ws[n].rid # w.rid
             /\ ws[n].rid \in AllSlots(u) /\ SameSlot(u, v, ws[n].rid)
             /\ \A m \in 1 .. n - 1 : ws[m].rid # ws[n].rid
  <2>1. n \in DOMAIN long /\ len + 1 \in DOMAIN long /\ n \in 1 .. (len + 1) - 1
    BY <1>1
  <2>2. WriteFound(u, long[n]) /\ long[n].rid # long[len + 1].rid
    BY <2>1 DEF CanUndo, AllFound
  <2>3. \A m \in 1 .. n - 1 : long[m].rid # long[n].rid
    BY <2>1 DEF CanUndo, AllFound
  <2>4. \A m \in 1 .. n - 1 : m \in DOMAIN ws
    BY <1>1
  <2>. QED  BY <1>1, <2>1, <2>2, <2>3, <2>4
<1>3. ASSUME NEW n \in DOMAIN ws PROVE WriteFound(v, ws[n])
  BY <1>2, StillFound
<1>4. Moved(v, ws) \/ rows = Undone(v, ws)
  <2>1. CASE Moved(u, long)
    <3>1. PICK n \in DOMAIN long : long[n].type = "UPDATE" /\ ~Present(u, long[n].rid)
      BY <2>1 DEF Moved
    <3>2. n # len + 1
      BY <1>1, <3>1
    <3>3. n \in DOMAIN ws /\ long[n] = ws[n]
      BY <1>1, <3>1, <3>2
    <3>4. ~Present(v, ws[n].rid)
      BY <1>2, <3>1, <3>3 DEF SameSlot
    <3>. QED  BY <3>1, <3>3, <3>4 DEF Moved
  <2>. QED  BY <2>1 DEF CanUndo
<1>. QED  BY <1>2, <1>3, <1>4 DEF CanUndo, AllFound

(* The write set while its writes can be undone.                           *)
LEMMA WritesOnTable ==
  ASSUME Sound(t), TxnHeld, AllFound(t, txn.writes)
  PROVE  \A n \in DOMAIN txn.writes : txn.writes[n].rid \in AllSlots(t)
<1>. SUFFICES ASSUME NEW n \in DOMAIN txn.writes
              PROVE  txn.writes[n].rid \in AllSlots(t)
  OBVIOUS
<1>. DEFINE w == txn.writes[n]
<1>1. w.rid \in RID /\ w.rid.page \in DOMAIN t.view
  BY DEF TxnHeld
<1>2. HasSlot(t.view[w.rid.page], w.rid.slot)
  BY DEF AllFound, WriteFound
<1>. HIDE DEF w
<1>3. w.rid \in AllSlots(t)
  BY <1>1, <1>2, SlotIsThere
<1>. QED  BY <1>3 DEF w

LEMMA WithAppended ==
  ASSUME TxnHeld, NEW w
  PROVE  WithWrite(txn.writes, w, Append(txn.writes, w))
BY WritesAppended DEF TxnHeld, WithWrite

LEMMA WithLast ==
  ASSUME NEW ws, ws \in Seq(Range(ws)), ws # << >>
  PROVE  WithWrite(Front(ws), Last(ws), ws)
<1>. DEFINE S == Range(ws)
<1>1. ws \in Seq(S)
  OBVIOUS
<1>. HIDE DEF S
<1>2. /\ Front(ws) \in Seq(S) /\ Len(Front(ws)) = Len(ws) - 1
      /\ \A j \in 1 .. Len(ws) - 1 : Front(ws)[j] = ws[j]
  BY <1>1, FrontElements
<1>3. /\ Len(ws) \in Nat /\ Len(ws) # 0 /\ DOMAIN ws = 1 .. Len(ws)
      /\ Last(ws) = ws[Len(ws)]
  BY <1>1 DEF Last
<1>4. DOMAIN Front(ws) = 1 .. Len(Front(ws))
  BY <1>2
<1>. QED  BY <1>2, <1>3, <1>4 DEF WithWrite

Quietly == status = "running" /\ txn # NoTxn /\ quiet

LEMMA UndoableParts ==
  ASSUME Undoable, Quietly
  PROVE  /\ CanUndo(t, txn.writes, before)
         /\ stmt.op = "INSERT" => txn.writes = << >>
         /\ Scanning => \A n \in DOMAIN txn.writes : Before(txn.writes[n].rid, stmt.pos)
BY DEF Undoable, Quietly, CanUndo, AllFound

(* Nothing is said of a session without a quiet transaction.               *)
LEMMA NotQuiet ==
  ASSUME status' # "running" \/ txn' = NoTxn \/ ~quiet'
  PROVE  Undoable'
BY DEF Undoable

(* A row is changed, and the statement goes on or not.                     *)
LEMMA RowUndoable ==
  ASSUME DOMAIN txn = {"id", "writes"}, NEW w, before' = before,
         txn' = [txn EXCEPT !.writes = Append(@, w)],
         CanUndo(t', Append(txn.writes, w), before),
         stmt'.op # "INSERT",
         Scanning' => \A n \in DOMAIN Append(txn.writes, w) :
                        Before(Append(txn.writes, w)[n].rid, stmt'.pos)
  PROVE  Undoable'
<1>. DEFINE long == Append(txn.writes, w)
<1>1. txn'.writes = long
  OBVIOUS
<1>2. /\ \A n \in DOMAIN long : /\ WriteFound(t', long[n])
                                /\ \A m \in 1 .. n - 1 : long[m].rid # long[n].rid
      /\ Moved(t', long) \/ before = Undone(t', long)
  BY DEF CanUndo, AllFound
<1>. HIDE DEF long
<1>3. Scanning' => \A n \in DOMAIN long : Before(long[n].rid, stmt'.pos)
  BY DEF long
<1>. QED  BY <1>1, <1>2, <1>3 DEF Undoable

LEMMA InsertRowUndoable ==
  ASSUME IInv, Held, Undoable, InsertRow
  PROVE  Undoable'
<1>. DEFINE ws   == txn.writes
            rid  == insertedRID(t, stmt.new)
            w    == [type |-> "INSERT", rid |-> rid, old |-> Empty]
            long == Append(ws, w)
            v    == insertTuple(t, stmt.new)
<1>1. /\ stmt.op = "INSERT" /\ stmt # NoStmt /\ stmt.new \in Tuples /\ Room(t, stmt.new)
      /\ t' = v /\ txn' = [txn EXCEPT !.writes = Append(@, w)] /\ before' = before
      /\ quiet' = (quiet /\ rid.slot # -1)
      /\ stmt'.op \in {"none", "done"}
  BY HeldParts, NothingIsOpen
     DEF InsertRow, RoomFor, Room, StmtTyped, ChangeRow, StatementGoesOn
<1>2. /\ status = "running" /\ txn # NoTxn /\ Sound(t) /\ TxnHeld
      /\ DOMAIN txn = {"id", "writes"}
  BY <1>1, HeldParts DEF Alive
<1>. SUFFICES ASSUME quiet' PROVE Undoable'
  BY NotQuiet
<1>3. quiet /\ rid.slot # -1
  BY <1>1
<1>4. CanUndo(t, ws, before) /\ ws = << >>
  BY <1>1, <1>2, <1>3, UndoableParts DEF Quietly
<1>5. Fits(lastPage(t), stmt.new)
  BY <1>3 DEF insertedRID
<1>6. placeOf(t, stmt.new) = rid
  BY <1>5 DEF placeOf
<1>7. /\ Rows(v) = Rows(t) \cup {rid} /\ rid \notin AllSlots(t)
      /\ getTuple(v, rid) = stmt.new
      /\ \A x \in AllSlots(t) : SameSlot(t, v, x)
  BY <1>1, <1>2, <1>5, <1>6, InsertedRows
<1>8. Sound(v)
  BY <1>1, <1>2, InsertedTable
<1>9. WithWrite(ws, w, long)
  BY <1>2, WithAppended
<1>10. w.type = "INSERT" /\ w.rid = rid /\ DOMAIN ws = {}
  BY <1>4
<1>. HIDE DEF v, w, long, rid, ws
<1>11. /\ \A x \in Rows(t) : x \in AllSlots(t)
       /\ rid \in AllSlots(v) /\ Present(v, rid) /\ HasSlot(v.view[rid.page], rid.slot)
  BY <1>2, <1>7, <1>8, SlotIsThere
<1>12. Changed(long) = Changed(ws) \cup {rid}
  BY <1>9, <1>10, WrittenSets
<1>13. Changed(ws) = {}
  BY <1>10 DEF Changed
<1>14. Rest(t, ws) = Rest(v, long)
  BY <1>7, <1>11, <1>12, <1>13 DEF Rest
<1>15. \A x \in Rest(t, ws) : getTuple(t, x) = getTuple(v, x)
  BY <1>7, <1>11 DEF Rest, SameSlot
<1>16. Undone(t, ws) = Undone(v, long)
  BY <1>2, <1>8, <1>9, <1>10, <1>14, <1>15, UndoneSame
<1>17. WriteFound(v, w)
  BY <1>10, <1>11 DEF WriteFound
<1>18. CanUndo(v, long, before)
  <2>1. \A n \in DOMAIN ws : ws[n].rid \in AllSlots(t) /\ ws[n].rid # w.rid
    BY <1>10
  <2>2. \A x \in AllSlots(t) : x # w.rid => SameSlot(t, v, x)
    BY <1>7
  <2>. QED  BY <1>2, <1>4, <1>8, <1>9, <1>16, <1>17, <2>1, <2>2, CanUndoOneMore
<1>19. ~Scanning' /\ stmt'.op # "INSERT"
  BY <1>1 DEF Scanning
<1>. QED  BY <1>1, <1>2, <1>18, <1>19, RowUndoable DEF long, ws

(* The row a scan changes is behind it then, as those it changed before.   *)
LEMMA ScanBehind ==
  ASSUME Sound(t), StmtTyped, TxnHeld, Scanning, Ahead.rid # NoRID,
         CanUndo(t, txn.writes, before),
         \A n \in DOMAIN txn.writes : Before(txn.writes[n].rid, stmt.pos),
         NEW w, w.rid = Ahead.rid
  PROVE  /\ \A n \in DOMAIN txn.writes :
              txn.writes[n].rid \in AllSlots(t) /\ txn.writes[n].rid # w.rid
         /\ \A n \in DOMAIN Append(txn.writes, w) :
              Before(Append(txn.writes, w)[n].rid, Ahead.pos)
<1>. DEFINE ws   == txn.writes
            long == Append(ws, w)
            rid  == w.rid
            pos  == Ahead.pos
<1>1. /\ rid \in AllSlots(t) /\ UpTo(stmt.pos, rid) /\ stmt.pos \in Spots(t)
      /\ pos = [page |-> rid.page, slot |-> rid.slot + 1]
  BY AheadPassed DEF RowsFrom, Scannable
<1>2. WithWrite(ws, w, long)
  BY WithAppended
<1>3. \A n \in DOMAIN ws : ws[n].rid \in AllSlots(t)
  BY WritesOnTable DEF CanUndo
<1>4. \A n \in DOMAIN ws : Before(ws[n].rid, stmt.pos)
  OBVIOUS
<1>. HIDE DEF ws, long, rid, pos
<1>5. /\ rid.page \in Int /\ rid.slot \in Int /\ stmt.pos.page \in Int /\ stmt.pos.slot \in Int
      /\ \A n \in DOMAIN ws : ws[n].rid.page \in Int /\ ws[n].rid.slot \in Int
      /\ pos.page = rid.page /\ pos.slot = rid.slot + 1
  BY <1>1, <1>3, SlotSpots, SpotFields
<1>6. ASSUME NEW n \in DOMAIN ws PROVE ws[n].rid # rid /\ Before(ws[n].rid, pos)
  <2>. DEFINE r == ws[n].rid
              p == stmt.pos
  <2>1. /\ Before(r, p) /\ UpTo(p, rid)
        /\ r.page \in Int /\ r.slot \in Int /\ p.page \in Int /\ p.slot \in Int
    BY <1>1, <1>4, <1>5
  <2>. HIDE DEF r, p
  <2>2. Before(r, rid)
    BY <1>5, <2>1 DEF Before, UpTo
  <2>3. r # rid /\ Before(r, pos)
    BY <1>5, <2>1, <2>2 DEF Before
  <2>. QED  BY <2>3 DEF r
<1>7. Before(rid, pos)
  BY <1>5 DEF Before
<1>8. ASSUME NEW n \in DOMAIN long PROVE Before(long[n].rid, pos)
  <2>1. (n \in DOMAIN ws /\ long[n] = ws[n]) \/ long[n] = w
    BY <1>2 DEF WithWrite
  <2>. QED  BY <1>6, <1>7, <2>1 DEF rid
<1>. QED  BY <1>3, <1>6, <1>8 DEF ws, long, rid, pos

LEMMA UpdateRowUndoable ==
  ASSUME IInv, Held, Undoable, UpdateRow
  PROVE  Undoable'
<1>. DEFINE ws   == txn.writes
            rid  == Ahead.rid
            met  == getTuple(t, rid)
            w    == [type |-> "UPDATE", rid |-> rid, old |-> met]
            long == Append(ws, w)
            v    == updateTuple(t, rid, stmt.new)
<1>1. /\ Scanning /\ stmt.op = "UPDATE" /\ stmt.new \in Tuples /\ stmt # NoStmt /\ rid # NoRID
      /\ Grows(t, rid, stmt.new) => Room(t, stmt.new)
      /\ t' = v /\ txn' = [txn EXCEPT !.writes = Append(@, w)] /\ before' = before
      /\ quiet' = (quiet /\ rid.slot # -1)
      /\ stmt' = NoStmt \/ stmt' = [stmt EXCEPT !.pos = Ahead.pos]
  BY HeldParts, NothingIsOpen
     DEF UpdateRow, Scanning, RoomFor, Room, StmtTyped, ChangeRow, StatementGoesOn
<1>2. /\ status = "running" /\ txn # NoTxn /\ Sound(t) /\ TxnHeld /\ StmtTyped
      /\ DOMAIN txn = {"id", "writes"}
  BY <1>1, HeldParts DEF Alive
<1>. SUFFICES ASSUME quiet' PROVE Undoable'
  BY NotQuiet
<1>3. /\ CanUndo(t, ws, before)
      /\ \A n \in DOMAIN ws : Before(ws[n].rid, stmt.pos)
  BY <1>1, <1>2, UndoableParts DEF Quietly
<1>4. /\ w.type = "UPDATE" /\ w.rid = rid /\ w.old = met
  OBVIOUS
<1>5. /\ \A n \in DOMAIN ws : ws[n].rid \in AllSlots(t) /\ ws[n].rid # rid
      /\ \A n \in DOMAIN long : Before(long[n].rid, Ahead.pos)
  <2>. HIDE DEF w, rid
  <2>. QED  BY <1>1, <1>2, <1>3, <1>4, ScanBehind DEF rid
<1>6. rid \in AllSlots(t) /\ Present(t, rid)
  BY <1>1, <1>2, AheadPassed
<1>7. Fits(EmptyPage, met) /\ met \in Tuples
  BY <1>2, <1>6, RowFits
<1>8. WithWrite(ws, w, long)
  BY <1>2, WithAppended
<1>9. Sound(v)
  <2>1. rid \in RID /\ rid.page \in DOMAIN t.view
    BY <1>1, <1>2, AheadTyped
  <2>. HIDE DEF rid
  <2>. QED  BY <1>1, <1>2, <1>6, <2>1, UpdateMethod DEF MethodOn
<1>. HIDE DEF v, w, long, rid, ws, met
<1>10. rid \notin Changed(ws)
  BY <1>5 DEF Changed
<1>11. CanUndo(v, long, before)
  <2>1. /\ \A n \in DOMAIN ws : ws[n].rid \in AllSlots(t) /\ ws[n].rid # w.rid
    BY <1>4, <1>5
  <2>2. CASE Grows(t, rid, stmt.new)
    <3>1. /\ rid \in AllSlots(v) /\ ~Present(v, rid)
          /\ \A x \in AllSlots(t) : x # rid => SameSlot(t, v, x)
      BY <1>1, <1>2, <1>6, <2>2, MoveAdds DEF v
    <3>2. WriteFound(v, w)
      BY <1>4, <1>7, <1>9, <3>1, SlotIsThere DEF WriteFound
    <3>3. \A x \in AllSlots(t) : x # w.rid => SameSlot(t, v, x)
      BY <1>4, <3>1
    <3>4. w.type = "UPDATE" /\ ~Present(v, w.rid)
      BY <1>4, <3>1
    <3>. QED  BY <1>2, <1>3, <1>8, <1>9, <2>1, <3>2, <3>3, <3>4, CanUndoOneMore
  <2>3. CASE ~Grows(t, rid, stmt.new)
    <3>1. /\ AllSlots(v) = AllSlots(t) /\ Rows(v) = Rows(t)
          /\ \A x \in AllSlots(t) : x # rid => SameSlot(t, v, x)
      BY <1>1, <1>2, <1>6, <2>3, OverwriteKeeps, OverwrittenRows DEF v
    <3>2. rid \in Rows(t) /\ \A x \in Rows(t) : x \in AllSlots(t)
      BY <1>2, <1>6, SlotIsThere
    <3>3. Changed(long) = Changed(ws) \cup {rid}
      BY <1>4, <1>8, WrittenSets
    <3>4. /\ Rest(t, ws) = Rest(v, long) \cup {rid} /\ rid \notin Rest(v, long)
      BY <1>10, <3>1, <3>2, <3>3 DEF Rest
    <3>5. \A x \in Rest(v, long) : getTuple(t, x) = getTuple(v, x)
      BY <3>1, <3>2, <3>3 DEF Rest, SameSlot
    <3>6. w.type # "INSERT" /\ getTuple(t, rid) = w.old
      BY <1>4 DEF met
    <3>7. Undone(t, ws) = Undone(v, long)
      BY <1>2, <1>8, <1>9, <3>4, <3>5, <3>6, UndoneBack
    <3>8. WriteFound(v, w)
      BY <1>4, <1>6, <1>7, <1>9, <3>1, SlotIsThere DEF WriteFound
    <3>9. \A x \in AllSlots(t) : x # w.rid => SameSlot(t, v, x)
      BY <1>4, <3>1
    <3>. QED  BY <1>2, <1>3, <1>8, <1>9, <2>1, <3>7, <3>8, <3>9, CanUndoOneMore
  <2>. QED  BY <2>2, <2>3
<1>12. Scanning' => \A n \in DOMAIN long : Before(long[n].rid, stmt'.pos)
  <2>1. "pos" \in DOMAIN stmt
    BY <1>1, <1>2 DEF StmtTyped
  <2>2. stmt' = [stmt EXCEPT !.pos = Ahead.pos] => stmt'.pos = Ahead.pos
    BY <2>1
  <2>3. stmt' = NoStmt => ~Scanning'
    BY NothingIsOpen DEF Scanning
  <2>. QED  BY <1>1, <1>5, <2>2, <2>3
<1>13. stmt'.op # "INSERT"
  <2>1. stmt' = [stmt EXCEPT !.pos = Ahead.pos] => stmt'.op = stmt.op
    BY <1>1, <1>2 DEF StmtTyped
  <2>. QED  BY <1>1, <2>1, NothingIsOpen
<1>. QED  BY <1>1, <1>2, <1>11, <1>12, <1>13, RowUndoable DEF long, ws

LEMMA DeleteRowUndoable ==
  ASSUME IInv, Held, Undoable, DeleteRow
  PROVE  Undoable'
<1>. DEFINE ws   == txn.writes
            rid  == Ahead.rid
            met  == getTuple(t, rid)
            w    == [type |-> "DELETE", rid |-> rid, old |-> met]
            long == Append(ws, w)
            v    == deleteTuple(t, rid)
<1>1. /\ Scanning /\ stmt.op = "DELETE" /\ stmt # NoStmt /\ rid # NoRID
      /\ t' = v /\ txn' = [txn EXCEPT !.writes = Append(@, w)] /\ before' = before
      /\ quiet' = (quiet /\ rid.slot # -1)
      /\ stmt' = NoStmt \/ stmt' = [stmt EXCEPT !.pos = Ahead.pos]
  BY NothingIsOpen DEF DeleteRow, Scanning, ChangeRow, StatementGoesOn
<1>2. /\ status = "running" /\ txn # NoTxn /\ Sound(t) /\ TxnHeld /\ StmtTyped
      /\ DOMAIN txn = {"id", "writes"}
  BY <1>1, HeldParts DEF Alive
<1>. SUFFICES ASSUME quiet' PROVE Undoable'
  BY NotQuiet
<1>3. /\ CanUndo(t, ws, before)
      /\ \A n \in DOMAIN ws : Before(ws[n].rid, stmt.pos)
  BY <1>1, <1>2, UndoableParts DEF Quietly
<1>4. /\ w.type = "DELETE" /\ w.rid = rid /\ w.old = met
  OBVIOUS
<1>5. /\ \A n \in DOMAIN ws : ws[n].rid \in AllSlots(t) /\ ws[n].rid # rid
      /\ \A n \in DOMAIN long : Before(long[n].rid, Ahead.pos)
  <2>. HIDE DEF w, rid
  <2>. QED  BY <1>1, <1>2, <1>3, <1>4, ScanBehind DEF rid
<1>6. rid \in AllSlots(t) /\ Present(t, rid)
  BY <1>1, <1>2, AheadPassed
<1>7. Fits(EmptyPage, met) /\ met \in Tuples
  BY <1>2, <1>6, RowFits
<1>8. WithWrite(ws, w, long)
  BY <1>2, WithAppended
<1>. HIDE DEF v, w, long, rid, ws, met
<1>9. /\ Sound(v) /\ AllSlots(v) = AllSlots(t) /\ ~Present(v, rid)
      /\ \A x \in AllSlots(t) : x # rid => SameSlot(t, v, x)
      /\ Rows(v) = Rows(t) \ {rid}
  BY <1>2, <1>6, DeleteTakes, DeletedRows DEF v
<1>10. rid \notin Changed(ws)
  BY <1>5 DEF Changed
<1>11. CanUndo(v, long, before)
  <2>1. /\ \A n \in DOMAIN ws : ws[n].rid \in AllSlots(t) /\ ws[n].rid # w.rid
        /\ \A x \in AllSlots(t) : x # w.rid => SameSlot(t, v, x)
    BY <1>4, <1>5, <1>9
  <2>2. rid \in Rows(t) /\ \A x \in Rows(t) : x \in AllSlots(t)
    BY <1>2, <1>6, SlotIsThere
  <2>3. Changed(long) = Changed(ws) \cup {rid}
    BY <1>4, <1>8, WrittenSets
  <2>4. /\ Rest(t, ws) = Rest(v, long) \cup {rid} /\ rid \notin Rest(v, long)
    BY <1>9, <1>10, <2>2, <2>3 DEF Rest
  <2>5. \A x \in Rest(v, long) : getTuple(t, x) = getTuple(v, x)
    BY <1>9, <2>2, <2>3 DEF Rest, SameSlot
  <2>6. w.type # "INSERT" /\ getTuple(t, rid) = w.old
    BY <1>4 DEF met
  <2>7. Undone(t, ws) = Undone(v, long)
    BY <1>2, <1>8, <1>9, <2>4, <2>5, <2>6, UndoneBack
  <2>8. WriteFound(v, w)
    BY <1>4, <1>6, <1>7, <1>9, SlotIsThere DEF WriteFound
  <2>. QED  BY <1>2, <1>3, <1>8, <1>9, <2>1, <2>7, <2>8, CanUndoOneMore
<1>12. Scanning' => \A n \in DOMAIN long : Before(long[n].rid, stmt'.pos)
  <2>1. "pos" \in DOMAIN stmt
    BY <1>1, <1>2 DEF StmtTyped
  <2>2. stmt' = [stmt EXCEPT !.pos = Ahead.pos] => stmt'.pos = Ahead.pos
    BY <2>1
  <2>3. stmt' = NoStmt => ~Scanning'
    BY NothingIsOpen DEF Scanning
  <2>. QED  BY <1>1, <1>5, <2>2, <2>3
<1>13. stmt'.op # "INSERT"
  <2>1. stmt' = [stmt EXCEPT !.pos = Ahead.pos] => stmt'.op = stmt.op
    BY <1>1, <1>2 DEF StmtTyped
  <2>. QED  BY <1>1, <2>1, NothingIsOpen
<1>. QED  BY <1>1, <1>2, <1>11, <1>12, <1>13, RowUndoable DEF long, ws

(* One write is undone.                                                    *)
LEMMA UndoRestores ==
  ASSUME NEW u, Sound(u), NEW v, Sound(v), NEW ws, NEW w, NEW long, WithWrite(ws, w, long),
         NEW rows, CanUndo(u, long, rows), \A n \in DOMAIN long : long[n].rid \in AllSlots(u),
         w.type \in {"INSERT", "UPDATE", "DELETE"}, w.old \in Tuples, v = undo(u, w),
         w.type = "UPDATE" => Present(u, w.rid),
         w.type = "DELETE" \/ (w.type = "UPDATE" /\ Grows(u, w.rid, w.old)) => Room(u, w.old)
  PROVE  CanUndo(v, ws, rows)
<1>. DEFINE rid == w.rid
            last == Len(ws) + 1
<1>1. /\ last \in DOMAIN long /\ long[last] = w
      /\ \A n \in DOMAIN ws : n \in DOMAIN long /\ n \in 1 .. last - 1 /\ long[n] = ws[n]
  BY DEF WithWrite
<1>2. WriteFound(u, w) /\ rid \in AllSlots(u)
  BY <1>1 DEF CanUndo, AllFound
<1>3. /\ rid \notin Changed(ws) /\ Changed(long) = Changed(ws) \cup {rid}
      /\ Changed(ws) \subseteq AllSlots(u)
  <2>1. \A m \in 1 .. last - 1 : long[m].rid # long[last].rid
    BY <1>1 DEF CanUndo, AllFound
  <2>2. \A n \in DOMAIN ws : ws[n].rid \in AllSlots(u) /\ ws[n].rid # rid
    BY <1>1, <2>1
  <2>3. Changed(long) = Changed(ws) \cup {rid}
    BY WrittenSets
  <2>. HIDE DEF rid
  <2>4. rid \notin Changed(ws) /\ Changed(ws) \subseteq AllSlots(u)
    BY <2>2 DEF Changed
  <2>. QED  BY <2>3, <2>4
<1>. HIDE DEF rid, last
<1>4. \A x \in Rows(u) : x \in AllSlots(u)
  BY SlotIsThere
<1>5. ASSUME \A x \in AllSlots(u) : x # rid => SameSlot(u, v, x), Undone(v, ws) = Undone(u, long)
      PROVE  CanUndo(v, ws, rows)
  <2>1. \A x \in AllSlots(u) : x # w.rid => SameSlot(u, v, x)
    BY <1>5 DEF rid
  <2>. QED  BY <1>5, <2>1, CanUndoOneLess
<1>6. CASE w.type = "INSERT"
  <2>1. v = deleteTuple(u, rid)
    BY <1>6 DEF undo, rid
  <2>2. /\ \A x \in AllSlots(u) : x # rid => SameSlot(u, v, x)
        /\ Rows(v) = Rows(u) \ {rid}
    BY <1>2, <2>1, DeleteTakes, DeletedRows
  <2>3. Rest(v, ws) = Rest(u, long)
    BY <1>3, <2>2 DEF Rest
  <2>4. \A x \in Rest(v, ws) : getTuple(v, x) = getTuple(u, x)
    BY <1>4, <2>2 DEF Rest, SameSlot
  <2>5. Undone(v, ws) = Undone(u, long)
    BY <1>6, <2>3, <2>4, UndoneSame
  <2>. QED  BY <1>5, <2>2, <2>5
(* A row is put back at a place that is not among the rows left alone.     *)
<1>7. ASSUME w.type # "INSERT", NEW place, Rest(v, ws) = Rest(u, long) \cup {place},
             place \notin Rest(u, long), getTuple(v, place) = w.old,
             \A x \in AllSlots(u) : x # rid => SameSlot(u, v, x)
      PROVE  CanUndo(v, ws, rows)
  <2>1. \A x \in Rest(u, long) : getTuple(v, x) = getTuple(u, x)
    BY <1>3, <1>4, <1>7 DEF Rest, SameSlot
  <2>2. Undone(v, ws) = Undone(u, long)
    BY <1>7, <2>1, UndoneBack
  <2>. QED  BY <1>5, <1>7, <2>2
<1>8. CASE w.type = "DELETE"
  <2>. DEFINE place == placeOf(u, w.old)
  <2>1. v = insertTuple(u, w.old) /\ Room(u, w.old) /\ Fits(EmptyPage, w.old) /\ ~Present(u, rid)
    BY <1>2, <1>8 DEF undo, WriteFound, rid
  <2>2. /\ Rows(v) = Rows(u) \cup {place} /\ place \notin AllSlots(u)
        /\ getTuple(v, place) = w.old
        /\ \A x \in AllSlots(u) : SameSlot(u, v, x)
    BY <2>1, InsertedRows
  <2>. HIDE DEF place
  <2>3. rid \notin Rows(u)
    BY <2>1, SlotIsThere
  <2>4. Rest(v, ws) = Rest(u, long) \cup {place} /\ place \notin Rest(u, long)
    BY <1>3, <1>4, <2>2, <2>3 DEF Rest
  <2>. QED  BY <1>7, <1>8, <2>2, <2>4
<1>9. CASE w.type = "UPDATE" /\ Grows(u, rid, w.old)
  <2>. DEFINE place == placeOf(u, w.old)
  <2>1. /\ v = updateTuple(u, rid, w.old) /\ Room(u, w.old) /\ Fits(EmptyPage, w.old)
        /\ Present(u, rid)
    BY <1>2, <1>9 DEF undo, WriteFound, rid
  <2>2. /\ Rows(v) = (Rows(u) \ {rid}) \cup {place} /\ place \notin AllSlots(u)
        /\ getTuple(v, place) = w.old
        /\ \A x \in AllSlots(u) : x # rid => SameSlot(u, v, x)
    BY <1>2, <1>9, <2>1, MovedRows, MoveAdds
  <2>. HIDE DEF place
  <2>3. Rest(v, ws) = Rest(u, long) \cup {place} /\ place \notin Rest(u, long)
    BY <1>3, <1>4, <2>2 DEF Rest
  <2>. QED  BY <1>7, <1>9, <2>2, <2>3
<1>10. CASE w.type = "UPDATE" /\ ~Grows(u, rid, w.old)
  <2>1. v = updateTuple(u, rid, w.old) /\ Present(u, rid)
    BY <1>10 DEF undo, rid
  <2>2. /\ Rows(v) = Rows(u) /\ getTuple(v, rid) = w.old
        /\ \A x \in AllSlots(u) : x # rid => SameSlot(u, v, x)
    BY <1>2, <1>10, <2>1, OverwriteKeeps, OverwrittenRows
  <2>3. rid \in Rows(u)
    BY <1>2, <2>1, SlotIsThere
  <2>4. Rest(v, ws) = Rest(u, long) \cup {rid} /\ rid \notin Rest(u, long)
    BY <1>3, <2>2, <2>3 DEF Rest
  <2>. QED  BY <1>7, <1>10, <2>2, <2>4
<1>. QED  BY <1>6, <1>8, <1>9, <1>10

LEMMA UndoWriteUndoable ==
  ASSUME IInv, Held, Undoable, UndoWrite
  PROVE  Undoable'
<1>. DEFINE s == txn.writes
            w == Last(s)
<1>1. /\ stmt.op = "rollback" /\ s # << >> /\ stmt # NoStmt
      /\ w.type = "UPDATE" => Present(t, w.rid)
      /\ w.type = "DELETE" \/ (w.type = "UPDATE" /\ Grows(t, w.rid, w.old)) => Room(t, w.old)
      /\ t' = undo(t, w) /\ txn' = [txn EXCEPT !.writes = Front(s)]
      /\ stmt' = stmt /\ status' = status /\ before' = before /\ quiet' = quiet
  BY NothingIsOpen DEF UndoWrite, Undoing, RoomFor, Room, history
<1>2. /\ status = "running" /\ txn # NoTxn /\ Sound(t) /\ TxnHeld
      /\ DOMAIN txn = {"id", "writes"} /\ s \in Seq(Range(s))
  BY <1>1, HeldParts DEF Alive, TxnHeld
<1>3. Sound(t')
  <2>1. Held'
    BY UndoWriteHeld
  <2>. QED  BY <1>1, <1>2, <2>1 DEF Held, TableHeld, Alive
<1>. SUFFICES ASSUME quiet PROVE Undoable'
  BY <1>1, NotQuiet
<1>4. CanUndo(t, s, before)
  BY <1>2, UndoableParts DEF Quietly
<1>5. \A n \in DOMAIN s : s[n].rid \in AllSlots(t)
  BY <1>2, <1>4, WritesOnTable DEF CanUndo
<1>6. WithWrite(Front(s), w, s)
  BY <1>1, <1>2, WithLast
<1>7. w.type \in {"INSERT", "UPDATE", "DELETE"} /\ w.old \in Tuples
  <2>1. \A n \in DOMAIN s : s[n].type \in {"INSERT", "UPDATE", "DELETE"} /\ s[n].old \in Tuples
    BY <1>2 DEF TxnHeld
  <2>2. \E n \in DOMAIN s : s[n] = w
    BY <1>6 DEF WithWrite
  <2>. HIDE DEF s, w
  <2>. QED  BY <2>1, <2>2
<1>8. txn'.writes = Front(s)
  BY <1>1, <1>2
<1>. HIDE DEF s, w
<1>9. CanUndo(t', Front(s), before)
  BY <1>1, <1>2, <1>3, <1>4, <1>5, <1>6, <1>7, UndoRestores
<1>10. stmt'.op # "INSERT" /\ ~Scanning'
  BY <1>1 DEF Scanning
<1>. DEFINE f == Front(s)
<1>11. /\ \A n \in DOMAIN f : WriteFound(t', f[n]) /\ \A m \in 1 .. n - 1 : f[m].rid # f[n].rid
       /\ Moved(t', f) \/ before = Undone(t', f)
  BY <1>9 DEF CanUndo, AllFound
<1>. HIDE DEF f
<1>12. txn'.writes = f /\ before' = before
  BY <1>1, <1>8 DEF f
<1>. QED  BY <1>10, <1>11, <1>12 DEF Undoable

(* With nothing written, the undo brings back the rows there are.          *)
LEMMA RowsUndone ==
  ASSUME NEW u, Sound(u)
  PROVE  Undone(u, << >>) = RowCount(u) /\ ~Moved(u, << >>)
<1>. DEFINE none == << >>
<1>1. DOMAIN none = {}
  OBVIOUS
<1>. HIDE DEF none
<1>2. Changed(none) = {} /\ ~Moved(u, none)
  BY <1>1 DEF Changed, Moved
<1>3. RowCount(u) = [x \in Tuples |-> Cardinality({rid \in Rows(u) : getTuple(u, rid) = x})]
  <2>1. \A x : {rid \in UNION {Slots(u, p) : p \in Range(Chain(u))} :
                  Present(u, rid) /\ getTuple(u, rid) = x}
               = {rid \in Rows(u) : getTuple(u, rid) = x}
    BY DEF Rows
  <2>. QED  BY <2>1 DEF RowCount
<1>4. ASSUME NEW x \in Tuples
      PROVE  Cardinality(LeftAlone(u, none, x)) + Cardinality(PutBack(none, x))
             = Cardinality({rid \in Rows(u) : getTuple(u, rid) = x})
  <2>1. LeftAlone(u, none, x) = {rid \in Rows(u) : getTuple(u, rid) = x}
    BY <1>2 DEF LeftAlone
  <2>2. PutBack(none, x) = {}
    BY <1>1 DEF PutBack
  <2>3. Cardinality(PutBack(none, x)) = 0
    BY <2>2, FS_EmptySet
  <2>4. Cardinality(LeftAlone(u, none, x)) \in Nat
    BY RestFinite
  <2>. QED  BY <2>1, <2>3, <2>4
<1>5. Undone(u, none) = RowCount(u)
  BY <1>3, <1>4 DEF Undone
<1>. QED  BY <1>2, <1>5 DEF none

(* A transaction that has changed no row.                                  *)
LEMMA NothingWritten ==
  ASSUME txn'.writes = << >>, before' = Undone(t', << >>)
  PROVE  Undoable'
<1>1. DOMAIN txn'.writes = {}
  OBVIOUS
<1>. QED  BY <1>1 DEF Undoable

LEMMA BeginsUndoable ==
  ASSUME Sound(t), t' = t, BeginTxn
  PROVE  Undoable'
<1>1. txn'.writes = << >> /\ before' = RowCount(t)
  BY DEF BeginTxn
<1>. QED  BY <1>1, RowsUndone, NothingWritten

LEMMA StartStatementUndoable ==
  ASSUME IInv, Held, Undoable, NEW s, StartStatement(s)
  PROVE  Undoable'
<1>1. t' = t /\ status = "running" /\ TxnOpened
  BY DEF StartStatement, Prompt
<1>2. Sound(t)
  BY <1>1, HeldParts DEF Alive
<1>3. CASE BeginTxn
  BY <1>1, <1>2, <1>3, BeginsUndoable
<1>4. CASE txn # NoTxn /\ quiet' = (quiet /\ txn.writes = << >>)
           /\ UNCHANGED <<txn, next_txn_id, log, faults, before>>
  <2>1. CASE ~quiet'
    BY <2>1, NotQuiet
  <2>2. CASE quiet'
    <3>1. quiet /\ txn.writes = << >> /\ txn'.writes = << >> /\ before' = before
      BY <1>4, <2>2
    <3>2. before = Undone(t, << >>)
      BY <1>1, <1>2, <1>4, <3>1, RowsUndone DEF Undoable
    <3>. QED  BY <1>1, <3>1, <3>2, NothingWritten
  <2>. QED  BY <2>1, <2>2
<1>. QED  BY <1>1, <1>3, <1>4 DEF TxnOpened

LEMMA InitUndoable == Init => Undoable
BY DEF Init, Undoable

LEMMA NextUndoable == IInv /\ Held /\ Undoable /\ [Next]_vars => Undoable'
<1>. SUFFICES ASSUME IInv, Held, Undoable, [Next]_vars PROVE Undoable'
  OBVIOUS
<1>1. CASE Begin
  <2>1. status = "running" /\ t' = t /\ BeginTxn
    BY <1>1 DEF Begin, Prompt
  <2>. QED  BY <2>1, HeldParts, BeginsUndoable DEF Alive
<1>2. CASE Commit \/ FinishRollback \/ Finish \/ NothingOpen \/ UndoFails \/ Crash
  <2>1. txn' = NoTxn
    BY <1>2 DEF Commit, FinishRollback, Finish, NothingOpen, UndoFails, Crash, Die, NoTxnLeft
  <2>. QED  BY <2>1, NotQuiet
<1>3. CASE Rollback
  <2>1. /\ t' = t /\ txn' = txn /\ status' = status /\ quiet' = quiet /\ before' = before
        /\ stmt'.op = "rollback"
    BY <1>3 DEF Rollback
  <2>. QED  BY <2>1 DEF Undoable, Scanning
<1>4. CASE UndoWrite
  BY <1>4, UndoWriteUndoable
<1>5. ASSUME NEW s \in Statements, StartStatement(WithScan(s)) PROVE Undoable'
  BY <1>5, StartStatementUndoable
<1>6. CASE InsertRow \/ UpdateRow \/ DeleteRow
  BY <1>6, InsertRowUndoable, UpdateRowUndoable, DeleteRowUndoable
<1>7. CASE PredicateFails
  <2>1. txn' = NoTxn \/ status' # "running"
    BY <1>7 DEF PredicateFails, Die, NoTxnLeft
  <2>. QED  BY <2>1, NotQuiet
<1>8. ASSUME NEW p \in DOMAIN t.view, Evict(p) PROVE Undoable'
  <2>1. txn' = NoTxn \/ ~quiet'
    BY <1>8 DEF Evict, memory
  <2>. QED  BY <2>1, NotQuiet
<1>9. CASE Exit \/ Close \/ Start \/ Replay \/ ReplayFails
  <2>1. txn' = NoTxn \/ status' # "running"
    BY <1>9 DEF Exit, Close, Start, Recovering, Replay, ReplayFails, Die, NoTxnLeft
  <2>. QED  BY <2>1, NotQuiet
<1>10. CASE FinishRecovery
  <2>1. txn' = NoTxn
    BY <1>10 DEF FinishRecovery, IInv, StatementOpen
  <2>. QED  BY <2>1, NotQuiet
<1>11. CASE UNCHANGED vars
  BY <1>11 DEF vars, memory, history, Undoable, Scanning
<1>. QED
  BY <1>1, <1>2, <1>3, <1>4, <1>5, <1>6, <1>7, <1>8, <1>9, <1>10, <1>11 DEF Next, Row

---------------------------------------------------------------------------
(* InsertsRecovered.  The table that opening the file again would give     *)
(* stays what it is while nothing is evicted; replaying the insertions of  *)
(* the log from there gives the tables the session had, as far as their    *)
(* rows go.                                                                *)
Reopened(u) == loadMetaData(Crashed(u))

Alike(u, v) == /\ u.view = v.view /\ u.first_page_id = v.first_page_id
               /\ u.last_page_id = v.last_page_id

(* Reopening reads nothing but the known pages' images in the file.        *)
LEMMA ReopenedIs ==
  ASSUME NEW u, DOMAIN u = TableFields
  PROVE  LET v     == Reopened(u)
             pages == Restrict(u.stored, u.known)
             meta  == pages[u.first_page_id].meta
         IN  /\ DOMAIN v = TableFields
             /\ v.view = pages /\ v.stored = pages /\ v.marked = {} /\ v.known = u.known
             /\ v.first_page_id = u.first_page_id /\ v.last_page_id = meta.last_page_id
             /\ v.starting_rid = meta.starting_rid /\ v.stopping_rid = meta.stopping_rid
<1>. DEFINE w == Crashed(u)
<1>1. /\ DOMAIN w = TableFields /\ w.view = Restrict(u.stored, u.known)
      /\ w.stored = Restrict(u.stored, u.known) /\ w.marked = {} /\ w.known = u.known
      /\ w.first_page_id = u.first_page_id
  BY DEF Crashed, TableFields
<1>2. Reopened(u) = loadMetaData(w)
  BY DEF Reopened
<1>. HIDE DEF w
<1>. QED  BY <1>1, <1>2 DEF loadMetaData, TableFields

LEMMA SameReopened ==
  ASSUME NEW u, DOMAIN u = TableFields, NEW v, DOMAIN v = TableFields,
         v.known = u.known, v.first_page_id = u.first_page_id,
         Restrict(v.stored, v.known) = Restrict(u.stored, u.known)
  PROVE  Reopened(v) = Reopened(u)
<1>. DEFINE a == Reopened(u)
            b == Reopened(v)
<1>1. /\ DOMAIN a = TableFields /\ DOMAIN b = TableFields
      /\ a.view = b.view /\ a.stored = b.stored /\ a.marked = b.marked /\ a.known = b.known
      /\ a.first_page_id = b.first_page_id /\ a.last_page_id = b.last_page_id
      /\ a.starting_rid = b.starting_rid /\ a.stopping_rid = b.stopping_rid
  BY ReopenedIs
<1>2. /\ a = [f \in DOMAIN a |-> a[f]] /\ b = [f \in DOMAIN b |-> b[f]]
  BY DEF Reopened, loadMetaData
<1>. HIDE DEF a, b
<1>3. \A f \in TableFields : a[f] = b[f]
  BY <1>1 DEF TableFields
<1>4. a = b
  BY <1>1, <1>2, <1>3
<1>. QED  BY <1>4 DEF a, b

(* A method leaves the file's images of the known pages alone, ...         *)
LEMMA ReopenedInMemory ==
  ASSUME NEW u, Sound(u), NEW v, InMemory(u, v)
  PROVE  Reopened(v) = Reopened(u)
<1>1. /\ DOMAIN u = TableFields /\ DOMAIN v = TableFields
      /\ v.known = u.known /\ v.first_page_id = u.first_page_id
      /\ u.known \subseteq DOMAIN u.view /\ DOMAIN u.stored = DOMAIN u.view
  BY SoundFields DEF InMemory
<1>2. \A p \in u.known : v.stored[p] = u.stored[p]
  BY <1>1 DEF InMemory
<1>3. Restrict(v.stored, v.known) = Restrict(u.stored, u.known)
  BY <1>1, <1>2 DEF Restrict
<1>. QED  BY <1>1, <1>3, SameReopened

(* ... a crash keeps them, and so does loading what rests in the file.     *)
LEMMA ReopenedAfterCrash ==
  ASSUME NEW u, DOMAIN u = TableFields
  PROVE  DOMAIN Crashed(u) = TableFields /\ Reopened(Crashed(u)) = Reopened(u)
<1>. DEFINE w == Crashed(u)
<1>1. /\ DOMAIN w = TableFields /\ w.known = u.known /\ w.first_page_id = u.first_page_id
      /\ w.stored = Restrict(u.stored, u.known)
  BY DEF Crashed, TableFields
<1>. HIDE DEF w
<1>2. Restrict(w.stored, w.known) = Restrict(u.stored, u.known)
  BY <1>1 DEF Restrict
<1>3. Reopened(w) = Reopened(u)
  BY <1>1, <1>2, SameReopened
<1>. QED  BY <1>1, <1>3 DEF w

LEMMA ReopenedAtRest ==
  ASSUME NEW u, AtRest(u)
  PROVE  LET v == loadMetaData(u)
         IN  /\ Reopened(v) = Reopened(u) /\ Alike(v, Reopened(u))
             /\ Reopened(u).view = u.view /\ v.known = u.known
<1>. DEFINE v == loadMetaData(u)
            w == Reopened(u)
<1>1. DOMAIN u = TableFields /\ u.stored = u.view /\ u.known = DOMAIN u.view
  BY DEF AtRest
<1>2. /\ DOMAIN v = TableFields /\ v.known = u.known /\ v.first_page_id = u.first_page_id
      /\ v.stored = u.stored /\ v.view = u.view
      /\ v.last_page_id = u.view[u.first_page_id].meta.last_page_id
  BY <1>1 DEF loadMetaData, TableFields
<1>3. Reopened(v) = Reopened(u)
  BY <1>1, <1>2, SameReopened
<1>4. /\ w.view = Restrict(u.stored, u.known) /\ w.first_page_id = u.first_page_id
      /\ w.last_page_id = Restrict(u.stored, u.known)[u.first_page_id].meta.last_page_id
  BY <1>1, ReopenedIs
<1>5. Restrict(u.stored, u.known) = u.view
  BY DEF AtRest
<1>. HIDE DEF v, w
<1>6. Alike(v, w)
  BY <1>2, <1>4, <1>5 DEF Alike
<1>. QED  BY <1>2, <1>3, <1>4, <1>5, <1>6 DEF v, w

(* What a method does to the rows depends on nothing else of a table.      *)
IsMap(m) == m = [p \in DOMAIN m |-> m[p]]

Table(u) == DOMAIN u = TableFields /\ IsMap(u.view)

LEMMA InsertAlike ==
  ASSUME NEW u, Table(u), NEW v, DOMAIN v = TableFields, Alike(u, v), NEW tuple
  PROVE  /\ Alike(insertTuple(u, tuple), insertTuple(v, tuple))
         /\ Table(insertTuple(u, tuple))
         /\ insertedRID(u, tuple) = insertedRID(v, tuple)
<1>. DEFINE ready(w)  == IF Fits(lastPage(w), tuple) THEN w ELSE extended(w)
            stored(w) == IF Fits(lastPage(ready(w)), tuple)
                         THEN Written(ready(w), ready(w).last_page_id,
                                      pageInsert(lastPage(ready(w)), tuple))
                         ELSE ready(w)
<1>1. /\ u.view = v.view /\ u.first_page_id = v.first_page_id
      /\ u.last_page_id = v.last_page_id
      /\ lastPage(u) = lastPage(v) /\ NewPageId(u) = NewPageId(v)
      /\ DOMAIN u = TableFields
  BY DEF Alike, lastPage, NewPageId, Table
<1>2. insertedRID(u, tuple) = insertedRID(v, tuple)
  BY <1>1 DEF insertedRID
<1>3. ASSUME NEW w, DOMAIN w = TableFields
      PROVE  LET x == extended(w)
             IN  /\ DOMAIN x = TableFields /\ x.first_page_id = w.first_page_id
                 /\ x.last_page_id = NewPageId(w)
                 /\ x.view = [Put(w.view, NewPageId(w), EmptyPage) EXCEPT
                                ![w.last_page_id] =
                                  [lastPage(w) EXCEPT !.next_page_id = NewPageId(w)]]
  BY <1>3 DEF extended, newPage, Extended, Written, Marked, TableFields
<1>4. /\ DOMAIN ready(u) = TableFields /\ DOMAIN ready(v) = TableFields
      /\ Alike(ready(u), ready(v))
  <2>1. CASE Fits(lastPage(u), tuple)
    BY <1>1, <2>1
  <2>2. CASE ~Fits(lastPage(u), tuple)
    <3>. DEFINE x == extended(u)
                y == extended(v)
    <3>a. /\ DOMAIN v = TableFields
          /\ x.first_page_id = u.first_page_id /\ x.last_page_id = NewPageId(u)
          /\ x.view = [Put(u.view, NewPageId(u), EmptyPage) EXCEPT
                         ![u.last_page_id] =
                           [lastPage(u) EXCEPT !.next_page_id = NewPageId(u)]]
      BY <1>1, <1>3
    <3>b. /\ y.first_page_id = v.first_page_id /\ y.last_page_id = NewPageId(v)
          /\ y.view = [Put(v.view, NewPageId(v), EmptyPage) EXCEPT
                         ![v.last_page_id] =
                           [lastPage(v) EXCEPT !.next_page_id = NewPageId(v)]]
      BY <3>a, <1>3
    <3>. HIDE DEF x, y
    <3>c. x.view = y.view /\ x.first_page_id = y.first_page_id
          /\ x.last_page_id = y.last_page_id
      BY <1>1, <3>a, <3>b
    <3>1. Alike(extended(u), extended(v))
      BY <3>c DEF Alike, x, y
    <3>. QED  BY <1>1, <1>3, <2>2, <3>1
  <2>. QED  BY <2>1, <2>2
<1>5. ASSUME NEW w PROVE insertTuple(w, tuple) =
        [Marked(stored(w), ready(w).last_page_id) EXCEPT
           !.starting_rid = IF @.page = -1 THEN insertedRID(w, tuple) ELSE @,
           !.stopping_rid = insertedRID(w, tuple)]
  BY DEF insertTuple
<1>. HIDE DEF ready
<1>6. lastPage(ready(u)) = lastPage(ready(v))
  BY <1>4 DEF Alike, lastPage
<1>7. /\ DOMAIN stored(u) = TableFields /\ DOMAIN stored(v) = TableFields
      /\ Alike(stored(u), stored(v))
  <2>1. CASE Fits(lastPage(ready(u)), tuple)
    BY <1>4, <1>6, <2>1 DEF Alike, Written, TableFields
  <2>2. CASE ~Fits(lastPage(ready(u)), tuple)
    BY <1>4, <1>6, <2>2
  <2>. QED  BY <2>1, <2>2
<1>. HIDE DEF stored
<1>8. ASSUME NEW w, DOMAIN stored(w) = TableFields
      PROVE  LET x == insertTuple(w, tuple)
             IN  /\ DOMAIN x = TableFields /\ x.view = stored(w).view
                 /\ x.first_page_id = stored(w).first_page_id
                 /\ x.last_page_id = stored(w).last_page_id
  BY <1>5, <1>8 DEF Marked, TableFields
<1>9. Alike(insertTuple(u, tuple), insertTuple(v, tuple))
  BY <1>7, <1>8 DEF Alike
<1>10. IsMap(insertTuple(u, tuple).view)
  <2>1. IsMap(ready(u).view)
    BY <1>1, <1>3 DEF ready, Table, IsMap
  <2>2. IsMap(stored(u).view)
    <3>1. CASE Fits(lastPage(ready(u)), tuple)
      BY <1>4, <3>1 DEF stored, Written, TableFields, IsMap
    <3>2. CASE ~Fits(lastPage(ready(u)), tuple)
      BY <2>1, <3>2 DEF stored
    <3>. QED  BY <3>1, <3>2
  <2>. QED  BY <1>7, <1>8, <2>2
<1>. QED  BY <1>2, <1>7, <1>8, <1>9, <1>10 DEF Table

LEMMA RowsAlike ==
  ASSUME NEW u, NEW v, u.view = v.view, u.first_page_id = v.first_page_id
  PROVE  RowCount(u) = RowCount(v)
<1>1. Walk(u) = Walk(v)
  BY DEF Walk
<1>2. Chain(u) = Chain(v)
  BY <1>1 DEF Chain
<1>3. \A p : Slots(u, p) = Slots(v, p)
  BY DEF Slots
<1>4. \A rid : (Present(u, rid) <=> Present(v, rid)) /\ getTuple(u, rid) = getTuple(v, rid)
  BY DEF Present, getTuple
<1>. QED  BY <1>2, <1>3, <1>4 DEF RowCount

(* The undo of an insertion that is not there finds nothing at its rid.    *)
LEMMA DeleteNothing ==
  ASSUME NEW u, Sound(u), IsMap(u.view), NEW tuple, NEW rid, rid = insertedRID(u, tuple),
         rid.page \in DOMAIN u.view
  PROVE  Alike(deleteTuple(u, rid), u)
<1>1. /\ DOMAIN u = TableFields /\ NewPageId(u) = u.last_page_id + 1
      /\ u.last_page_id \in Nat /\ DOMAIN u.view = 1 .. u.last_page_id
  BY SoundFields
<1>2. rid = [page |-> u.last_page_id, slot |-> Len(lastPage(u).slots)]
  BY <1>1 DEF insertedRID
<1>3. Len(lastPage(u).slots) \in Nat
  BY SoundFields, PageFields
<1>4. ~HasSlot(u.view[rid.page], rid.slot)
  BY <1>2, <1>3 DEF HasSlot, lastPage
<1>5. pageDelete(u.view[rid.page], rid.slot) = u.view[rid.page]
  BY <1>4 DEF pageDelete
<1>6. deleteTuple(u, rid) = [u EXCEPT !.view = [@ EXCEPT ![rid.page] = u.view[rid.page]]]
  BY <1>5 DEF deleteTuple, Written
<1>7. [u.view EXCEPT ![rid.page] = u.view[rid.page]] = u.view
  BY DEF IsMap
<1>. QED  BY <1>1, <1>6, <1>7 DEF Alike, TableFields

(* The tables that the insertions of a log make of the reopened one.       *)
Redoes(u, l, after) ==
  /\ after[0] = Reopened(u) /\ Table(after[0])
  /\ \A n \in 1 .. Len(l) :
       /\ Table(after[n])
       /\ after[n] = IF l[n].type = "INSERT" THEN insertTuple(after[n - 1], l[n].new)
                     ELSE after[n - 1]

Insertions == {i \in DOMAIN log : log[i].type = "INSERT"}

(* The first k records are those recovery redoes; behind them is at most   *)
(* one insertion, that of the open transaction.                            *)
Recovers(after, k) ==
  /\ Redoes(t, log, after) /\ k \in 0 .. Len(log)
  /\ \A i \in Insertions : /\ log[i].rid = insertedRID(after[i - 1], log[i].new)
                           /\ i <= k <=> Committed(log[i])
  /\ committed = RowCount(after[k])
  /\ \A i, j \in Insertions : i > k /\ j > k => i = j
  /\ status = "running" => \A i \in Insertions : i > k =>
       txn # NoTxn /\ log[i].txn = txn.id /\ stmt.op # "INSERT"
  /\ status = "running" /\ (txn = NoTxn \/ stmt.op # "none") => Alike(t, after[Len(log)])
  /\ status = "recovering" => Alike(t, after[IF redo - 1 < k THEN redo - 1 ELSE k])

Recoverable == pristine =>
  /\ stmt.op \in {"none", "INSERT", "done"} /\ status # "closing"
  /\ \A i \in DOMAIN log : log[i].type \in {"BEGIN", "INSERT", "COMMIT"}
  /\ status = "recovering" => t.known # {}
  /\ t.known # {} => \E after, k : Recovers(after, k)

(* Records that are not insertions leave the table what it is.             *)
NoInsertion(l, m, n) == \A i \in m + 1 .. n : l[i].type # "INSERT"

LEMMA NothingRedone ==
  ASSUME NEW u, NEW l, Len(l) \in Nat, NEW after, Redoes(u, l, after),
         NEW m \in 0 .. Len(l), NEW n \in 0 .. Len(l), m <= n, NoInsertion(l, m, n)
  PROVE  after[n] = after[m]
<1>. DEFINE bad == {i \in m .. n : after[i] # after[m]}
<1>1. SUFFICES ASSUME bad # {} PROVE FALSE
  BY <1>1
<1>2. bad \subseteq Nat
  OBVIOUS
<1>3. PICK i \in bad : \A j \in bad : i <= j
  BY <1>1, <1>2, LeastNumber
<1>4. i \in m .. n /\ after[i] # after[m]
  OBVIOUS
<1>5. i # m /\ i - 1 \in m .. n /\ i \in 1 .. Len(l) /\ i \in m + 1 .. n
  BY <1>4
<1>6. i - 1 \notin bad
  BY <1>3, <1>4
<1>7. after[i - 1] = after[m]
  BY <1>5, <1>6
<1>8. after[i] = after[i - 1]
  BY <1>5 DEF Redoes, NoInsertion
<1>. QED  BY <1>4, <1>7, <1>8

(* One more record.                                                        *)
OneMore(l, after, r, more) ==
  /\ \A n \in 0 .. Len(l) : more[n] = after[n]
  /\ more[Len(l) + 1] = IF r.type = "INSERT" THEN insertTuple(after[Len(l)], r.new)
                        ELSE after[Len(l)]

LEMMA RedoesOneMore ==
  ASSUME NEW u, NEW l, Len(l) \in Nat, NEW after, Redoes(u, l, after),
         NEW v, Reopened(v) = Reopened(u), NEW r, NEW long, Len(long) = Len(l) + 1,
         long[Len(l) + 1] = r, \A n \in 1 .. Len(l) : long[n] = l[n]
  PROVE  \E more : Redoes(v, long, more) /\ OneMore(l, after, r, more)
<1>. DEFINE next == IF r.type = "INSERT" THEN insertTuple(after[Len(l)], r.new)
                    ELSE after[Len(l)]
            more == [n \in 0 .. Len(l) + 1 |-> IF n <= Len(l) THEN after[n] ELSE next]
<1>1. Table(after[Len(l)])
  BY DEF Redoes
<1>2. Table(next)
  <2>1. Alike(after[Len(l)], after[Len(l)]) /\ DOMAIN after[Len(l)] = TableFields
    BY <1>1 DEF Alike, Table
  <2>. QED  BY <1>1, <2>1, InsertAlike
<1>. HIDE DEF next
<1>3. /\ \A n \in 0 .. Len(l) : more[n] = after[n]
      /\ more[Len(l) + 1] = next
  OBVIOUS
<1>. HIDE DEF more
<1>4. more[0] = Reopened(v) /\ Table(more[0])
  BY <1>3 DEF Redoes
<1>5. ASSUME NEW n \in 1 .. Len(long)
      PROVE  /\ Table(more[n])
             /\ more[n] = IF long[n].type = "INSERT" THEN insertTuple(more[n - 1], long[n].new)
                          ELSE more[n - 1]
  <2>1. CASE n \in 1 .. Len(l)
    <3>1. n - 1 \in 0 .. Len(l) /\ n \in 0 .. Len(l)
      BY <2>1
    <3>. QED  BY <1>3, <2>1, <3>1 DEF Redoes
  <2>2. CASE n = Len(l) + 1
    <3>1. n - 1 = Len(l) /\ Len(l) \in 0 .. Len(l)
      BY <2>2
    <3>. QED  BY <1>2, <1>3, <2>2, <3>1 DEF next
  <2>. QED  BY <2>1, <2>2
<1>6. Redoes(v, long, more)
  BY <1>4, <1>5 DEF Redoes
<1>7. OneMore(l, after, r, more)
  BY <1>3 DEF next, OneMore
<1>. QED  BY <1>6, <1>7

LEMMA CommittedKept ==
  ASSUME log \in Seq(Range(log)), NEW r, log' = Append(log, r), NEW i \in DOMAIN log
  PROVE  /\ Committed(log[i]) => Committed(log[i])'
         /\ r.type # "COMMIT" \/ log[i].txn # r.txn => (Committed(log[i])' <=> Committed(log[i]))
         /\ r.type = "COMMIT" /\ log[i].txn = r.txn => Committed(log[i])'
<1>1. /\ DOMAIN log = 1 .. Len(log) /\ DOMAIN log' = 1 .. Len(log) + 1 /\ Len(log) \in Nat
      /\ log'[Len(log) + 1] = r /\ \A j \in DOMAIN log : log'[j] = log[j]
  BY Appended
<1>2. DOMAIN log' = DOMAIN log \cup {Len(log) + 1}
  BY <1>1
<1>3. Len(log) + 1 \in DOMAIN log'
  BY <1>1
<1>. QED  BY <1>1, <1>2, <1>3 DEF Committed

LEMMA InsertionsAppended ==
  ASSUME log \in Seq(Range(log)), NEW r, log' = Append(log, r)
  PROVE  /\ Insertions' = IF r.type = "INSERT" THEN Insertions \cup {Len(log) + 1} ELSE Insertions
         /\ \A i \in Insertions : i \in 1 .. Len(log) /\ i \in DOMAIN log /\ log'[i] = log[i]
         /\ Len(log) \in Nat /\ Len(log') = Len(log) + 1 /\ log'[Len(log) + 1] = r
         /\ \A i \in 1 .. Len(log) : log'[i] = log[i]
<1>1. /\ DOMAIN log = 1 .. Len(log) /\ DOMAIN log' = 1 .. Len(log) + 1 /\ Len(log) \in Nat
      /\ Len(log') = Len(log) + 1
      /\ log'[Len(log) + 1] = r /\ \A j \in DOMAIN log : log'[j] = log[j]
  BY Appended
<1>2. DOMAIN log' = DOMAIN log \cup {Len(log) + 1} /\ Len(log) + 1 \notin DOMAIN log
  BY <1>1
<1>3. Insertions' = {i \in DOMAIN log' : log'[i].type = "INSERT"}
  BY DEF Insertions
<1>. QED  BY <1>1, <1>2, <1>3 DEF Insertions

(* A transaction begins: there is no insertion of another that is open.    *)
LEMMA BeginRecovers ==
  ASSUME NEW after, NEW k, Recovers(after, k), log \in Seq(Range(log)), NEW r,
         log' = Append(log, r), r.type = "BEGIN", t' = t, committed' = committed,
         status = "running", status' = status, txn = NoTxn
  PROVE  \E more : Recovers(more, k)'
<1>1. /\ Insertions' = Insertions
      /\ \A i \in Insertions : i \in 1 .. Len(log) /\ i \in DOMAIN log /\ log'[i] = log[i]
      /\ Len(log) \in Nat /\ Len(log') = Len(log) + 1 /\ log'[Len(log) + 1] = r
      /\ \A i \in 1 .. Len(log) : log'[i] = log[i]
  BY InsertionsAppended
<1>2. Redoes(t, log, after) /\ Reopened(t') = Reopened(t)
  BY DEF Recovers
<1>3. PICK more : /\ Redoes(t', log', more) /\ \A n \in 0 .. Len(log) : more[n] = after[n]
                  /\ more[Len(log) + 1] = after[Len(log)]
  <2>1. \E more : Redoes(t', log', more) /\ OneMore(log, after, r, more)
    BY <1>1, <1>2, RedoesOneMore
  <2>. QED  BY <2>1 DEF OneMore
<1>4. k \in 0 .. Len(log) /\ \A i \in Insertions : i <= k
  <2>1. \A i \in Insertions : ~(i > k)
    BY DEF Recovers
  <2>. QED  BY <1>1, <2>1 DEF Recovers
<1>5. ASSUME NEW i \in Insertions
      PROVE  /\ log'[i].rid = insertedRID(more[i - 1], log'[i].new)
             /\ (i <= k <=> Committed(log[i]))'
  <2>1. i - 1 \in 0 .. Len(log)
    BY <1>1
  <2>2. log[i].rid = insertedRID(after[i - 1], log[i].new) /\ (i <= k <=> Committed(log[i]))
    BY DEF Recovers
  <2>3. Committed(log[i])' <=> Committed(log[i])
    BY <1>1, CommittedKept
  <2>. QED  BY <1>1, <1>3, <2>1, <2>2, <2>3
<1>6. committed' = RowCount(more[k]) /\ Alike(t', more[Len(log')])
  <2>1. committed = RowCount(after[k]) /\ Alike(t, after[Len(log)])
    BY DEF Recovers
  <2>. QED  BY <1>1, <1>3, <1>4, <2>1
<1>7. k \in 0 .. Len(log')
  BY <1>1, <1>4
<1>8. \A i \in Insertions : ~(i > k)
  BY <1>1, <1>4
<1>9. Recovers(more, k)'
  BY <1>1, <1>3, <1>5, <1>6, <1>7, <1>8 DEF Recovers
<1>. QED  BY <1>9

(* A row is inserted and its record written.                               *)
LEMMA InsertRecovers ==
  ASSUME NEW after, NEW k, Recovers(after, k), log \in Seq(Range(log)), NEW r,
         log' = Append(log, r), r.type = "INSERT", r.txn = txn.id, DOMAIN t = TableFields,
         t' = insertTuple(t, r.new), r.rid = insertedRID(t, r.new),
         Reopened(t') = Reopened(t), committed' = committed,
         ~Committed(r), status = "running", status' = status, txn # NoTxn,
         txn' # NoTxn, txn'.id = txn.id, stmt.op = "INSERT", stmt'.op = "done"
  PROVE  \E more : Recovers(more, k)'
<1>0. PICK last : last = Len(log) + 1
  OBVIOUS
<1>1. /\ Insertions' = Insertions \cup {last}
      /\ \A i \in Insertions : i \in 1 .. Len(log) /\ i \in DOMAIN log /\ log'[i] = log[i]
      /\ Len(log) \in Nat /\ Len(log') = last /\ log'[last] = r
      /\ \A i \in 1 .. Len(log) : log'[i] = log[i]
  BY <1>0, InsertionsAppended
<1>2. Redoes(t, log, after)
  BY DEF Recovers
<1>3. PICK more : /\ Redoes(t', log', more) /\ \A n \in 0 .. Len(log) : more[n] = after[n]
                  /\ more[last] = insertTuple(after[Len(log)], r.new)
  <2>0. /\ Len(log) \in Nat /\ Len(log') = Len(log) + 1 /\ log'[Len(log) + 1] = r
        /\ \A i \in 1 .. Len(log) : log'[i] = log[i]
    BY <1>0, <1>1
  <2>1. \E more : Redoes(t', log', more) /\ OneMore(log, after, r, more)
    BY <1>2, <2>0, RedoesOneMore
  <2>. QED  BY <1>0, <2>1 DEF OneMore
<1>4. k \in 0 .. Len(log) /\ \A i \in Insertions : i <= k
  <2>1. \A i \in Insertions : ~(i > k)
    BY DEF Recovers
  <2>. QED  BY <1>1, <2>1 DEF Recovers
<1>5. ASSUME NEW i \in Insertions
      PROVE  /\ log'[i].rid = insertedRID(more[i - 1], log'[i].new)
             /\ (i <= k <=> Committed(log[i]))'
  <2>1. i - 1 \in 0 .. Len(log)
    BY <1>1
  <2>2. log[i].rid = insertedRID(after[i - 1], log[i].new) /\ (i <= k <=> Committed(log[i]))
    BY DEF Recovers
  <2>3. Committed(log[i])' <=> Committed(log[i])
    BY <1>1, CommittedKept
  <2>. QED  BY <1>1, <1>3, <2>1, <2>2, <2>3
<1>6. /\ Alike(t', more[last]) /\ r.rid = insertedRID(more[last - 1], r.new)
  <2>1. Alike(t, after[Len(log)])
    BY DEF Recovers
  <2>2. Table(after[Len(log)])
    BY <1>1, <1>2 DEF Redoes
  <2>3. Alike(after[Len(log)], t) /\ \A a, b : Alike(a, b) => Alike(b, a)
    BY <2>1 DEF Alike
  <2>4. /\ Alike(insertTuple(after[Len(log)], r.new), insertTuple(t, r.new))
        /\ insertedRID(after[Len(log)], r.new) = insertedRID(t, r.new)
    BY <2>2, <2>3, InsertAlike
  <2>5. more[last - 1] = after[Len(log)]
    BY <1>0, <1>1, <1>3
  <2>. QED  BY <1>3, <2>3, <2>4, <2>5
<1>7. ~Committed(log[last])'
  <2>1. DOMAIN log' = 1 .. Len(log) + 1 /\ DOMAIN log = 1 .. Len(log)
        /\ \A j \in DOMAIN log : log'[j] = log[j]
    BY Appended
  <2>2. \A j \in DOMAIN log : ~(log[j].type = "COMMIT" /\ log[j].txn = r.txn)
    BY DEF Committed
  <2>3. ASSUME NEW j \in DOMAIN log' PROVE ~(log'[j].type = "COMMIT" /\ log'[j].txn = r.txn)
    <3>1. j \in DOMAIN log \/ j = last
      BY <1>0, <1>1, <2>1
    <3>. QED  BY <1>1, <2>1, <2>2, <3>1
  <2>. QED  BY <1>1, <2>3 DEF Committed
<1>8. committed' = RowCount(more[k])
  BY <1>3, <1>4 DEF Recovers
<1>9. k \in 0 .. Len(log') /\ last > k /\ ~(last <= k) /\ \A i \in Insertions : ~(i > k)
  BY <1>0, <1>1, <1>4
<1>10. \A i \in Insertions' : /\ log'[i].rid = insertedRID(more[i - 1], log'[i].new)
                              /\ (i <= k <=> Committed(log[i]))'
  BY <1>1, <1>5, <1>6, <1>7, <1>9
<1>11. /\ \A i, j \in Insertions' : i > k /\ j > k => i = j
       /\ \A i \in Insertions' : i > k => log'[i].txn = txn'.id
  BY <1>1, <1>9
<1>12. Recovers(more, k)'
  BY <1>1, <1>3, <1>6, <1>8, <1>9, <1>10, <1>11 DEF Recovers
<1>. QED  BY <1>12

(* The statement's COMMIT makes the rows of the session those recovery     *)
(* restores.                                                               *)
LEMMA FinishRecovers ==
  ASSUME NEW after, NEW k, Recovers(after, k), log \in Seq(Range(log)), NEW r,
         log' = Append(log, r), r.type = "COMMIT", r.txn = txn.id, t' = t,
         committed' = RowCount(t), status = "running", status' = status,
         txn' = NoTxn, stmt.op = "done"
  PROVE  \E more, n : Recovers(more, n)'
<1>0. PICK last : last = Len(log) + 1
  OBVIOUS
<1>1. /\ Insertions' = Insertions
      /\ \A i \in Insertions : i \in 1 .. Len(log) /\ i \in DOMAIN log /\ log'[i] = log[i]
      /\ Len(log) \in Nat /\ Len(log') = last /\ log'[last] = r
      /\ \A i \in 1 .. Len(log) : log'[i] = log[i]
  BY <1>0, InsertionsAppended
<1>2. Redoes(t, log, after) /\ Reopened(t') = Reopened(t)
  BY DEF Recovers
<1>3. PICK more : /\ Redoes(t', log', more) /\ \A n \in 0 .. Len(log) : more[n] = after[n]
                  /\ more[last] = after[Len(log)]
  <2>0. /\ Len(log) \in Nat /\ Len(log') = Len(log) + 1 /\ log'[Len(log) + 1] = r
        /\ \A i \in 1 .. Len(log) : log'[i] = log[i]
    BY <1>0, <1>1
  <2>1. \E more : Redoes(t', log', more) /\ OneMore(log, after, r, more)
    BY <1>2, <2>0, RedoesOneMore
  <2>. QED  BY <1>0, <2>1 DEF OneMore
<1>4. ASSUME NEW i \in Insertions
      PROVE  /\ log'[i].rid = insertedRID(more[i - 1], log'[i].new)
             /\ Committed(log[i])'
  <2>1. i - 1 \in 0 .. Len(log)
    BY <1>1
  <2>2. /\ log[i].rid = insertedRID(after[i - 1], log[i].new) /\ (i <= k <=> Committed(log[i]))
        /\ i > k => log[i].txn = txn.id
    BY DEF Recovers
  <2>3. i <= k \/ i > k
    BY <1>1 DEF Recovers
  <2>4. /\ Committed(log[i]) => Committed(log[i])'
        /\ log[i].txn = r.txn => Committed(log[i])'
    BY <1>1, CommittedKept
  <2>. QED  BY <1>1, <1>3, <2>1, <2>2, <2>3, <2>4
<1>5. committed' = RowCount(more[last]) /\ Alike(t', more[last])
  <2>1. Alike(t, after[Len(log)])
    BY DEF Recovers
  <2>. QED  BY <1>3, <2>1, RowsAlike DEF Alike
<1>6. last \in 0 .. Len(log') /\ \A i \in Insertions : i <= last /\ ~(i > last)
  BY <1>0, <1>1
<1>7. Recovers(more, last)'
  BY <1>1, <1>3, <1>4, <1>5, <1>6 DEF Recovers
<1>. QED  BY <1>7

(* Nothing is logged.                                                      *)
LEMMA StaysRecovering ==
  ASSUME NEW after, NEW k, Recovers(after, k), log' = log, committed' = committed,
         Reopened(t') = Reopened(t),
         status' = "running" => /\ status = "running" /\ txn # NoTxn /\ txn' = txn
                                /\ stmt.op = "INSERT" /\ stmt'.op = "none",
         status' = "recovering" =>
           Alike(t', after[IF redo' - 1 < k THEN redo' - 1 ELSE k])
  PROVE  Recovers(after, k)'
<1>1. Redoes(t', log', after)
  BY DEF Recovers, Redoes
<1>2. Insertions' = Insertions /\ \A i \in Insertions : Committed(log[i])' <=> Committed(log[i])
  BY DEF Insertions, Committed
<1>. QED  BY <1>1, <1>2, NothingIsOpen DEF Recovers

LEMMA NotPristine == ASSUME ~pristine' PROVE Recoverable'
BY DEF Recoverable

LEMMA DieRecoverable ==
  ASSUME Held, Alive, Recoverable, Die, log' = log, committed' = committed,
         pristine' = pristine
  PROVE  Recoverable'
<1>. SUFFICES ASSUME pristine PROVE Recoverable'
  BY DEF Recoverable
<1>1. DOMAIN t = TableFields
  BY SoundFields DEF Held, TableHeld
<1>2. t' = Crashed(t) /\ status' = "down" /\ stmt' = NoStmt
  BY DEF Die
<1>3. Reopened(t') = Reopened(t) /\ t'.known = t.known
  BY <1>1, <1>2, ReopenedAfterCrash DEF Crashed, TableFields
<1>4. stmt'.op = "none"
  BY <1>2, NothingIsOpen
<1>5. ASSUME NEW after, NEW k, Recovers(after, k) PROVE Recovers(after, k)'
  BY <1>2, <1>3, <1>5, StaysRecovering
<1>. QED  BY <1>2, <1>3, <1>4, <1>5 DEF Recoverable

(* A record is written, or a write has failed.                             *)
LEMMA WrittenOrNot ==
  ASSUME faults \in Nat, NEW r, add_record(r)
  PROVE  IF LogFails THEN log' = log ELSE log' = Append(log, r)
<1>1. CASE log' = Append(log, r) /\ faults' = faults
  BY <1>1 DEF LogFails
<1>2. CASE faults' = faults + 1 /\ log' = log
  <2>1. faults' # faults
    BY <1>2
  <2>. QED  BY <1>2, <2>1 DEF LogFails
<1>. QED  BY <1>1, <1>2 DEF add_record

LEMMA BeginTxnRecoverable ==
  ASSUME IInv, faults \in Nat, Recoverable, pristine, status = "running", txn = NoTxn, BeginTxn,
         t' = t, committed' = committed, status' = status, ~LogFails,
         stmt'.op \in {"none", "INSERT"}
  PROVE  Recoverable'
<1>. DEFINE r == Bracket("BEGIN", next_txn_id)
<1>1. log \in Seq(Range(log)) /\ log' = Append(log, r) /\ r.type = "BEGIN"
  <2>1. log \in Seq(Range(log))
    BY DEF IInv, TxnTyped
  <2>2. log' = Append(log, r)
    BY WrittenOrNot DEF BeginTxn
  <2>3. r.type = "BEGIN"
    BY DEF Bracket, Record
  <2>. QED  BY <2>1, <2>2, <2>3
<1>. HIDE DEF r
<1>2. \A i \in DOMAIN log' : log'[i].type \in {"BEGIN", "INSERT", "COMMIT"}
  <2>1. /\ DOMAIN log = 1 .. Len(log) /\ DOMAIN log' = 1 .. Len(log) + 1 /\ Len(log) \in Nat
        /\ log'[Len(log) + 1] = r /\ \A i \in DOMAIN log : log'[i] = log[i]
    BY <1>1, Appended
  <2>2. \A i \in DOMAIN log' : i \in DOMAIN log \/ i = Len(log) + 1
    BY <2>1
  <2>. QED  BY <1>1, <2>1, <2>2 DEF Recoverable
<1>3. ASSUME NEW after, NEW k, Recovers(after, k) PROVE \E more : Recovers(more, k)'
  BY <1>1, <1>3, BeginRecovers
<1>. QED  BY <1>2, <1>3 DEF Recoverable

(* BEGIN, also when its record is not written.                             *)
LEMMA BeginRecoverable ==
  ASSUME IInv, faults \in Nat, Held, Recoverable, Begin
  PROVE  Recoverable'
<1>. SUFFICES ASSUME pristine PROVE Recoverable'
  BY DEF Begin, Recoverable
<1>1. /\ status = "running" /\ stmt = NoStmt /\ txn = NoTxn /\ BeginTxn
      /\ t' = t /\ stmt' = stmt /\ status' = status /\ committed' = committed
      /\ stmt.op = "none"
  BY NothingIsOpen DEF Begin, Prompt
<1>2. CASE ~LogFails
  BY <1>1, <1>2, BeginTxnRecoverable
<1>3. CASE LogFails
  <2>1. log' = log
    BY <1>1, <1>3, WrittenOrNot DEF BeginTxn
  <2>2. txn' # NoTxn
    BY <1>1, TxnBegun
  <2>3. ASSUME NEW after, NEW k, Recovers(after, k) PROVE Recovers(after, k)'
    <3>1. Redoes(t', log', after)
      BY <1>1, <2>1, <2>3 DEF Recovers
    <3>2. Insertions' = Insertions
          /\ \A i \in Insertions : Committed(log[i])' <=> Committed(log[i])
      BY <2>1 DEF Insertions, Committed
    <3>3. \A i \in Insertions : ~(i > k)
      BY <1>1, <2>3 DEF Recovers
    <3>. QED  BY <1>1, <2>1, <2>2, <2>3, <3>1, <3>2, <3>3 DEF Recovers
  <2>. QED  BY <1>1, <2>1, <2>3 DEF Recoverable
<1>. QED  BY <1>2, <1>3

LEMMA StartStatementRecoverable ==
  ASSUME IInv, faults \in Nat, Held, Recoverable, NEW s, StartStatement(s)
  PROVE  Recoverable'
<1>. SUFFICES ASSUME pristine' PROVE Recoverable'
  BY NotPristine
<1>1. /\ status = "running" /\ txn = NoTxn /\ BeginTxn /\ pristine
      /\ t' = t /\ status' = status /\ committed' = committed /\ stmt'.op = "INSERT"
  BY DEF StartStatement, Prompt, TxnOpened
<1>2. ~LogFails
  BY <1>1, NothingIsOpen DEF StartStatement
<1>. QED  BY <1>1, <1>2, BeginTxnRecoverable

LEMMA InsertRowRecoverable ==
  ASSUME IInv, faults \in Nat, Held, Recoverable, InsertRow
  PROVE  Recoverable'
<1>. SUFFICES ASSUME pristine PROVE Recoverable'
  BY DEF InsertRow, ChangeRow, Recoverable
<1>. DEFINE r == Record("INSERT", txn.id, insertedRID(t, stmt.new), Empty, stmt.new)
<1>1. /\ stmt.op = "INSERT" /\ t' = insertTuple(t, stmt.new) /\ Room(t, stmt.new)
      /\ status' = status /\ committed' = committed /\ pristine' = pristine
      /\ txn' = [txn EXCEPT !.writes = Append(@, [type |-> "INSERT",
                                                 rid |-> insertedRID(t, stmt.new),
                                                 old |-> Empty])]
      /\ add_record(r) /\ StatementGoesOn([op |-> "done"])
  BY DEF InsertRow, ChangeRow, RoomFor, Room
<1>2. /\ r.type = "INSERT" /\ r.txn = txn.id /\ r.new = stmt.new
      /\ r.rid = insertedRID(t, stmt.new)
  BY DEF Record
<1>. HIDE DEF r
<1>3. stmt # NoStmt
  BY <1>1, NothingIsOpen
<1>4. /\ status = "running" /\ txn # NoTxn /\ Sound(t) /\ log \in Seq(Range(log))
      /\ DOMAIN txn = {"id", "writes"}
  BY <1>3, HeldParts DEF Alive
<1>5. stmt.new \in Tuples
  BY <1>1, <1>3, HeldParts DEF StmtTyped
<1>6. InMemory(t, t') /\ Sound(t')
  BY <1>1, <1>4, <1>5, InsertMethod
<1>7. /\ Reopened(t') = Reopened(t) /\ t'.known = t.known /\ DOMAIN t = TableFields
  BY <1>4, <1>6, ReopenedInMemory, SoundFields DEF InMemory
<1>8. txn'.id = txn.id /\ txn.id # -1 /\ txn' # NoTxn
  <2>1. txn'.id = txn.id
    BY <1>1, <1>4
  <2>2. txn.id # -1
    BY <1>4, Open
  <2>. QED  BY <2>1, <2>2, NothingIsOpen
<1>9. CASE LogFails
  <2>1. log' = log /\ stmt' = NoStmt
    BY <1>1, <1>9, WrittenOrNot DEF StatementGoesOn
  <2>2. stmt'.op = "none"
    BY <2>1, NothingIsOpen
  <2>3. ASSUME NEW after, NEW k, Recovers(after, k) PROVE Recovers(after, k)'
    <3>1. Redoes(t', log', after)
      BY <1>7, <2>1, <2>3 DEF Recovers, Redoes
    <3>2. Insertions' = Insertions
          /\ \A i \in Insertions : Committed(log[i])' <=> Committed(log[i])
      BY <2>1 DEF Insertions, Committed
    <3>3. \A i \in Insertions : ~(i > k)
      BY <1>1, <1>4, <2>3 DEF Recovers
    <3>. QED  BY <1>1, <1>4, <1>8, <2>1, <2>2, <2>3, <3>1, <3>2, <3>3 DEF Recovers
  <2>. QED  BY <1>1, <1>4, <1>7, <2>1, <2>2, <2>3 DEF Recoverable
<1>10. CASE ~LogFails
  <2>1. log' = Append(log, r) /\ stmt' = [op |-> "done"]
    BY <1>1, <1>10, WrittenOrNot DEF StatementGoesOn
  <2>2. stmt'.op = "done"
    BY <2>1
  <2>3. ~Committed(r)
    <3>1. ASSUME NEW i \in DOMAIN log, log[i].type = "COMMIT", log[i].txn = txn.id
          PROVE  FALSE
      <4>1. DOMAIN log = 1 .. Len(log) /\ i \in i .. Len(log)
        BY <1>4, Appended, <2>1
      <4>. QED  BY <1>4, <3>1, <4>1 DEF IInv, OpenIsLast
    <3>. QED  BY <1>2, <3>1 DEF Committed
  <2>4. ASSUME NEW after, NEW k, Recovers(after, k) PROVE \E more : Recovers(more, k)'
    <3>1. t' = insertTuple(t, r.new) /\ r.rid = insertedRID(t, r.new)
      BY <1>1, <1>2
    <3>. QED  BY <1>1, <1>2, <1>4, <1>7, <1>8, <2>1, <2>2, <2>3, <2>4, <3>1, InsertRecovers
  <2>5. \A i \in DOMAIN log' : log'[i].type \in {"BEGIN", "INSERT", "COMMIT"}
    <3>1. /\ DOMAIN log = 1 .. Len(log) /\ DOMAIN log' = 1 .. Len(log) + 1 /\ Len(log) \in Nat
          /\ log'[Len(log) + 1] = r /\ \A i \in DOMAIN log : log'[i] = log[i]
      BY <1>4, <2>1, Appended
    <3>2. \A i \in DOMAIN log' : i \in DOMAIN log \/ i = Len(log) + 1
      BY <3>1
    <3>. QED  BY <1>2, <3>1, <3>2 DEF Recoverable
  <2>6. t'.known # {} => \E after, k : Recovers(after, k)'
    BY <1>7, <2>4 DEF Recoverable
  <2>. QED  BY <1>1, <1>4, <2>2, <2>5, <2>6 DEF Recoverable
<1>. QED  BY <1>9, <1>10

LEMMA FinishRecoverable ==
  ASSUME IInv, faults \in Nat, Held, Recoverable, Finish
  PROVE  Recoverable'
<1>. SUFFICES ASSUME pristine' PROVE Recoverable'
  BY NotPristine
<1>. DEFINE r == Bracket("COMMIT", txn.id)
<1>1. /\ pristine /\ ~LogFails /\ status = "running" /\ add_record(r)
      /\ t' = t /\ status' = status /\ txn' = NoTxn /\ stmt' = NoStmt
      /\ stmt.op = "done" \/ Scanning
  BY DEF Finish, NoTxnLeft
<1>2. committed' = RowCount(t)
  BY <1>1 DEF Finish
<1>3. stmt.op = "done"
  BY <1>1 DEF Recoverable, Scanning
<1>4. r.type = "COMMIT" /\ r.txn = txn.id
  BY DEF Bracket, Record
<1>. HIDE DEF r
<1>5. log \in Seq(Range(log)) /\ log' = Append(log, r)
  BY <1>1, HeldParts, WrittenOrNot
<1>6. ASSUME NEW after, NEW k, Recovers(after, k) PROVE \E more, n : Recovers(more, n)'
  BY <1>1, <1>2, <1>3, <1>4, <1>5, <1>6, FinishRecovers
<1>7. \A i \in DOMAIN log' : log'[i].type \in {"BEGIN", "INSERT", "COMMIT"}
  <2>1. /\ DOMAIN log = 1 .. Len(log) /\ DOMAIN log' = 1 .. Len(log) + 1 /\ Len(log) \in Nat
        /\ log'[Len(log) + 1] = r /\ \A i \in DOMAIN log : log'[i] = log[i]
    BY <1>5, Appended
  <2>2. \A i \in DOMAIN log' : i \in DOMAIN log \/ i = Len(log) + 1
    BY <2>1
  <2>. QED  BY <1>1, <1>4, <2>1, <2>2 DEF Recoverable
<1>8. stmt'.op = "none"
  BY <1>1, NothingIsOpen
<1>. QED  BY <1>1, <1>6, <1>7, <1>8 DEF Recoverable

(* After a clean close with an empty log the table is its own recovery.    *)
LEMMA CloseRecoverable ==
  ASSUME IInv, Held, Close
  PROVE  Recoverable'
<1>. SUFFICES ASSUME pristine' PROVE Recoverable'
  BY NotPristine
<1>1. /\ log = << >> /\ log' = log /\ committed = RowCount(t') /\ committed' = committed
      /\ t' = Closed(t) /\ status = "closing" /\ status' = "down" /\ stmt' = stmt
  BY DEF Close
<1>2. stmt'.op = "none"
  BY <1>1, NothingIsOpen DEF IInv, StatementOpen
<1>3. /\ Sound(t) /\ StopsAtEnd(t)
  BY <1>1 DEF Held, TableHeld, Alive
<1>4. AtRest(t')
  BY <1>1, <1>3, ClosedAtRest
<1>. DEFINE base == Reopened(t')
<1>5. PICK after : after[0] = base
  <2>. WITNESS [n \in {0} |-> base]
  <2>. QED  OBVIOUS
<1>6. /\ DOMAIN t' = TableFields /\ DOMAIN base = TableFields
      /\ base.view = Restrict(t'.stored, t'.known) /\ base.first_page_id = t'.first_page_id
  BY <1>4, ReopenedIs DEF AtRest
<1>7. base.view = t'.view
  BY <1>4, ReopenedAtRest
<1>8. RowCount(base) = RowCount(t')
  BY <1>6, <1>7, RowsAlike
<1>9. Table(base)
  BY <1>6 DEF Table, IsMap, Restrict
<1>. HIDE DEF base
<1>10. Len(log') = 0 /\ DOMAIN log' = {} /\ Insertions' = {}
  <2>1. DOMAIN log' = {} /\ Len(log') = 0
    BY <1>1
  <2>. QED  BY <2>1 DEF Insertions
<1>11. Redoes(t', log', after)
  BY <1>5, <1>9, <1>10 DEF Redoes, base
<1>12. Recovers(after, 0)'
  BY <1>1, <1>5, <1>8, <1>10, <1>11 DEF Recovers
<1>. QED  BY <1>1, <1>2, <1>10, <1>12 DEF Recoverable

LEMMA StartRecoverable ==
  ASSUME IInv, Held, Recoverable, Start
  PROVE  Recoverable'
<1>. SUFFICES ASSUME pristine PROVE Recoverable'
  BY DEF Start, history, Recoverable
<1>1. /\ status = "down" /\ log' = log /\ stmt' = stmt /\ committed' = committed /\ redo' = 1
      /\ pristine' = pristine
  BY DEF Start, history
<1>2. AtRest(t)
  BY <1>1 DEF Held, TableHeld
<1>3. CASE Readable
  <2>1. t' = loadMetaData(t) /\ status' = "recovering"
    BY <1>3 DEF Start
  <2>2. /\ Reopened(t') = Reopened(t) /\ Alike(t', Reopened(t)) /\ t'.known = t.known
    BY <1>2, <2>1, ReopenedAtRest
  <2>3. t.known # {}
    BY <1>2, <1>3 DEF Readable, AtRest
  <2>4. ASSUME NEW after, NEW k, Recovers(after, k) PROVE Recovers(after, k)'
    <3>1. k \in Nat /\ after[0] = Reopened(t)
      <4>1. k \in 0 .. Len(log)
        BY <2>4 DEF Recovers
      <4>. QED  BY <2>4, <4>1 DEF Recovers, Redoes
    <3>2. (IF redo' - 1 < k THEN redo' - 1 ELSE k) = 0
      BY <1>1, <3>1
    <3>. QED  BY <1>1, <2>1, <2>2, <2>4, <3>1, <3>2, StaysRecovering
  <2>. QED  BY <1>1, <2>1, <2>2, <2>3, <2>4 DEF Recoverable
<1>4. CASE ~Readable
  <2>1. t' = t /\ status' = "lost"
    BY <1>4 DEF Start
  <2>2. ASSUME NEW after, NEW k, Recovers(after, k) PROVE Recovers(after, k)'
    BY <1>1, <2>1, <2>2, StaysRecovering
  <2>. QED  BY <1>1, <2>1, <2>2 DEF Recoverable
<1>. QED  BY <1>3, <1>4

LEMMA ReplayFailsRecoverable ==
  ASSUME IInv, Held, Recoverable, ReplayFails
  PROVE  Recoverable'
<1>1. /\ status = "recovering" /\ log' = log /\ committed' = committed /\ pristine' = pristine
  BY DEF ReplayFails, Recovering
<1>2. CASE Die
  BY <1>1, <1>2, DieRecoverable DEF Alive
<1>3. CASE status' = "lost" /\ t' = t /\ stmt' = stmt
  <2>1. ASSUME NEW after, NEW k, Recovers(after, k) PROVE Recovers(after, k)'
    BY <1>1, <1>3, <2>1, StaysRecovering
  <2>. QED  BY <1>1, <1>3, <2>1 DEF Recoverable
<1>. QED  BY <1>2, <1>3 DEF ReplayFails

LEMMA FirstPending ==
  ASSUME IInv, Held, Recovering
  PROVE  \A i \in redo .. Len(log) : log[i].type = "INSERT" => Min(Pending) <= i
<1>1. Len(log) \in Nat /\ redo \in 1 .. Len(log) + 1
  BY HeldParts DEF LogTyped
<1>2. Pending # {} /\ Pending \in SUBSET Nat
  BY <1>1 DEF Recovering, Pending
<1>3. \E i \in Pending : \A j \in Pending : i <= j
  BY <1>2, LeastNumber
<1>4. \A j \in Pending : Min(Pending) <= j
  BY <1>3 DEF Min
<1>. QED  BY <1>4 DEF Pending

(* Recovery redoes the next insertion, or undoes nothing.                  *)
LEMMA ReplayRecovers ==
  ASSUME IInv, Held, Replay, NEW after, NEW k, Recovers(after, k),
         log[Min(Pending)].type = "INSERT"
  PROVE  Recovers(after, k)'
<1>1. PICK m : m = Min(Pending)
  OBVIOUS
<1>2. PICK r : r = log[m]
  OBVIOUS
<1>3. /\ Recovering /\ status = "recovering" /\ status' = status /\ log' = log
      /\ committed' = committed /\ redo' = m + 1 /\ PageKnown(r) /\ r.type = "INSERT"
      /\ ReplayInsert(r)
  BY <1>1, <1>2 DEF Replay, Recovering, history
<1>4. /\ m \in redo .. Len(log) /\ m \in DOMAIN log /\ r.rid \in RID /\ r.new \in Tuples
      /\ \A i \in redo .. Len(log) : log[i].type = "INSERT" => m <= i
  BY <1>1, <1>2, <1>3, NextRecord, FirstPending
<1>5. /\ Sound(t) /\ Len(log) \in Nat /\ redo \in 1 .. Len(log) + 1 /\ DOMAIN t = TableFields
      /\ DOMAIN log = 1 .. Len(log)
  BY <1>3, HeldParts, SoundFields, LenProperties DEF Alive, LogTyped
<1>. DEFINE at == IF redo - 1 < k THEN redo - 1 ELSE k
<1>6. /\ k \in 0 .. Len(log) /\ Redoes(t, log, after) /\ Alike(t, after[at])
      /\ r.rid = insertedRID(after[m - 1], r.new) /\ (m <= k <=> Committed(r))
      /\ \A i \in Insertions : i > k /\ m > k => i = m
  <2>1. m \in Insertions
    BY <1>2, <1>3, <1>4 DEF Insertions
  <2>. QED  BY <1>2, <1>3, <2>1 DEF Recovers
<1>7. /\ m - 1 \in 0 .. Len(log) /\ m \in 1 .. Len(log) /\ redo - 1 \in 0 .. Len(log)
      /\ at \in 0 .. Len(log) /\ m \in Int /\ redo \in Int /\ k \in Int /\ redo <= m
  BY <1>4, <1>5, <1>6
<1>8. \A i \in redo .. m - 1 : log[i].type # "INSERT"
  BY <1>4, <1>5, <1>7
<1>9. after[m - 1] = after[at]
  <2>1. NoInsertion(log, at, m - 1)
    <3>1. CASE redo - 1 < k
      <4>1. at + 1 = redo
        BY <1>7, <3>1
      <4>. HIDE DEF at
      <4>. QED  BY <1>8, <4>1 DEF NoInsertion
    <3>2. CASE ~(redo - 1 < k)
      <4>1. ASSUME NEW i \in at + 1 .. m - 1, log[i].type = "INSERT" PROVE FALSE
        <5>1. i > k /\ m > k /\ i # m /\ i \in 1 .. Len(log)
          BY <1>6, <1>7, <3>2, <4>1
        <5>2. i \in Insertions
          BY <1>5, <4>1, <5>1 DEF Insertions
        <5>. QED  BY <1>6, <5>1, <5>2
      <4>. HIDE DEF at
      <4>. QED  BY <4>1 DEF NoInsertion
    <3>. QED  BY <3>1, <3>2
  <2>2. at <= m - 1
    BY <1>7
  <2>. HIDE DEF at
  <2>. QED  BY <1>5, <1>6, <1>7, <2>1, <2>2, NothingRedone
<1>10. /\ Alike(t, after[m - 1]) /\ Alike(after[m - 1], t) /\ Table(after[m - 1])
       /\ after[m] = insertTuple(after[m - 1], r.new)
  <2>1. after[m] = insertTuple(after[m - 1], r.new)
    BY <1>2, <1>3, <1>6, <1>7 DEF Redoes
  <2>2. Table(after[m - 1])
    <3>1. m - 1 = 0 \/ m - 1 \in 1 .. Len(log)
      BY <1>7
    <3>. QED  BY <1>6, <3>1 DEF Redoes
  <2>. QED  BY <1>6, <1>9, <2>1, <2>2 DEF Alike
<1>11. CASE Committed(r)
  <2>1. m <= k /\ (IF redo' - 1 < k THEN redo' - 1 ELSE k) = m
    BY <1>3, <1>6, <1>7, <1>11
  <2>2. t' = insertTuple(t, r.new) /\ Room(t, r.new)
    BY <1>3, <1>11 DEF ReplayInsert, RoomFor, Room
  <2>3. InMemory(t, t')
    BY <1>4, <1>5, <2>2, InsertMethod
  <2>4. Alike(insertTuple(after[m - 1], r.new), insertTuple(t, r.new))
    BY <1>5, <1>10, InsertAlike
  <2>5. Alike(t', after[m])
    BY <1>10, <2>2, <2>4 DEF Alike
  <2>6. Reopened(t') = Reopened(t)
    BY <1>5, <2>3, ReopenedInMemory
  <2>. QED  BY <1>3, <2>1, <2>5, <2>6, StaysRecovering
<1>12. CASE ~Committed(r)
  <2>1. m > k /\ (IF redo' - 1 < k THEN redo' - 1 ELSE k) = k
    BY <1>3, <1>6, <1>7, <1>12
  <2>2. t' = deleteTuple(t, r.rid) /\ r.rid.page \in DOMAIN t.view
    BY <1>3, <1>12 DEF ReplayInsert, PageKnown, UsesRid
  <2>3. InMemory(t, t')
    BY <1>4, <1>5, <2>2, DeleteInMemory
  <2>4. Reopened(t') = Reopened(t)
    BY <1>5, <2>3, ReopenedInMemory
  <2>5. r.rid = insertedRID(t, r.new)
    BY <1>5, <1>6, <1>10, InsertAlike
  <2>6. IsMap(t.view)
    BY <1>10 DEF Alike, Table
  <2>7. Alike(t', t)
    BY <1>5, <2>2, <2>5, <2>6, DeleteNothing
  <2>8. after[m - 1] = after[k]
    <3>1. ASSUME NEW i \in k + 1 .. m - 1, log[i].type = "INSERT" PROVE FALSE
      <4>1. i > k /\ i # m /\ i \in 1 .. Len(log)
        BY <1>6, <1>7, <3>1
      <4>2. i \in Insertions
        BY <1>5, <3>1, <4>1 DEF Insertions
      <4>. QED  BY <1>6, <2>1, <4>1, <4>2
    <3>2. k <= m - 1
      BY <1>7, <2>1
    <3>3. NoInsertion(log, k, m - 1)
      BY <3>1 DEF NoInsertion
    <3>. QED  BY <1>5, <1>6, <1>7, <3>2, <3>3, NothingRedone
  <2>9. Alike(t', after[k])
    BY <1>10, <2>7, <2>8 DEF Alike
  <2>. QED  BY <1>3, <2>1, <2>4, <2>9, StaysRecovering
<1>. QED  BY <1>11, <1>12

LEMMA ReplayRecoverable ==
  ASSUME IInv, Held, Recoverable, Replay
  PROVE  Recoverable'
<1>. SUFFICES ASSUME pristine PROVE Recoverable'
  BY DEF Replay, history, Recoverable
<1>1. /\ Recovering /\ status = "recovering" /\ status' = status /\ log' = log /\ stmt' = stmt
      /\ pristine' = pristine
  BY DEF Replay, Recovering, history
<1>2. log[Min(Pending)].type = "INSERT"
  <2>1. /\ log[Min(Pending)].type \in {"INSERT", "UPDATE"} /\ Min(Pending) \in DOMAIN log
    BY <1>1, NextRecord
  <2>. QED  BY <2>1 DEF Recoverable
<1>3. t'.known = t.known
  <2>1. Sound(t) /\ log[Min(Pending)].rid \in RID /\ log[Min(Pending)].new \in Tuples
    BY <1>1, NextRecord, HeldParts DEF Alive
  <2>2. CASE Committed(log[Min(Pending)])
    <3>1. /\ t' = insertTuple(t, log[Min(Pending)].new) /\ Room(t, log[Min(Pending)].new)
      BY <1>2, <2>2 DEF Replay, ReplayInsert, RoomFor, Room
    <3>. QED  BY <2>1, <3>1, InsertMethod DEF InMemory
  <2>3. CASE ~Committed(log[Min(Pending)])
    <3>1. /\ t' = deleteTuple(t, log[Min(Pending)].rid)
          /\ log[Min(Pending)].rid.page \in DOMAIN t.view
      BY <1>2, <2>3 DEF Replay, ReplayInsert, PageKnown, UsesRid
    <3>. QED  BY <2>1, <3>1, DeleteInMemory DEF InMemory
  <2>. QED  BY <2>2, <2>3
<1>4. ASSUME NEW after, NEW k, Recovers(after, k) PROVE Recovers(after, k)'
  BY <1>2, <1>4, ReplayRecovers
<1>. QED  BY <1>1, <1>3, <1>4 DEF Recoverable

(* When nothing is left the table has the rows of the last commit.         *)
LEMMA RecoveryEnds ==
  ASSUME IInv, Held, Recoverable, pristine, status = "recovering", Pending = {}
  PROVE  /\ RowCount(t) = committed
         /\ log = << >> => \E after, k : Recovers(after, k) /\ Alike(t, after[0])
<1>1. PICK after, k : Recovers(after, k)
  BY DEF Recoverable
<1>2. /\ Len(log) \in Nat /\ redo \in 1 .. Len(log) + 1 /\ k \in 0 .. Len(log)
      /\ Redoes(t, log, after) /\ committed = RowCount(after[k])
      /\ Alike(t, after[IF redo - 1 < k THEN redo - 1 ELSE k])
  BY <1>1, HeldParts DEF Recovers, LogTyped
<1>. DEFINE at == IF redo - 1 < k THEN redo - 1 ELSE k
<1>3. at \in 0 .. Len(log) /\ k \in 0 .. Len(log) /\ at <= k /\ at + 1 \in Int
      /\ (at = k \/ at + 1 = redo)
  BY <1>2
<1>4. Alike(t, after[at])
  BY <1>2
<1>. HIDE DEF at
<1>5. NoInsertion(log, at, k)
  <2>1. \A i \in redo .. Len(log) : log[i].type # "INSERT"
    BY DEF Pending
  <2>2. \A i \in at + 1 .. k : i \in redo .. Len(log)
    BY <1>2, <1>3
  <2>. QED  BY <2>1, <2>2 DEF NoInsertion
<1>6. after[k] = after[at]
  BY <1>2, <1>3, <1>5, NothingRedone
<1>7. RowCount(t) = RowCount(after[k])
  BY <1>4, <1>6, RowsAlike DEF Alike
<1>8. ASSUME log = << >> PROVE Alike(t, after[0])
  <2>1. at = 0
    BY <1>3, <1>8
  <2>. QED  BY <1>4, <2>1
<1>. QED  BY <1>1, <1>2, <1>7, <1>8

LEMMA FinishRecoveryRecoverable ==
  ASSUME IInv, Held, Recoverable, FinishRecovery
  PROVE  Recoverable'
<1>. SUFFICES ASSUME pristine' PROVE Recoverable'
  BY NotPristine
<1>1. /\ status = "recovering" /\ status' = "running" /\ t' = t /\ stmt' = stmt
      /\ committed' = committed /\ log = << >> /\ log' = log /\ pristine /\ Pending = {}
  BY DEF FinishRecovery
<1>2. stmt' = NoStmt
  BY <1>1, HeldParts
<1>3. PICK after, k : Recovers(after, k) /\ Alike(t, after[0])
  BY <1>1, RecoveryEnds
<1>4. Len(log) = 0 /\ DOMAIN log = {} /\ Insertions = {} /\ Insertions' = {}
  <2>1. DOMAIN log = {} /\ Len(log) = 0
    BY <1>1
  <2>. QED  BY <1>1, <2>1 DEF Insertions
<1>5. Recovers(after, k)'
  <2>1. Redoes(t', log', after) /\ committed' = RowCount(after[k]) /\ k \in 0 .. Len(log')
    BY <1>1, <1>3 DEF Recovers
  <2>. QED  BY <1>1, <1>3, <1>4, <2>1 DEF Recovers
<1>. QED  BY <1>1, <1>2, <1>5, NothingIsOpen DEF Recoverable

LEMMA InitRecoverable == Init => Recoverable
<1>. SUFFICES ASSUME Init PROVE Recoverable
  OBVIOUS
<1>1. stmt.op = "none" /\ status = "running" /\ log = << >> /\ t = NewTable
  BY NothingIsOpen DEF Init
<1>2. t.known = {}
  <2>. DEFINE none  == [view |-> EmptyMap, stored |-> EmptyMap, marked |-> {}, known |-> {},
                        first_page_id |-> 1, last_page_id |-> 2,
                        starting_rid |-> NoRID, stopping_rid |-> NoRID]
              one   == newPage(none)
              pages == newPage(one)
  <2>1. none.known = {} /\ "known" \in DOMAIN none
    OBVIOUS
  <2>2. one.known = {} /\ DOMAIN one = DOMAIN none
    BY <2>1 DEF newPage, Extended
  <2>. HIDE DEF none
  <2>3. NewTable = Marked(Written(pages, 1, [EmptyPage EXCEPT !.next_page_id = 2]), 1)
    BY DEF NewTable, none
  <2>. HIDE DEF one
  <2>4. pages.known = {}
    BY <2>2 DEF newPage, Extended
  <2>. HIDE DEF pages
  <2>. QED  BY <1>1, <2>3, <2>4 DEF Marked, Written
<1>. QED  BY <1>1, <1>2 DEF Recoverable

LEMMA NextRecoverable ==
  IInv /\ faults \in Nat /\ Held /\ Recoverable /\ [Next]_vars => Recoverable'
<1>. SUFFICES ASSUME IInv, faults \in Nat, Held, Recoverable, [Next]_vars PROVE Recoverable'
  OBVIOUS
<1>1. CASE Begin
  BY <1>1, BeginRecoverable
<1>2. CASE Commit \/ Rollback \/ Exit
  BY <1>2, NotPristine DEF Commit, Rollback, Exit
<1>3. CASE NothingOpen \/ Crash
  <2>1. Alive /\ Die /\ log' = log /\ committed' = committed /\ pristine' = pristine
    BY <1>3 DEF NothingOpen, Crash, Prompt, Alive
  <2>. QED  BY <2>1, DieRecoverable
<1>4. CASE UndoWrite \/ UndoFails \/ FinishRollback
  <2>1. stmt.op = "rollback" /\ pristine' = pristine
    BY <1>4 DEF UndoWrite, UndoFails, FinishRollback, Undoing, history
  <2>2. ~pristine
    BY <2>1 DEF Recoverable
  <2>. QED  BY <2>1, <2>2, NotPristine
<1>5. ASSUME NEW s \in Statements, StartStatement(WithScan(s)) PROVE Recoverable'
  BY <1>5, StartStatementRecoverable
<1>6. CASE InsertRow
  BY <1>6, InsertRowRecoverable
<1>7. CASE UpdateRow \/ DeleteRow \/ PredicateFails
  <2>1. Scanning /\ pristine' = pristine
    BY <1>7 DEF UpdateRow, DeleteRow, ChangeRow, PredicateFails, Scanning, history
  <2>2. ~pristine
    BY <2>1 DEF Recoverable, Scanning
  <2>. QED  BY <2>1, <2>2, NotPristine
<1>8. CASE Finish
  BY <1>8, FinishRecoverable
<1>9. ASSUME NEW p \in DOMAIN t.view, Evict(p) PROVE Recoverable'
  BY <1>9, NotPristine DEF Evict
<1>10. CASE Close
  BY <1>10, CloseRecoverable
<1>11. CASE Start
  BY <1>11, StartRecoverable
<1>12. CASE Replay
  BY <1>12, ReplayRecoverable
<1>13. CASE ReplayFails
  BY <1>13, ReplayFailsRecoverable
<1>14. CASE FinishRecovery
  BY <1>14, FinishRecoveryRecoverable
<1>15. CASE UNCHANGED vars
  <2>1. /\ t' = t /\ log' = log /\ txn' = txn /\ stmt' = stmt /\ status' = status /\ redo' = redo
        /\ committed' = committed /\ pristine' = pristine
    BY <1>15 DEF vars, memory, history
  <2>2. \A after, k : Recovers(after, k) => Recovers(after, k)'
    BY <2>1 DEF Recovers, Insertions, Committed
  <2>. QED  BY <2>1, <2>2 DEF Recoverable
<1>. QED
  BY <1>1, <1>2, <1>3, <1>4, <1>5, <1>6, <1>7, <1>8, <1>9, <1>10, <1>11, <1>12, <1>13,
     <1>14, <1>15 DEF Next, Row

---------------------------------------------------------------------------
(* The results.                                                            *)

(* The invariant holds of every session, whatever fails or stops it.       *)
THEOREM Invariance == Spec => []IInv
BY InitIInv, NextIInv, PTL DEF Spec

(* What add_record has written under one id, between restarts and through  *)
(* failed writes, is one transaction's, from its BEGIN on and with nothing *)
(* of another between its changes: recover may decide by id.               *)
THEOREM SerialLog == Spec => []LogSerial
<1>1. IInv => LogSerial
  BY DEF IInv
<1>. QED  BY <1>1, Invariance, PTL

(* While a transaction is open, what ROLLBACK would undo is what recovery  *)
(* would, but for as many rows as there were failed writes: the executers  *)
(* enter a row in the write set before add_record, and in its order.       *)
THEOREM WritesLogged == Spec => []WriteSetIsLogged
<1>1. Tracked => WriteSetIsLogged
  BY DEF Tracked
<1>2. Init => IInv /\ Tracked
  BY InitIInv, InitTracked
<1>3. (IInv /\ Tracked) /\ [Next]_vars => (IInv /\ Tracked)'
  BY NextIInv, NextTracked
<1>. QED  BY <1>1, <1>2, <1>3, PTL DEF Spec

LEMMA AlwaysHeld == Spec => [](IInv /\ Held)
<1>1. Init => IInv /\ Held
  BY InitIInv, InitHeld
<1>2. (IInv /\ Held) /\ [Next]_vars => (IInv /\ Held)'
  BY NextIInv, NextHeld
<1>. QED  BY <1>1, <1>2, PTL DEF Spec

(* The types of a session.  While it is up, through rows that move, undone *)
(* transactions, evictions and recoveries, its table has the pages it names*)
(* as first and last, though recovery may find neither.                    *)
THEOREM TypeCorrect == Spec => []TypeOK
<1>1. IInv /\ Held => TypeOK
  <2>. SUFFICES ASSUME IInv, Held PROVE TypeOK
    OBVIOUS
  <2>1. IsTable(t) /\ TxnHeld /\ LogTyped
    BY DEF Held, TableHeld
  <2>2. Alive => {t.first_page_id, t.last_page_id} \subseteq DOMAIN t.view
    BY SoundFields DEF Held, TableHeld
  <2>3. stmt # NoStmt => txn # NoTxn
    BY DEF IInv, StatementOpen
  <2>. QED  BY <2>1, <2>2, <2>3 DEF TypeOK, Alive, Held, TxnHeld, LogTyped
<1>. QED  BY <1>1, AlwaysHeld, PTL

(* An UPDATE or DELETE that goes on has, after each row it changed, fewer  *)
(* rows ahead that would move, or as many of those and fewer rows at all:  *)
(* a scan that meets the tuples it moved to the end again still ends.      *)
THEOREM ScansEnd == Spec => StatementsShrink
<1>1. ASSUME IInv, Held, stmt' # NoStmt, UpdateRow \/ DeleteRow
      PROVE  Shrinks(t, stmt, t', stmt')
  BY <1>1, UpdateRowShrinks, DeleteRowShrinks
<1>2. IInv /\ Held =>
        [stmt' # NoStmt /\ (UpdateRow \/ DeleteRow) =>
           LET moving == Cardinality(ToMove(t, stmt))
               left   == Cardinality(ToMove(t', stmt'))
           IN  \/ left < moving
               \/ left = moving
                  /\ Cardinality(RowsAhead(t', stmt')) < Cardinality(RowsAhead(t, stmt))]_vars
  BY <1>1 DEF Shrinks
<1>. QED  BY <1>2, AlwaysHeld, PTL DEF StatementsShrink

LEMMA AlwaysUndoable == Spec => [](IInv /\ Held /\ Undoable)
<1>1. Init => IInv /\ Held /\ Undoable
  BY InitIInv, InitHeld, InitUndoable
<1>2. (IInv /\ Held /\ Undoable) /\ [Next]_vars => (IInv /\ Held /\ Undoable)'
  BY NextIInv, NextHeld, NextUndoable
<1>. QED  BY <1>1, <1>2, PTL DEF Spec

(* A ROLLBACK that is through has the rows there were when the transaction *)
(* began, each as often, if one statement changed them, no page was evicted*)
(* since and the undo survived: wherever rollback_write puts a row back.   *)
THEOREM RowsRestored == Spec => RollbackRestores
<1>1. ASSUME IInv, Held, Undoable, FinishRollback, quiet
      PROVE  RowCount(t) = before
  <2>1. stmt # NoStmt /\ txn.writes = << >>
    BY <1>1, NothingIsOpen DEF FinishRollback, Undoing
  <2>2. status = "running" /\ txn # NoTxn /\ Sound(t)
    BY <1>1, <2>1, HeldParts DEF Alive
  <2>3. Moved(t, << >>) \/ before = Undone(t, << >>)
    BY <1>1, <2>1, <2>2 DEF Undoable
  <2>. QED  BY <2>2, <2>3, RowsUndone
<1>2. IInv /\ Held /\ Undoable => [FinishRollback /\ quiet => RowCount(t) = before]_vars
  BY <1>1
<1>. QED  BY <1>2, AlwaysUndoable, PTL DEF RollbackRestores

LEMMA AlwaysRecoverable == Spec => [](IInv /\ Tracked /\ Held /\ Recoverable)
<1>1. Init => IInv /\ Tracked /\ Held /\ Recoverable
  BY InitIInv, InitTracked, InitHeld, InitRecoverable
<1>2. (IInv /\ Tracked /\ Held /\ Recoverable) /\ [Next]_vars
        => (IInv /\ Tracked /\ Held /\ Recoverable)'
  <2>1. Tracked => faults \in Nat
    BY DEF Tracked
  <2>. QED  BY <2>1, NextIInv, NextTracked, NextHeld, NextRecoverable
<1>. QED  BY <1>1, <1>2, PTL DEF Spec

(* A recovery that is through has the rows of the last commit, each as     *)
(* often, if only insertions were logged, each in a transaction of its own,*)
(* and no page was evicted, since a table with an empty log was loaded:    *)
(* however many crashes and interrupted recoveries there were.             *)
THEOREM RowsRecovered == Spec => InsertsRecovered
<1>1. ASSUME IInv, Held, Recoverable, FinishRecovery, pristine
      PROVE  RowCount(t') = committed
  <2>1. status = "recovering" /\ Pending = {} /\ t' = t
    BY <1>1 DEF FinishRecovery
  <2>2. RowCount(t) = committed
    BY <1>1, <2>1, RecoveryEnds
  <2>. QED  BY <2>1, <2>2
<1>2. IInv /\ Tracked /\ Held /\ Recoverable
        => [FinishRecovery /\ pristine => RowCount(t') = committed]_vars
  BY <1>1
<1>. QED  BY <1>2, AlwaysRecoverable, PTL DEF InsertsRecovered
=============================================================================
