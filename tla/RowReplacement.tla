---------------------------- MODULE RowReplacement ----------------------------
(***************************************************************************)
(* Transactions that replace the rows of some tables: the old rows are     *)
(* deleted, table after table, then the new ones inserted, under the       *)
(* READ COMMITTED isolation of the database and a unique constraint per     *)
(* table.  Preferences and GameSimilarity are written this way.            *)
(***************************************************************************)
EXTENDS Naturals, FiniteSets, SequencesExt

CONSTANTS
    Writers,    \* the workers that run such a transaction
    Numbers     \* bound: the transactions told apart

ASSUME RowReplacementAssumption == Numbers \in Nat

VARIABLES
    rows,       \* the committed rows
    writer,     \* the transaction of each worker
    last        \* history: the last transaction that was committed

rowVars == <<rows, writer, last>>

\* A row is the value of a key in a table, and the transaction that wrote it.
Row(table, key, value) == [table |-> table, key |-> key, value |-> value]
Written(new, n) == [row |-> new, by |-> n]
Same(r, new) == r.row.table = new.table /\ r.row.key = new.key

NoWrite == [pc |-> "free"]
\* History of a transaction: its number; the tables it replaces; source, what its rows
\* come from; wanted, the rows it is to leave; beside, the transactions that were under
\* way at some time while it was.
Trace(w) == [number |-> w.number, tables |-> w.all, source |-> w.source,
             wanted |-> w.wanted, beside |-> w.beside \cap {r.by : r \in rows}]
NothingYet == [number |-> 0, tables |-> <<>>, source |-> {}, wanted |-> {}, beside |-> {}]
Others(p) == {q \in Writers \ {p} : writer[q] # NoWrite}

\* a number may be given again once no row has it
InUse == {r.by : r \in rows} \cup {last.number}
             \cup {writer[p].number : p \in {q \in Writers : writer[q] # NoWrite}}

RowReplacementTypeOK ==
    /\ \A r \in rows : r.by \in 1..Numbers
    /\ \A r, s \in rows : Same(r, s.row) => r = s     \* the unique constraints
    /\ InUse \subseteq 0..Numbers
    /\ \A p \in Writers : writer[p] = NoWrite \/
          /\ writer[p].pc \in {"delete", "lock", "insert"}
          /\ \A r \in writer[p].inserted : r.by = writer[p].number
          /\ writer[p].pc = "insert" <=> writer[p].tables = <<>>

RowReplacementInit ==
    /\ rows = {} /\ writer = [p \in Writers |-> NoWrite] /\ last = NothingYet

\* new: the rows to insert, a sequence for each statement
Start(p, tables, new, source) ==
    /\ writer[p] = NoWrite /\ (1..Numbers) \ InUse # {}
    /\ LET n == CHOOSE n \in (1..Numbers) \ InUse : TRUE
       IN writer' = [q \in Writers |->
              IF q = p THEN [pc |-> "delete", tables |-> tables, new |-> new, aim |-> {},
                             deleted |-> {}, inserted |-> {},
                             number |-> n, all |-> tables, source |-> source,
                             wanted |-> UNION {ToSet(new[i]) : i \in DOMAIN new},
                             beside |-> {writer[o].number : o \in Others(p)}]
              ELSE IF writer[q] = NoWrite THEN NoWrite
              ELSE [writer[q] EXCEPT !.beside = @ \cup {n}]]
    /\ UNCHANGED <<rows, last>>

\* DELETE: the statement takes the rows that are committed as it begins, ...
AimDelete(p) ==
    /\ writer[p].pc = "delete"
    /\ writer' = [writer EXCEPT ![p].pc = "lock",
                                ![p].aim = {r \in rows : r.row.table = Head(writer[p].tables)}]
    /\ UNCHANGED <<rows, last>>
\* ... waits for those that another transaction has deleted, and leaves out the ones that
\* are gone then.
Delete(p) ==
    LET w == writer[p]
    IN /\ w.pc = "lock"
       /\ \A q \in Others(p) : writer[q].deleted \cap w.aim = {}
       /\ writer' = [writer EXCEPT ![p].pc = IF Len(w.tables) = 1 THEN "insert" ELSE "delete",
                                   ![p].tables = Tail(@), ![p].aim = {},
                                   ![p].deleted = @ \cup (w.aim \cap rows)]
       /\ UNCHANGED <<rows, last>>

\* INSERT, one statement for each bulk_create: it waits while another transaction has
\* inserted or deleted a row of one of its keys, and a key that is there, or that comes
\* twice, is an error.  (A statement that waits halfway shows nothing to the others, and
\* if they wait for it the database aborts one.)
\* mutated form: the unique constraint covers one batch only
InsertableBatch(p, batch) == \A i, j \in DOMAIN batch : batch[i].key = batch[j].key => i = j
Insertable(p, batch) ==
    /\ \A i, j \in DOMAIN batch : batch[i].key = batch[j].key => i = j
    /\ \A new \in ToSet(batch) :
          /\ \A q \in Others(p) : \A r \in writer[q].inserted \cup writer[q].deleted : ~Same(r, new)
          /\ \A r \in (rows \ writer[p].deleted) \cup writer[p].inserted : ~Same(r, new)
\* No rows, no statement.
NextBatch(new, i) == new[i] # <<>> /\ \A j \in DOMAIN new : j < i => new[j] = <<>>
\* mutated form: outside a transaction, each statement is committed by itself
InsertAndCommitRows(p) ==
    LET w == writer[p]
    IN /\ w.pc = "insert"
       /\ \E i \in DOMAIN w.new :
            /\ NextBatch(w.new, i) /\ Insertable(p, w.new[i])
            /\ rows' = (rows \ w.deleted) \cup {Written(new, w.number) : new \in ToSet(w.new[i])}
            /\ writer' = [writer EXCEPT ![p].new[i] = <<>>, ![p].deleted = {}]
       /\ last' = Trace(w)
InsertRows(p) ==
    LET w == writer[p]
    IN /\ w.pc = "insert"
       /\ \E i \in DOMAIN w.new :
            /\ NextBatch(w.new, i) /\ Insertable(p, w.new[i])
            /\ writer' = [writer EXCEPT ![p].new[i] = <<>>,
                   ![p].inserted = @ \cup {Written(new, w.number) : new \in ToSet(w.new[i])}]
       /\ UNCHANGED <<rows, last>>

Commit(p) ==
    LET w == writer[p]
    IN /\ w.pc = "insert" /\ \A i \in DOMAIN w.new : w.new[i] = <<>>
       /\ rows' = (rows \ w.deleted) \cup w.inserted
       /\ writer' = [writer EXCEPT ![p] = NoWrite]
       /\ last' = Trace(w)

\* A unique constraint, a deadlock the database breaks, a worker that dies
Abort(p) ==
    /\ writer[p] # NoWrite
    /\ writer' = [writer EXCEPT ![p] = NoWrite]
    /\ UNCHANGED <<rows, last>>

Statement == \E p \in Writers : AimDelete(p) \/ Delete(p) \/ InsertRows(p) \/ Commit(p) \/ Abort(p)

-----------------------------------------------------------------------------
(* Properties *)

\* What the last transaction committed is all there, whatever the others that were under
\* way deleted or inserted, and whether or not they were completed.
LastIsWhole == \A new \in last.wanted : Written(new, last.number) \in rows

\* "Replace" holds only for transactions one after the other: a row that the last one
\* did not write is left over from one that was under way beside it.  Two requests at
\* the same time may leave the union of what they wrote, never anything older.
LeftoversAreConcurrent == \A r \in rows : r.by = last.number \/ r.by \in last.beside

\* What replace_preferences and the rebuild of similarities keep of "replace" when
\* transactions overlap: nothing new is lost and nothing old stays.
ReplacementIsWhole == LastIsWhole /\ LeftoversAreConcurrent
=============================================================================
