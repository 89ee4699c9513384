------------------------------- MODULE Paging -------------------------------
(***************************************************************************)
(* The rows of one job in documents or mapped_urls, and the pages that the *)
(* list statements of internal/store/store.go return of them.              *)
(*                                                                         *)
(* Rows are added by transactions of the workers: a document in one of its *)
(* own, the links of a map page in one together.  A row gets its id from a *)
(* sequence when it is inserted and its created_at from the start of the   *)
(* transaction, and is visible from the commit: three orders that differ.  *)
(***************************************************************************)
EXTENDS Integers, FiniteSets, SequencesExt

CONSTANTS
  Writers,  \* transactions that add rows
  Batch,    \* per transaction, the number of rows it inserts
  Limit,    \* limit of the list requests, 1 .. 500
  SortBy    \* their sort_by

ASSUME PagingAssumption ==
  /\ IsFiniteSet(Writers)
  /\ Batch \in [Writers -> Nat \ {0}]
  /\ Limit \in 1 .. 500

VARIABLES
  txn,      \* per transaction, its state, the ids of its rows and its start
  nextRow,  \* the BIGSERIAL sequence
  gone      \* the job was deleted

pagingVars == <<txn, nextRow, gone>>

PagingInit ==
  /\ txn = [w \in Writers |-> [pc |-> "idle", ids |-> {}, began |-> 0]]
  /\ nextRow = 1
  /\ gone = FALSE

PagingTypeOK ==
  /\ txn \in [Writers -> [pc    : {"idle", "open", "committed", "aborted"},
                          ids   : SUBSET (Nat \ {0}),
                          began : Nat]]
  /\ nextRow \in Nat \ {0}
  /\ gone \in BOOLEAN

-----------------------------------------------------------------------------
(* The writers, which are the workers and the cleanup loop.                *)

Begin(w) ==
  /\ txn[w].pc = "idle"
  /\ txn' = [txn EXCEPT ![w].pc = "open",
                        ![w].began = 1 + Cardinality({v \in Writers : txn[v].pc # "idle"})]
  /\ UNCHANGED <<nextRow, gone>>

\* The foreign key rejects a row of a job that is gone.
InsertRow(w) ==
  /\ txn[w].pc = "open" /\ Cardinality(txn[w].ids) < Batch[w] /\ ~gone
  /\ txn' = [txn EXCEPT ![w].ids = @ \union {nextRow}]
  /\ nextRow' = nextRow + 1
  /\ UNCHANGED gone

Commit(w) ==
  /\ txn[w].pc = "open" /\ Cardinality(txn[w].ids) = Batch[w]
  /\ txn' = [txn EXCEPT ![w].pc = "committed"]
  /\ UNCHANGED <<nextRow, gone>>

\* A statement failed or the worker died: the ids are used up.
Rollback(w) ==
  /\ txn[w].pc = "open"
  /\ txn' = [txn EXCEPT ![w].pc = "aborted", ![w].ids = {}]
  /\ UNCHANGED <<nextRow, gone>>

\* Cleanup deletes the job and its rows; it waits for the transactions whose rows
\* refer to the job.
DeleteJob ==
  /\ ~gone
  /\ \A w \in Writers : txn[w].pc = "open" => txn[w].ids = {}
  /\ gone' = TRUE
  /\ UNCHANGED <<txn, nextRow>>

WriterStep == DeleteJob \/ \E w \in Writers : Begin(w) \/ InsertRow(w) \/ Commit(w) \/ Rollback(w)

-----------------------------------------------------------------------------
(* What a list statement sees.                                             *)

Stored ==
  IF gone THEN {} ELSE UNION {txn[w].ids : w \in {v \in Writers : txn[v].pc = "committed"}}

created_at(i) == txn[CHOOSE w \in Writers : i \in txn[w].ids].began

\* documentOrderColumn, mapOrderColumn: a name they do not know stands for id.  The
\* columns that hold a URL are left out: like created_at, their order is not that of
\* the ids.
orderColumn == IF SortBy = "created_at" THEN "created_at" ELSE "id"

\* makeOrderClause: by the column and then by id, both in the same direction.
Before(i, j, sort) ==
  LET Ascending(a, b) ==
        \/ orderColumn = "id" /\ a < b
        \/ /\ orderColumn = "created_at"
           /\ \/ created_at(a) < created_at(b)
              \/ created_at(a) = created_at(b) /\ a < b
  IN  IF sort = "desc" THEN Ascending(j, i) ELSE Ascending(i, j)

\* Mutant: >= instead of >.
After_Inclusive(cursor, sort) ==
  IF cursor = 0 THEN Stored
  ELSE {i \in Stored : IF sort = "desc" THEN i <= cursor ELSE i >= cursor}

\* The WHERE clause: the handlers take a cursor of 0 for none.
After(cursor, sort) ==
  IF cursor = 0 THEN Stored
  ELSE {i \in Stored : IF sort = "desc" THEN i < cursor ELSE i > cursor}

\* How many of the rows come before i.
Rank(i, rows, sort) == Cardinality({k \in rows : Before(k, i, sort)})

\* ORDER BY: every row at the place of its rank.
Sorted(rows, sort) ==
  [n \in 1 .. Cardinality(rows) |-> CHOOSE i \in rows : Rank(i, rows, sort) = n - 1]

\* Mutant: the page is cut before it is sorted.
PageOf_CutFirst(cursor, sort) ==
  LET all == After(cursor, sort)
  IN  Sorted({i \in all : Cardinality({k \in all : k < i}) < Limit}, sort)

\* ListDocuments, ListDocumentsAfter, ListMapped, ListMappedAfter.
PageOf(cursor, sort) ==
  LET all == After(cursor, sort)
  IN  Sorted({i \in all : Rank(i, all, sort) < Limit}, sort)

=============================================================================
