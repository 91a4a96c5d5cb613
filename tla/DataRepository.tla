----------------------------- MODULE DataRepository -----------------------------
(***************************************************************************)
(* DataRepositoryService on one connection.  Callers share it and its      *)
(* transaction; each call holds the lock to its end, so calls follow one   *)
(* another, and only the database server comes in between the rows of an   *)
(* import.  External is the database: MySQL, which commits what is open    *)
(* when a transaction begins, drops it when the link is lost, and then     *)
(* fails one statement before the driver connects again; and SQLite, which *)
(* does not begin a transaction inside another.                            *)
(* A batch is the rows of one call; sql, names and values are left out,    *)
(* and an import without rows, which is answered at once.                  *)
(***************************************************************************)
EXTENDS Naturals

CONSTANTS Batches,     \* the calls that store something
          Imports,     \* those that are importRows, the others are execute
          Size         \* rows of each
ASSUME SizeAssumption ==
    /\ Size \in [Batches -> Nat \ {0}]
    /\ \A b \in Batches \ Imports : Size[b] = 1
Nobody == "nobody"
ASSUME NobodyAssumption == Nobody \notin Batches

VARIABLES
    mysql,     \* the driver is QMYSQL
    dbOpen,    \* the connection is open
    inTx,      \* a transaction is open
    gone,      \* the link was lost in a transaction: the next statement fails
    dbRows,    \* committed rows of each batch
    txRows,    \* rows of each batch in the open transaction
    answer,    \* what the call returned
    importing  \* the batch importRows is at
repositoryVars == <<mysql, dbOpen, inTx, gone, dbRows, txRows, answer, importing>>

None == [b \in Batches |-> 0]
Ready == importing = Nobody
Answered(b, a) == answer[b] = "none" /\ answer' = [answer EXCEPT ![b] = a]

RepositoryInit ==
    /\ mysql \in BOOLEAN
    /\ dbOpen = FALSE /\ inTx = FALSE /\ gone = FALSE
    /\ dbRows = None /\ txRows = None
    /\ answer = [b \in Batches |-> "none"]
    /\ importing = Nobody

\* The end of the open transaction, if there is one.
Keep == dbRows' = [b \in Batches |-> dbRows[b] + txRows[b]] /\ txRows' = None /\ inTx' = FALSE
Lose == dbRows' = dbRows /\ txRows' = None /\ inTx' = FALSE
Stay == UNCHANGED <<dbRows, txRows, inTx>>

(* ------------------------------ open and close ------------------------------ *)

\* open: it fails, or the connection is open -- also when the schema of the
\* default connection cannot be made and false is returned.  On the default
\* connection the schema is made again when it is open already: for that MySQL
\* commits what is open, and a statement that fails may cost it.
OpenDatabase(ok) ==
    /\ Ready
    /\ dbOpen' = (dbOpen \/ ok)
    /\ \/ Stay /\ gone' \in {gone, FALSE}
       \/ dbOpen /\ Lose /\ gone' = FALSE
       \/ dbOpen /\ mysql /\ ~gone /\ Keep /\ gone' = FALSE
    /\ UNCHANGED <<mysql, answer, importing>>

CloseDatabase ==
    /\ Ready /\ dbOpen
    /\ dbOpen' = FALSE /\ gone' = FALSE
    /\ Lose
    /\ UNCHANGED <<mysql, answer, importing>>

\* Every call on a connection that is not open, and every import whose names
\* or rows are not valid, is refused.
Refuse(b) ==
    /\ Ready /\ (dbOpen => b \in Imports)
    /\ Answered(b, "failed")
    /\ UNCHANGED <<mysql, dbOpen, inTx, gone, dbRows, txRows, importing>>

(* ------------------------------ statements ------------------------------ *)

\* execute of a statement that stores a row, in the transaction or alone.
ExecuteOk(b) ==
    /\ Ready /\ dbOpen /\ ~gone /\ b \notin Imports
    /\ Answered(b, "ok")
    /\ IF inTx THEN txRows' = [txRows EXCEPT ![b] = 1] /\ UNCHANGED dbRows
               ELSE dbRows' = [dbRows EXCEPT ![b] = 1] /\ UNCHANGED txRows
    /\ UNCHANGED <<mysql, dbOpen, inTx, gone, importing>>

\* A statement that fails may cost the transaction, as a deadlock does.
ExecuteFails(b) ==
    /\ Ready /\ dbOpen /\ b \notin Imports
    /\ Answered(b, "failed")
    /\ Stay \/ Lose
    /\ gone' = FALSE
    /\ UNCHANGED <<mysql, dbOpen, importing>>

(* ------------------------------ transactions ------------------------------ *)

\* BEGIN, when it succeeds
Begin ==
    /\ dbOpen /\ ~gone /\ (mysql \/ ~inTx)
    /\ dbRows' = [b \in Batches |-> dbRows[b] + txRows[b]] /\ txRows' = None
    /\ inTx' = TRUE
    /\ UNCHANGED <<mysql, dbOpen, gone>>

BeginTransaction == Ready /\ Begin /\ UNCHANGED <<answer, importing>>

\* commitTransaction; a commit that fails was done, was undone or is to do.
CommitTransaction(ok) ==
    /\ Ready /\ dbOpen /\ inTx
    /\ Keep \/ (~ok /\ (Lose \/ Stay))
    /\ UNCHANGED <<mysql, dbOpen, gone, answer, importing>>

RollbackTransaction ==
    /\ Ready /\ dbOpen /\ inTx
    /\ Lose
    /\ UNCHANGED <<mysql, dbOpen, gone, answer, importing>>

\* Begin, commit, rollback or a query after the link was lost.
TransactionCallFails ==
    /\ Ready /\ dbOpen /\ gone
    /\ gone' = FALSE
    /\ UNCHANGED <<mysql, dbOpen, inTx, dbRows, txRows, answer, importing>>

ServerDrops ==
    /\ mysql /\ dbOpen /\ inTx
    /\ Lose
    /\ gone' = TRUE
    /\ UNCHANGED <<mysql, dbOpen, answer, importing>>

(* ------------------------------ importRows ------------------------------ *)

BeginImport(b) ==
    /\ Ready /\ answer[b] = "none" /\ b \in Imports
    /\ Begin
    /\ importing' = b
    /\ UNCHANGED answer

ImportCannotBegin(b) ==
    /\ Ready /\ dbOpen /\ b \in Imports
    /\ Answered(b, "failed")
    /\ gone' = FALSE
    /\ UNCHANGED <<mysql, dbOpen, inTx, dbRows, txRows, importing>>

ImportRow ==
    /\ ~Ready /\ ~gone /\ txRows[importing] < Size[importing]
    /\ txRows' = [txRows EXCEPT ![importing] = @ + 1]
    /\ UNCHANGED <<mysql, dbOpen, inTx, gone, dbRows, answer, importing>>

\* Mutant: nothing is rolled back.
NoRollback == UNCHANGED <<dbRows, txRows, inTx>>
Rollback == Lose

\* A row that cannot be prepared, bound or stored.
ImportRowFails ==
    /\ ~Ready /\ txRows[importing] < Size[importing]
    /\ Rollback
    /\ gone' = FALSE
    /\ Answered(importing, "failed") /\ importing' = Nobody
    /\ UNCHANGED <<mysql, dbOpen>>

CommitImport ==
    /\ ~Ready /\ ~gone /\ txRows[importing] = Size[importing]
    /\ Keep
    /\ Answered(importing, "ok") /\ importing' = Nobody
    /\ UNCHANGED <<mysql, dbOpen, gone>>

\* A commit that fails is not followed by a rollback.
ImportCommitFails ==
    /\ ~Ready /\ txRows[importing] = Size[importing]
    /\ Keep \/ Lose \/ Stay
    /\ Answered(importing, "failed") /\ importing' = Nobody
    /\ UNCHANGED <<mysql, dbOpen, gone>>

RepositoryNext ==
    \/ \E ok \in BOOLEAN : OpenDatabase(ok) \/ CommitTransaction(ok)
    \/ CloseDatabase
    \/ \E b \in Batches : \/ Refuse(b) \/ ExecuteOk(b) \/ ExecuteFails(b)
                          \/ BeginImport(b) \/ ImportCannotBegin(b)
    \/ BeginTransaction \/ RollbackTransaction \/ TransactionCallFails \/ ServerDrops
    \/ ImportRow \/ ImportRowFails \/ CommitImport \/ ImportCommitFails
RepositorySpec == RepositoryInit /\ [][RepositoryNext]_repositoryVars

-----------------------------------------------------------------------------
(* The repository keeps its promise: whatever other callers, failures and  *)
(* the server do in between, no part of an import is ever stored alone, an *)
(* import that was answered with "ok" is stored, and answered batches that *)
(* are not stored yet are stored or lost together.  An import whose commit *)
(* failed is among those: it was reported as failed and stays in the       *)
(* transaction, which another caller ends.                                 *)
Atomic == INSTANCE AtomicImports WITH
    stored <- dbRows,
    open <- {b \in Batches : answer[b] # "none" /\ txRows[b] > 0}
ImportsAreAtomic == Atomic!ASpec
=============================================================================
