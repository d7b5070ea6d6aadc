------------------------------ MODULE SyncBlobs ------------------------------
(***************************************************************************)
(* The sync_blobs table of one user and the SQL statements that read and   *)
(* write it (backend/internal/repository/sync_blob_repository.go).  Every  *)
(* statement filters on user_id, so the rows of different users never      *)
(* meet; an Item stands for a pair (item_type, item_id).                   *)
(*                                                                         *)
(* A row keeps what the statements look at: the version the client sent    *)
(* and the ciphertext (content).                                           *)
(***************************************************************************)
EXTENDS Integers, FiniteSets, FiniteSetsExt

CONSTANTS Item,    \* primary keys (item_type, item_id) of the user's rows
          Content, \* ciphertexts
          NoRow    \* "there is no row with this key"

Row == [version : Nat, content : Content]

ASSUME NoRowAssumption == NoRow \notin Row

\* The user has finitely many notes, tags, collections, contents and images.
ASSUME ItemAssumption == IsFiniteSet(Item)

\* Rows with version > since.
Newer(rows, since) ==
  {i \in Item : rows[i] # NoRow /\ rows[i].version > since}

\* Mutant: the query without its ORDER BY.
PullUnordered(rows, since, limit) ==
  LET candidates == Newer(rows, since)
  IN  {page \in SUBSET candidates :
         Cardinality(page) = Min({limit, Cardinality(candidates)})}

(***************************************************************************)
(* SELECT ... WHERE version > since ORDER BY version ASC LIMIT limit.  The *)
(* order has no tie-breaker, so the rows that share the last version on    *)
(* the page are any of the candidates: the result is one of these sets.    *)
(***************************************************************************)
PullSincePaginated(rows, since, limit) ==
  LET candidates == Newer(rows, since)
      size == Min({limit, Cardinality(candidates)})
  IN  {page \in SUBSET candidates :
         /\ Cardinality(page) = size
         /\ \A i \in page, j \in candidates \ page :
              rows[i].version <= rows[j].version}

HasMoreSince(rows, since) == Newer(rows, since) # {}

Versions(rows) == {rows[i].version : i \in {j \in Item : rows[j] # NoRow}}

\* Mutant: the lowest version instead of the highest.
GetLowestVersion(rows) ==
  IF Versions(rows) = {} THEN 0 ELSE Min(Versions(rows))

\* Mutant: the MAX of no rows is not read as 0.
GetLatestVersionNull(rows) ==
  IF Versions(rows) = {} THEN -1 ELSE Max(Versions(rows))

\* SELECT MAX(version), NULL read as 0.
GetLatestVersion(rows) ==
  IF Versions(rows) = {} THEN 0 ELSE Max(Versions(rows))

\* Mutant: an equal version replaces the stored row.
AcceptsEqual(rows, i, version) == rows[i] = NoRow \/ rows[i].version <= version

\* Mutant: the update without its WHERE clause.
AcceptsAny(rows, i, version) == TRUE

\* INSERT ... ON CONFLICT DO UPDATE ... WHERE sync_blobs.version < $4 changes
\* the row: there was none, or the client's version is strictly higher.
Accepts(rows, i, version) == rows[i] = NoRow \/ rows[i].version < version

\* A batch gives the row the client sent for an item, or NoRow.  (The loop takes
\* a request that names an item twice as well: it leaves the table as two pushes
\* one after the other do, of which the second gives that item's second row.)
Batch == [Item -> Row \union {NoRow}]
NoBatch == [i \in Item |-> NoRow]
Sent(batch) == {i \in Item : batch[i] # NoRow}

Accepted(rows, batch) ==
  {i \in Sent(batch) : Accepts(rows, i, batch[i].version)}

BatchUpsert(rows, batch) ==
  [i \in Item |-> IF i \in Accepted(rows, batch) THEN batch[i] ELSE rows[i]]

\* DELETE ... WHERE item_id = id, for every id: no tombstone is left.
BatchDelete(rows, items) ==
  [i \in Item |-> IF i \in items THEN NoRow ELSE rows[i]]
=============================================================================
