--------------------------- MODULE SyncBlobsProofs ---------------------------
(***************************************************************************)
(* Lemmas about the statements on sync_blobs: what a page of               *)
(* PullSincePaginated contains, what GetLatestVersion bounds and which     *)
(* rows BatchUpsert and BatchDelete touch.                                 *)
(***************************************************************************)
EXTENDS SyncBlobs, FiniteSetTheorems, TLAPS

Table == [Item -> Row \union {NoRow}]

(***************************************************************************)
(* A finite non-empty set of naturals has a maximum.  The argument takes a *)
(* smallest subset without one (finite subsets are well-founded under      *)
(* strict inclusion) and removes an element from it.                       *)
(***************************************************************************)
HasMax(S) == \E x \in S : \A y \in S : y <= x

\* Every finite non-empty set of versions has a highest one.
LEMMA FiniteHasMax ==
  ASSUME NEW S \in SUBSET Nat, IsFiniteSet(S), S # {}
  PROVE  HasMax(S)
<1> DEFINE Bad == {U \in SUBSET S : U # {} /\ ~HasMax(U)}
           Smaller == StrictSubsetOrdering(S)
<1> SUFFICES ASSUME ~HasMax(S) PROVE FALSE
  OBVIOUS
<1>1. Bad # {} /\ Bad \subseteq SUBSET S
  OBVIOUS
<1>2. IsWellFoundedOn(Smaller, SUBSET S)
  BY FS_StrictSubsetOrderingWellFounded, FS_FiniteSubsetsOfFinite
<1> HIDE DEF Bad
<1>3. PICK U \in Bad : \A V \in Bad : ~(<<V, U>> \in Smaller)
  <2> HIDE DEF Smaller
  <2> QED BY <1>1, <1>2, WFMin
<1>4. U \subseteq S /\ U # {} /\ ~HasMax(U)
  BY DEF Bad
<1>5. PICK x \in U : TRUE
  BY <1>4
<1>6. <<U \ {x}, U>> \in Smaller
  BY <1>4, <1>5 DEF StrictSubsetOrdering
<1>7. U \ {x} = {} \/ HasMax(U \ {x})
  <2>1. U \ {x} \notin Bad
    BY <1>3, <1>6
  <2> QED BY <2>1, <1>4 DEF Bad
<1>8. CASE U \ {x} = {}
  <2>1. U = {x}
    BY <1>8, <1>5
  <2> QED BY <2>1, <1>4 DEF HasMax
<1>9. CASE HasMax(U \ {x})
  <2>1. PICK m \in U \ {x} : \A y \in U \ {x} : y <= m
    BY <1>9 DEF HasMax
  <2>2. U \subseteq Nat
    BY <1>4
  <2>3. CASE x <= m
    BY <2>1, <2>2, <2>3, <1>4 DEF HasMax
  <2>4. CASE m < x
    BY <2>1, <2>2, <2>4, <1>4, <1>5 DEF HasMax
  <2> QED BY <2>2, <2>3, <2>4, <1>5, <2>1
<1> QED BY <1>7, <1>8, <1>9

\* Max picks the highest element.
LEMMA MaxOfFinite ==
  ASSUME NEW S \in SUBSET Nat, IsFiniteSet(S), S # {}
  PROVE  Max(S) \in S /\ \A y \in S : y <= Max(S)
<1>1. \E x \in S : \A y \in S : x >= y
  BY FiniteHasMax DEF HasMax
<1> QED BY <1>1 DEF Max

\* The versions of some rows: a finite set of naturals.
LEMMA VersionsOfRows ==
  ASSUME NEW rows \in Table, NEW items \in SUBSET Item,
         \A i \in items : rows[i] # NoRow
  PROVE  /\ {rows[i].version : i \in items} \in SUBSET Nat
         /\ IsFiniteSet({rows[i].version : i \in items})
<1>1. \A i \in items : rows[i].version \in Nat
  BY DEF Table, Row
<1>2. IsFiniteSet(items)
  BY ItemAssumption, FS_Subset
<1>3. IsFiniteSet({rows[i].version : i \in items})
  <2> DEFINE f == [i \in items |-> rows[i].version]
             range == {rows[i].version : i \in items}
  <2>1. f \in Surjection(items, range)
    BY DEF Surjection
  <2> QED BY <2>1, <1>2, FS_Surjection
<1> QED BY <1>1, <1>3

\* latest_version is a natural number that bounds every stored version.
LEMMA LatestBounds ==
  ASSUME NEW rows \in Table
  PROVE  /\ GetLatestVersion(rows) \in Nat
         /\ \A i \in Item : rows[i] # NoRow =>
              rows[i].version <= GetLatestVersion(rows)
<1> DEFINE stored == {j \in Item : rows[j] # NoRow}
<1>1. Versions(rows) = {rows[i].version : i \in stored}
  BY DEF Versions
<1>2. Versions(rows) \in SUBSET Nat /\ IsFiniteSet(Versions(rows))
  BY <1>1, VersionsOfRows
<1>3. CASE Versions(rows) = {}
  BY <1>1, <1>3 DEF GetLatestVersion
<1>4. CASE Versions(rows) # {}
  <2>1. Max(Versions(rows)) \in Versions(rows)
        /\ \A y \in Versions(rows) : y <= Max(Versions(rows))
    BY <1>2, <1>4, MaxOfFinite
  <2> QED BY <2>1, <1>1, <1>2, <1>4 DEF GetLatestVersion
<1> QED BY <1>3, <1>4

\* A page: rows above the cursor, none of the others below them, and empty only
\* when there is nothing above the cursor.
LEMMA PageFacts ==
  ASSUME NEW rows \in Table, NEW since \in Nat, NEW limit \in Nat \ {0},
         NEW page \in PullSincePaginated(rows, since, limit)
  PROVE  /\ page \subseteq Newer(rows, since)
         /\ page = {} => Newer(rows, since) = {}
         /\ \A i \in page, j \in Newer(rows, since) \ page :
              rows[i].version <= rows[j].version
<1> DEFINE candidates == Newer(rows, since)
           n == Cardinality(candidates)
<1>1. /\ page \subseteq candidates
      /\ Cardinality(page) = Min({limit, n})
      /\ \A i \in page, j \in candidates \ page : rows[i].version <= rows[j].version
  BY DEF PullSincePaginated
<1>2. IsFiniteSet(candidates) /\ n \in Nat
  BY ItemAssumption, FS_Subset, FS_CardinalityType DEF Newer
<1>3. ASSUME page = {} PROVE candidates = {}
  <2>1. Cardinality(page) = 0
    BY <1>3, FS_EmptySet
  <2>2. 0 \in {limit, n}
    <3> HIDE DEF n
    <3>1. \E x \in {limit, n} : \A y \in {limit, n} : x <= y
      BY <1>2
    <3>2. Min({limit, n}) \in {limit, n}
      BY <3>1 DEF Min
    <3> QED BY <3>2, <2>1, <1>1
  <2>3. n = 0
    BY <2>2
  <2> QED BY <2>3, <1>2, FS_EmptySet
<1> QED BY <1>1, <1>3

\* The cursor given with a page: above the page's starting point and not below
\* any row of the page; it is the version of one of them.
LEMMA PageCursor ==
  ASSUME NEW rows \in Table, NEW since \in Nat,
         NEW page \in SUBSET Newer(rows, since), page # {}
  PROVE  LET next == Max({rows[i].version : i \in page})
         IN  /\ next \in Nat /\ next > since
             /\ \A i \in page : rows[i].version <= next
             /\ \E i \in page : rows[i].version = next
<1> DEFINE versions == {rows[i].version : i \in page}
<1>1. page \in SUBSET Item /\ \A i \in page : rows[i] # NoRow /\ rows[i].version > since
  BY DEF Newer
<1>2. versions \in SUBSET Nat /\ IsFiniteSet(versions) /\ versions # {}
  BY <1>1, VersionsOfRows
<1>3. Max(versions) \in versions /\ \A y \in versions : y <= Max(versions)
  BY <1>2, MaxOfFinite
<1> QED BY <1>1, <1>2, <1>3

\* A batch leaves a table, writes only the items it has accepted, and those with
\* a strictly higher version than they had.
LEMMA BatchUpsertFacts ==
  ASSUME NEW rows \in Table, NEW batch \in Batch
  PROVE  /\ BatchUpsert(rows, batch) \in Table
         /\ Accepted(rows, batch) \subseteq Sent(batch)
         /\ \A i \in Item \ Accepted(rows, batch) :
              BatchUpsert(rows, batch)[i] = rows[i]
         /\ \A i \in Accepted(rows, batch) :
              /\ BatchUpsert(rows, batch)[i] = batch[i]
              /\ batch[i] \in Row
              /\ rows[i] = NoRow \/ rows[i].version < batch[i].version
  BY DEF BatchUpsert, Accepted, Accepts, Sent, Batch, Table
=============================================================================
