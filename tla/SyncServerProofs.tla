--------------------------- MODULE SyncServerProofs ---------------------------
(***************************************************************************)
(* Theorems about SyncServer, for any number of rows, clients, page size   *)
(* and batch size, with failures or without.                               *)
(***************************************************************************)
EXTENDS SyncServer, SyncBlobsProofs

-----------------------------------------------------------------------------
(***************************************************************************)
(* The promise of the store.                                               *)
(***************************************************************************)
BlobsOK == blobs \in Table

\* A request to push is a batch.
LEMMA PushRequestIsBatch == PushRequests \subseteq Batch
  BY ServerAssumption DEF PushRequests, Batch, Row

\* The table stays a table whatever request is served.
LEMMA BlobsInvariant == Spec => []BlobsOK
<1>1. Init => BlobsOK
  BY DEF Init, BlobsOK, Table
<1>2. BlobsOK /\ [Next]_vars => BlobsOK'
  <2> SUFFICES ASSUME BlobsOK, [Next]_vars PROVE BlobsOK'
    OBVIOUS
  <2> USE DEF BlobsOK
  <2>1. ASSUME NEW batch \in PushRequests, Push(batch) \/ PushUnconfirmed(batch)
        PROVE  BlobsOK'
    BY <2>1, PushRequestIsBatch, BatchUpsertFacts DEF Push, PushUnconfirmed
  <2>2. ASSUME NEW items \in SUBSET Item, BatchDeleteRequest(items)
        PROVE  BlobsOK'
    BY <2>2 DEF BatchDeleteRequest, BatchDelete, Table
  <2>3. ASSUME UNCHANGED blobs PROVE BlobsOK'
    BY <2>3
  <2> QED
    BY <2>1, <2>2, <2>3 DEF Next, vars, PullBegin, PullStep, PullPage,
       PullLatest, PullHasMore, PullReply, DayPasses, CleanOldOperationLogs
<1> QED BY <1>1, <1>2, PTL DEF Spec

\* Every behaviour of the server, seen through sync_blobs alone, is one of
\* VersionedStore: BatchUpsert raises versions, BatchDelete removes rows, and
\* no other statement writes the table.
THEOREM StoreImplemented == Spec => ImplementsVersionedStore
<1>1. Init => Store!Init
  BY DEF Init, Store!Init
<1>2. BlobsOK /\ [Next]_vars => [Store!Next]_blobs
  <2> SUFFICES ASSUME BlobsOK, [Next]_vars PROVE [Store!Next]_blobs
    OBVIOUS
  <2> USE DEF BlobsOK
  <2>1. ASSUME NEW batch \in PushRequests, Push(batch) \/ PushUnconfirmed(batch)
        PROVE  Store!Raise
    <3>1. blobs' = BatchUpsert(blobs, batch) /\ batch \in Batch
      BY <2>1, PushRequestIsBatch DEF Push, PushUnconfirmed
    <3> QED BY <3>1, BatchUpsertFacts, NoRowAssumption
            DEF Store!Raise, Store!Raised
  <2>2. ASSUME NEW items \in SUBSET Item, BatchDeleteRequest(items)
        PROVE  Store!Remove
    BY <2>2 DEF BatchDeleteRequest, BatchDelete, Store!Remove
  <2>3. ASSUME UNCHANGED blobs PROVE [Store!Next]_blobs
    BY <2>3
  <2> QED
    BY <2>1, <2>2, <2>3 DEF Next, Store!Next, vars, PullBegin, PullStep, PullPage,
       PullLatest, PullHasMore, PullReply, DayPasses, CleanOldOperationLogs
<1> QED
  BY <1>1, <1>2, BlobsInvariant, PTL DEF Spec, ImplementsVersionedStore, Store!Spec

-----------------------------------------------------------------------------
(***************************************************************************)
(* Type correctness.  Each step of a pull maps a session to a session.     *)
(***************************************************************************)
\* A fresh session is a session, and so is what each step of a pull makes of one.
LEMMA SessionType ==
  /\ Idle \in Session
  /\ \A rows \in Table, since \in Nat : Begun(rows, since) \in Session
  /\ \A s \in Session, items \in SUBSET Item : Disturbed(s, items) \in Session
  /\ \A s \in Session, items \in SUBSET Item, n \in Nat :
       WithPage(s, items, n) \in Session
  /\ \A s \in Session, n \in Nat : WithLatest(s, n) \in Session
  /\ \A s \in Session, more, failed \in BOOLEAN : WithMore(s, more, failed) \in Session
  /\ \A s \in Session : Taken(s) \in Session
<1>1. Idle \in Session /\ \A rows \in Table, since \in Nat : Begun(rows, since) \in Session
  BY DEF Idle, Begun, Session
<1>2. \A s \in Session, items \in SUBSET Item : Disturbed(s, items) \in Session
  BY DEF Disturbed, Session
<1>3. \A s \in Session, items \in SUBSET Item, n \in Nat :
        WithPage(s, items, n) \in Session
  BY DEF WithPage, Session
<1>4. \A s \in Session, n \in Nat : WithLatest(s, n) \in Session
  BY DEF WithLatest, Session
<1>5. \A s \in Session, more, failed \in BOOLEAN : WithMore(s, more, failed) \in Session
  BY DEF WithMore, Session
<1>6. \A s \in Session : Taken(s) \in Session
  BY DEF Taken, Session
<1> QED BY <1>1, <1>2, <1>3, <1>4, <1>5, <1>6

\* A request starts from a natural number.
LEMMA EffectiveSinceType ==
  ASSUME NEW s \in Session PROVE EffectiveSince(s) \in Nat
  BY DEF Session, EffectiveSince

\* The log rows of one kind that a push adds.
LEMMA LoggedType ==
  ASSUME TypeOK, NEW batch \in Batch
  PROVE  Logged(blobs, batch) \in [Kind -> Nat]
<1>1. \A k \in Kind :
        Cardinality({i \in Sent(batch) : KindOf(blobs, batch, i) = k}) \in Nat
  BY ItemAssumption, FS_Subset, FS_CardinalityType DEF Sent
<1>2. \A k \in Kind : opLog["recent"][k] \in Nat
  BY DEF TypeOK, Age
<1> HIDE DEF Kind
<1> QED BY <1>1, <1>2 DEF Logged

\* The page of a pull and the cursor that goes with it.
LEMMA PageType ==
  ASSUME NEW rows \in Table, NEW since \in Nat,
         NEW page \in PullSincePaginated(rows, since, PageLimit)
  PROVE  /\ page \in SUBSET Item
         /\ NextCursor(rows, page) \in Nat
<1>1. page \subseteq Newer(rows, since)
  BY PageFacts, ServerAssumption
<1>2. page \in SUBSET Item
  BY <1>1 DEF Newer
<1>3. page # {} => Max({rows[i].version : i \in page}) \in Nat
  BY <1>1, PageCursor
<1> QED BY <1>2, <1>3 DEF NextCursor

\* The variables of the sync service keep their types.
THEOREM TypeCorrect == Spec => []TypeOK
<1>1. Init => TypeOK
  BY DEF Init, TypeOK, Idle, Session
<1>2. TypeOK /\ [Next]_vars => TypeOK'
  <2> SUFFICES ASSUME TypeOK, [Next]_vars PROVE TypeOK'
    OBVIOUS
  <2>a. blobs \in Table
    BY DEF TypeOK, Table
  <2>b. \A items \in SUBSET Item : Disturb(items) => session' \in [Client -> Session]
    BY <2>a, SessionType DEF Disturb, TypeOK
  <2>1. ASSUME NEW batch \in PushRequests, Push(batch) \/ PushUnconfirmed(batch)
        PROVE  TypeOK'
    <3>1. batch \in Batch
      BY PushRequestIsBatch
    <3>2. blobs' \in [Item -> Row \union {NoRow}]
      BY <2>1, <2>a, <3>1, BatchUpsertFacts DEF Push, PushUnconfirmed, Table
    <3>3. Accepted(blobs, batch) \in SUBSET Item
      BY DEF Accepted, Sent
    <3>4. session' \in [Client -> Session]
      BY <2>1, <2>b, <3>3 DEF Push, PushUnconfirmed
    <3>5. opLog' \in [Age -> [Kind -> Nat]]
      BY <2>1, <3>1, LoggedType DEF Push, PushUnconfirmed, LogPush, TypeOK
    <3> QED BY <3>2, <3>4, <3>5 DEF TypeOK
  <2>2. ASSUME NEW items \in SUBSET Item, BatchDeleteRequest(items)
        PROVE  TypeOK'
    BY <2>2, <2>b DEF BatchDeleteRequest, BatchDelete, TypeOK
  <2>3. ASSUME NEW c \in Client, NEW since \in 0..MaxVersion, PullBegin(c, since)
        PROVE  TypeOK'
    BY <2>3, <2>a, SessionType, ServerAssumption DEF PullBegin, TypeOK
  <2>4. ASSUME NEW c \in Client, PullPage(c)
        PROVE  TypeOK'
    <3>1. session[c] \in Session /\ EffectiveSince(session[c]) \in Nat
      BY EffectiveSinceType DEF TypeOK
    <3>2. session' \in [Client -> Session]
      BY <2>4, <2>a, <3>1, PageType, SessionType DEF PullPage, TypeOK
    <3> QED BY <2>4, <3>2 DEF PullPage, TypeOK
  <2>5. ASSUME NEW c \in Client, PullLatest(c)
        PROVE  TypeOK'
    <3>1. GetLatestVersion(blobs) \in Nat
      BY <2>a, LatestBounds
    <3> QED BY <2>5, <3>1, <2>a, SessionType DEF PullLatest, TypeOK
  <2>6. ASSUME NEW c \in Client, PullHasMore(c)
        PROVE  TypeOK'
    <3>1. More(session[c], blobs) \in BOOLEAN
      BY DEF More, HasMoreSince
    <3>2. session[c] \in Session
      BY DEF TypeOK
    <3>3. WithMore(session[c], More(session[c], blobs), FALSE) \in Session
      BY <3>1, <3>2, SessionType, Zenon
    <3>4. WithMore(session[c], FALSE, TRUE) \in Session
      BY <3>2, SessionType, Zenon
    <3> QED BY <2>6, <3>3, <3>4 DEF PullHasMore, TypeOK
  <2>7. ASSUME NEW c \in Client, PullReply(c)
        PROVE  TypeOK'
    BY <2>7, <2>a, SessionType DEF PullReply, TypeOK
  <2>8. CASE DayPasses
    BY <2>8 DEF DayPasses, TypeOK, Age
  <2>9. CASE CleanOldOperationLogs
    BY <2>9, ServerAssumption DEF CleanOldOperationLogs, TypeOK, Age
  <2>10. CASE UNCHANGED vars
    BY <2>10 DEF vars, TypeOK
  <2> QED
    BY <2>1, <2>2, <2>3, <2>4, <2>5, <2>6, <2>7, <2>8, <2>9, <2>10 DEF Next, PullStep
<1> QED BY <1>1, <1>2, PTL DEF Spec

-----------------------------------------------------------------------------
(***************************************************************************)
(* Paging.  Expected is what a session s may still have to receive: rows   *)
(* that stayed the same since it began, that it has not got, and whose     *)
(* version is none of the cursors used so far.  PageInv says where they    *)
(* are at each point of a request: above the cursor before a query, on the *)
(* page or at or above its cursor after it, and nowhere at the end.        *)
(***************************************************************************)
Expected(s, rows) ==
  {i \in s.stable : /\ rows[i].version > s.since
                    /\ i \notin s.got
                    /\ rows[i].version \notin s.cursors}

\* What follows the page: at its cursor or, if the page has rows, above it.
Beyond(s, rows) ==
  \A i \in Expected(s, rows) \ s.page :
    rows[i].version = s.next \/ (s.page # {} /\ rows[i].version > s.next)

PageInv(s, rows) ==
  /\ \A i \in s.stable : rows[i] # NoRow
  /\ s.pc = "page" => \A i \in Expected(s, rows) : rows[i].version > EffectiveSince(s)
  /\ s.pc \in {"latest", "more", "reply"} /\ s.page # {} => s.next > 0
  /\ s.pc \in {"latest", "more"} => Beyond(s, rows)
  /\ s.pc = "reply" /\ s.more => s.page # {} /\ Beyond(s, rows)
  /\ s.pc = "reply" /\ ~s.more /\ ~s.failed =>
       \A i \in Expected(s, rows) \ s.page : rows[i].version = s.next
  /\ s.pc = "done" /\ ~s.failed => Expected(s, rows) = {}

PagingInv == \A c \in Client : PageInv(session[c], blobs)

\* A session that begins expects every row, from the version it has.
LEMMA BegunPageInv ==
  ASSUME NEW rows \in Table, NEW since \in Nat
  PROVE  PageInv(Begun(rows, since), rows) /\ PageInv(Idle, rows)
  BY DEF PageInv, Begun, Idle, Expected, EffectiveSince

\* Other requests change rows, but none that the session still counts on.
LEMMA DisturbedPageInv ==
  ASSUME NEW s \in Session, NEW rows \in Table, NEW after \in Table,
         NEW items \in SUBSET Item, \A i \in Item \ items : after[i] = rows[i],
         PageInv(s, rows)
  PROVE  PageInv(Disturbed(s, items), after)
<1> DEFINE t == Disturbed(s, items)
<1>1. /\ t.stable = s.stable \ items /\ t.pc = s.pc /\ t.page = s.page
      /\ t.next = s.next /\ t.more = s.more /\ t.failed = s.failed
      /\ t.since = s.since /\ t.got = s.got /\ t.cursors = s.cursors
      /\ t.cursor = s.cursor
  BY DEF Disturbed, Session
<1>2. \A i \in t.stable : after[i] = rows[i]
  BY <1>1 DEF Session
<1>3. EffectiveSince(t) = EffectiveSince(s)
  BY <1>1 DEF EffectiveSince
<1> HIDE DEF t
<1>4. Expected(t, after) = Expected(s, rows) \ items
  BY <1>1, <1>2 DEF Expected
<1>5. \A i \in Expected(t, after) : i \in Expected(s, rows) /\ after[i] = rows[i]
  BY <1>2, <1>4 DEF Expected
<1>6. Beyond(s, rows) => Beyond(t, after)
  BY <1>1, <1>5 DEF Beyond
<1>7. PageInv(t, after)
  BY <1>1, <1>2, <1>3, <1>4, <1>5, <1>6 DEF PageInv
<1> QED BY <1>7 DEF t

\* The first query: what it leaves out is at or above the last row it returns.
LEMMA WithPagePageInv ==
  ASSUME NEW s \in Session, NEW rows \in Table, PageInv(s, rows), s.pc = "page",
         NEW page \in PullSincePaginated(rows, EffectiveSince(s), PageLimit)
  PROVE  PageInv(WithPage(s, page, NextCursor(rows, page)), rows)
<1> DEFINE next == NextCursor(rows, page)
           t == WithPage(s, page, next)
           from == EffectiveSince(s)
<1>1. /\ t.stable = s.stable /\ t.pc = "latest" /\ t.page = page
      /\ t.next = next /\ t.since = s.since /\ t.got = s.got
      /\ t.cursors = s.cursors
  BY DEF WithPage, Session
<1>2. from \in Nat
  BY EffectiveSinceType
<1>3. /\ page \subseteq Newer(rows, from)
      /\ page = {} => Newer(rows, from) = {}
      /\ \A i \in page, j \in Newer(rows, from) \ page :
           rows[i].version <= rows[j].version
  <2> HIDE DEF from
  <2> QED BY <1>2, PageFacts, ServerAssumption DEF from
<1>4. ASSUME page # {}
      PROVE  /\ next \in Nat /\ next > 0
             /\ \E i \in page : rows[i].version = next
  <2>1. next = Max({rows[i].version : i \in page})
    BY <1>4 DEF NextCursor
  <2> HIDE DEF next, from
  <2>2. page \in SUBSET Newer(rows, from)
    BY <1>3
  <2>3. LET m == Max({rows[i].version : i \in page})
        IN  m \in Nat /\ m > from /\ \E i \in page : rows[i].version = m
    BY <1>2, <1>4, <2>2, PageCursor, Zenon
  <2>4. next \in Nat /\ next > from /\ \E i \in page : rows[i].version = next
    BY <2>1, <2>3, Zenon
  <2> QED BY <1>2, <2>4
<1>5. Expected(t, rows) = Expected(s, rows)
  BY <1>1 DEF Expected
<1>6. Expected(s, rows) \subseteq Newer(rows, from)
  BY DEF PageInv, Expected, Newer, Session
<1>7. \A i \in Newer(rows, from) : rows[i].version \in Nat
  BY DEF Newer, Table, Row
<1> HIDE DEF t, next, from
<1>8. Beyond(t, rows)
  <2> SUFFICES ASSUME NEW i \in Expected(t, rows) \ t.page
               PROVE  rows[i].version = t.next \/ (t.page # {} /\ rows[i].version > t.next)
    BY DEF Beyond
  <2>1. i \in Newer(rows, from) \ page
    BY <1>1, <1>5, <1>6
  <2>2. page # {}
    BY <2>1, <1>3
  <2>3. PICK j \in page : rows[j].version = next
    BY <2>2, <1>4
  <2>4. next <= rows[i].version
    BY <2>1, <2>3, <1>3
  <2> QED BY <1>1, <1>4, <1>7, <2>1, <2>2, <2>4
<1>9. PageInv(t, rows)
  BY <1>1, <1>4, <1>8 DEF PageInv
<1> QED BY <1>9 DEF t, next

\* The second query only sets latest_version.
LEMMA WithLatestPageInv ==
  ASSUME NEW s \in Session, NEW rows \in Table, PageInv(s, rows), s.pc = "latest",
         NEW n \in Nat
  PROVE  PageInv(WithLatest(s, n), rows)
<1> DEFINE t == WithLatest(s, n)
<1>1. /\ t.stable = s.stable /\ t.pc = "more" /\ t.page = s.page
      /\ t.next = s.next /\ t.since = s.since /\ t.got = s.got
      /\ t.cursors = s.cursors
  BY DEF WithLatest, Session
<1> HIDE DEF t
<1>2. Expected(t, rows) = Expected(s, rows)
  BY <1>1 DEF Expected
<1>3. PageInv(t, rows)
  BY <1>1, <1>2 DEF PageInv, Beyond
<1> QED BY <1>3 DEF t

\* The third query: has_more is false only if nothing is above the cursor, or
\* the query failed.
LEMMA WithMorePageInv ==
  ASSUME NEW s \in Session, NEW rows \in Table, PageInv(s, rows), s.pc = "more"
  PROVE  /\ PageInv(WithMore(s, More(s, rows), FALSE), rows)
         /\ PageInv(WithMore(s, FALSE, TRUE), rows)
<1>1. ASSUME NEW more \in BOOLEAN, NEW failed \in BOOLEAN,
             more = More(s, rows) \/ (~more /\ failed)
      PROVE  PageInv(WithMore(s, more, failed), rows)
  <2> DEFINE t == WithMore(s, more, failed)
  <2>1. /\ t.stable = s.stable /\ t.pc = "reply" /\ t.page = s.page
        /\ t.next = s.next /\ t.since = s.since /\ t.got = s.got
        /\ t.cursors = s.cursors /\ t.more = more /\ t.failed = failed
    BY DEF WithMore, Session
  <2> HIDE DEF t
  <2>2. Expected(t, rows) = Expected(s, rows)
    BY <2>1 DEF Expected
  <2>4. ASSUME ~More(s, rows), NEW i \in Expected(s, rows) \ s.page
        PROVE  rows[i].version = s.next
    <3>1. rows[i] # NoRow /\ i \in Item
      BY DEF PageInv, Expected, Session
    <3> QED BY <2>4, <3>1 DEF PageInv, Beyond, More, HasMoreSince, Newer
  <2>5. PageInv(t, rows)
    BY <1>1, <2>1, <2>2, <2>4 DEF PageInv, Beyond, More
  <2> QED BY <2>5 DEF t
<1>2. More(s, rows) \in BOOLEAN
  BY DEF More, HasMoreSince
<1> QED BY <1>1, <1>2

\* The client takes the page: its cursor is where the next page starts.
LEMMA TakenPageInv ==
  ASSUME NEW s \in Session, NEW rows \in Table, PageInv(s, rows), s.pc = "reply"
  PROVE  PageInv(Taken(s), rows)
<1> DEFINE t == Taken(s)
<1>1. /\ t.stable = s.stable /\ t.pc = (IF s.more THEN "page" ELSE "done")
      /\ t.since = s.since /\ t.got = s.got \union s.page
      /\ t.cursors = s.cursors \union {s.next} /\ t.cursor = s.next
      /\ t.failed = s.failed
  BY DEF Taken, Session
<1> HIDE DEF t
<1>2. \A i \in Expected(t, rows) :
        i \in Expected(s, rows) \ s.page /\ rows[i].version # s.next
  BY <1>1 DEF Expected
<1>3. CASE s.more
  <2>1. s.next > 0 /\ Beyond(s, rows)
    BY <1>3 DEF PageInv
  <2>2. EffectiveSince(t) = s.next
    BY <2>1, <1>1 DEF EffectiveSince
  <2>3. PageInv(t, rows)
    BY <1>1, <1>2, <1>3, <2>1, <2>2 DEF PageInv, Beyond
  <2> QED BY <2>3 DEF t
<1>4. CASE ~s.more
  <2>1. PageInv(t, rows)
    BY <1>1, <1>2, <1>4 DEF PageInv
  <2> QED BY <2>1 DEF t
<1> QED BY <1>3, <1>4

\* Nothing is left when a session that met no failed query is done.
LEMMA PagingInvImplies ==
  ASSUME PagingInv PROVE PagingComplete
  BY DEF PagingInv, PageInv, PagingComplete, Missed, Expected

\* The paging invariant is inductive relative to the types.
LEMMA PagingInvariant == Spec => []PagingInv
<1>1. Init => PagingInv
  BY BegunPageInv DEF Init, PagingInv, Table
<1>2. TypeOK /\ PagingInv /\ [Next]_vars /\ TypeOK' => PagingInv'
  <2> SUFFICES ASSUME TypeOK, PagingInv, [Next]_vars, TypeOK'
               PROVE  PagingInv'
    OBVIOUS
  <2>a. blobs \in Table /\ blobs' \in Table
    BY DEF TypeOK, Table
  <2>b. \A c \in Client : session[c] \in Session /\ PageInv(session[c], blobs)
    BY DEF TypeOK, PagingInv
  <2>1. ASSUME NEW batch \in PushRequests, Push(batch) \/ PushUnconfirmed(batch)
        PROVE  PagingInv'
    <3>1. Accepted(blobs, batch) \in SUBSET Item
      BY DEF Accepted, Sent
    <3>2. \A i \in Item \ Accepted(blobs, batch) : blobs'[i] = blobs[i]
      BY <2>1, <2>a, PushRequestIsBatch, BatchUpsertFacts DEF Push, PushUnconfirmed
    <3>3. \A c \in Client : session'[c] = Disturbed(session[c], Accepted(blobs, batch))
      BY <2>1 DEF Push, PushUnconfirmed, Disturb
    <3> QED BY <2>a, <2>b, <3>1, <3>2, <3>3, DisturbedPageInv DEF PagingInv
  <2>2. ASSUME NEW items \in SUBSET Item, BatchDeleteRequest(items)
        PROVE  PagingInv'
    <3>1. \A i \in Item \ items : blobs'[i] = blobs[i]
      BY <2>2 DEF BatchDeleteRequest, BatchDelete
    <3>2. \A c \in Client : session'[c] = Disturbed(session[c], items)
      BY <2>2 DEF BatchDeleteRequest, Disturb
    <3> QED BY <2>a, <2>b, <3>1, <3>2, DisturbedPageInv DEF PagingInv
  <2>3. ASSUME NEW c \in Client, NEW t, PageInv(t, blobs),
               session' = [session EXCEPT ![c] = t], UNCHANGED blobs
        PROVE  PagingInv'
    BY <2>3, <2>b DEF PagingInv, TypeOK
  <2>4. ASSUME NEW c \in Client, NEW since \in 0..MaxVersion, PullBegin(c, since)
        PROVE  PagingInv'
    <3>1. since \in Nat
      BY ServerAssumption
    <3>2. PageInv(Begun(blobs, since), blobs)
      BY <2>a, <3>1, BegunPageInv
    <3> QED BY <2>4, <2>3, <3>2 DEF PullBegin
  <2>5. ASSUME NEW c \in Client, PullPage(c)
        PROVE  PagingInv'
    <3>1. PageInv(Idle, blobs)
      BY <2>a, BegunPageInv
    <3>2. \A page \in PullSincePaginated(blobs, EffectiveSince(session[c]), PageLimit) :
            PageInv(WithPage(session[c], page, NextCursor(blobs, page)), blobs)
      BY <2>5, <2>a, <2>b, WithPagePageInv DEF PullPage
    <3> QED BY <2>5, <2>3, <3>1, <3>2 DEF PullPage
  <2>6. ASSUME NEW c \in Client, PullLatest(c)
        PROVE  PagingInv'
    <3>1. \A n \in Nat : PageInv(WithLatest(session[c], n), blobs)
      BY <2>6, <2>a, <2>b, WithLatestPageInv DEF PullLatest
    <3> QED BY <2>6, <2>3, <2>a, <3>1, LatestBounds DEF PullLatest
  <2>7. ASSUME NEW c \in Client, PullHasMore(c)
        PROVE  PagingInv'
    <3>1. /\ PageInv(WithMore(session[c], More(session[c], blobs), FALSE), blobs)
          /\ PageInv(WithMore(session[c], FALSE, TRUE), blobs)
      BY <2>7, <2>a, <2>b, WithMorePageInv DEF PullHasMore
    <3> QED BY <2>7, <2>3, <3>1 DEF PullHasMore
  <2>8. ASSUME NEW c \in Client, PullReply(c)
        PROVE  PagingInv'
    <3>1. PageInv(Taken(session[c]), blobs)
      BY <2>8, <2>a, <2>b, TakenPageInv DEF PullReply
    <3> QED BY <2>8, <2>3, <3>1 DEF PullReply
  <2>9. ASSUME UNCHANGED <<blobs, session>> PROVE PagingInv'
    BY <2>9 DEF PagingInv
  <2> QED
    BY <2>1, <2>2, <2>4, <2>5, <2>6, <2>7, <2>8, <2>9
       DEF Next, vars, PullStep, DayPasses, CleanOldOperationLogs
<1> QED
  BY <1>1, <1>2, TypeCorrect, PTL DEF Spec

\* Paging to the end of has_more misses no row that stayed the same, except one
\* whose version equals a cursor: for every page size, however many requests
\* change the table between the queries.
THEOREM PagingIsComplete == Spec => []PagingComplete
  BY PagingInvariant, PagingInvImplies, PTL

-----------------------------------------------------------------------------
(***************************************************************************)
(* latest_version against the page of the same response.                   *)
(***************************************************************************)
LatestInv(s, rows) ==
  s.pc \in {"more", "reply"} /\ s.latest # 0 =>
    \A i \in s.page \intersect s.stable : rows[i].version <= s.latest

\* What the steps of a session do to LatestInv.
LEMMA LatestSteps ==
  ASSUME NEW s \in Session, NEW rows \in Table, LatestInv(s, rows)
  PROVE  /\ LatestInv(Idle, rows)
         /\ \A since \in Nat : LatestInv(Begun(rows, since), rows)
         /\ \A after \in Table, items \in SUBSET Item :
              (\A i \in Item \ items : after[i] = rows[i])
                => LatestInv(Disturbed(s, items), after)
         /\ \A page \in SUBSET Item, n \in Nat : LatestInv(WithPage(s, page, n), rows)
         /\ \A more, failed \in BOOLEAN :
              s.pc = "more" => LatestInv(WithMore(s, more, failed), rows)
         /\ LatestInv(Taken(s), rows)
<1>1. LatestInv(Idle, rows) /\ \A since \in Nat : LatestInv(Begun(rows, since), rows)
  BY DEF LatestInv, Idle, Begun
<1>2. ASSUME NEW after \in Table, NEW items \in SUBSET Item,
             \A i \in Item \ items : after[i] = rows[i]
      PROVE  LatestInv(Disturbed(s, items), after)
  BY <1>2 DEF LatestInv, Disturbed, Session
<1>3. \A page \in SUBSET Item, n \in Nat : LatestInv(WithPage(s, page, n), rows)
  BY DEF LatestInv, WithPage, Session
<1>4. \A more, failed \in BOOLEAN :
        s.pc = "more" => LatestInv(WithMore(s, more, failed), rows)
  BY DEF LatestInv, WithMore, Session
<1>5. LatestInv(Taken(s), rows)
  BY DEF LatestInv, Taken, Session
<1> QED BY <1>1, <1>2, <1>3, <1>4, <1>5

\* The second query covers every row of the page that is still there.
LEMMA LatestQuery ==
  ASSUME NEW s \in Session, NEW rows \in Table, PageInv(s, rows)
  PROVE  /\ LatestInv(WithLatest(s, GetLatestVersion(rows)), rows)
         /\ LatestInv(WithLatest(s, 0), rows)
<1>1. \A i \in s.stable : i \in Item /\ rows[i] # NoRow
  BY DEF PageInv, Session
<1>2. \A i \in s.stable : rows[i].version <= GetLatestVersion(rows)
  BY <1>1, LatestBounds
<1> QED BY <1>2 DEF LatestInv, WithLatest, Session

\* latest_version is never below an unchanged row of the page it comes with,
\* unless its query failed, although it is read after the page.
THEOREM LatestCovers == Spec => []LatestCoversPage
<1> DEFINE Inv == \A c \in Client : LatestInv(session[c], blobs)
<1>1. Init => Inv
  BY DEF Init, LatestInv, Idle
<1>2. TypeOK /\ PagingInv /\ Inv /\ [Next]_vars /\ TypeOK' => Inv'
  <2> SUFFICES ASSUME TypeOK, PagingInv, Inv, [Next]_vars, TypeOK'
               PROVE  Inv'
    OBVIOUS
  <2>a. blobs \in Table /\ blobs' \in Table
    BY DEF TypeOK, Table
  <2>b. \A c \in Client : /\ session[c] \in Session
                          /\ PageInv(session[c], blobs) /\ LatestInv(session[c], blobs)
    BY DEF TypeOK, PagingInv
  <2>1. ASSUME NEW items \in SUBSET Item, Disturb(items),
               \A i \in Item \ items : blobs'[i] = blobs[i]
        PROVE  Inv'
    <3>1. \A c \in Client : session'[c] = Disturbed(session[c], items)
      BY <2>1 DEF Disturb
    <3> QED BY <2>a, <2>b, <2>1, <3>1, LatestSteps
  <2>2. ASSUME NEW batch \in PushRequests, Push(batch) \/ PushUnconfirmed(batch)
        PROVE  Inv'
    <3>1. Accepted(blobs, batch) \in SUBSET Item
      BY DEF Accepted, Sent
    <3>2. \A i \in Item \ Accepted(blobs, batch) : blobs'[i] = blobs[i]
      BY <2>2, <2>a, PushRequestIsBatch, BatchUpsertFacts DEF Push, PushUnconfirmed
    <3> QED BY <2>1, <2>2, <3>1, <3>2 DEF Push, PushUnconfirmed
  <2>3. ASSUME NEW items \in SUBSET Item, BatchDeleteRequest(items)
        PROVE  Inv'
    BY <2>1, <2>3 DEF BatchDeleteRequest, BatchDelete
  <2>4. ASSUME NEW c \in Client, NEW t, LatestInv(t, blobs),
               session' = [session EXCEPT ![c] = t], UNCHANGED blobs
        PROVE  Inv'
    BY <2>4, <2>b DEF TypeOK
  <2> HIDE DEF Inv
  <2>5. ASSUME NEW c \in Client, NEW since \in 0..MaxVersion, PullBegin(c, since)
        PROVE  Inv'
    <3>1. since \in Nat
      BY ServerAssumption
    <3>2. LatestInv(Begun(blobs, since), blobs)
      BY <2>a, <2>b, <3>1, LatestSteps
    <3> QED BY <2>4, <2>5, <3>2 DEF PullBegin
  <2>6. ASSUME NEW c \in Client, PullPage(c)
        PROVE  Inv'
    <3>1. EffectiveSince(session[c]) \in Nat /\ LatestInv(Idle, blobs)
      BY <2>a, <2>b, EffectiveSinceType, LatestSteps
    <3>2. \A page \in PullSincePaginated(blobs, EffectiveSince(session[c]), PageLimit) :
            LatestInv(WithPage(session[c], page, NextCursor(blobs, page)), blobs)
      BY <2>a, <2>b, <3>1, PageType, LatestSteps
    <3> QED BY <2>4, <2>6, <3>1, <3>2 DEF PullPage
  <2>7. ASSUME NEW c \in Client, PullLatest(c)
        PROVE  Inv'
    BY <2>4, <2>7, <2>a, <2>b, LatestQuery DEF PullLatest
  <2>8. ASSUME NEW c \in Client, PullHasMore(c)
        PROVE  Inv'
    <3>1. More(session[c], blobs) \in BOOLEAN /\ session[c].pc = "more"
      BY <2>8 DEF More, HasMoreSince, PullHasMore
    <3>2. LatestInv(WithMore(session[c], More(session[c], blobs), FALSE), blobs)
      BY <2>a, <2>b, <3>1, LatestSteps, Zenon
    <3>3. LatestInv(WithMore(session[c], FALSE, TRUE), blobs)
      BY <2>a, <2>b, <3>1, LatestSteps, Zenon
    <3> QED BY <2>4, <2>8, <3>2, <3>3 DEF PullHasMore
  <2>9. ASSUME NEW c \in Client, PullReply(c)
        PROVE  Inv'
    BY <2>4, <2>9, <2>a, <2>b, LatestSteps DEF PullReply
  <2>10. ASSUME UNCHANGED <<blobs, session>> PROVE Inv'
    BY <2>10 DEF Inv
  <2> QED
    BY <2>2, <2>3, <2>5, <2>6, <2>7, <2>8, <2>9, <2>10
       DEF Next, vars, PullStep, DayPasses, CleanOldOperationLogs
<1>3. Inv => LatestCoversPage
  BY DEF LatestCoversPage, LatestInv
<1> HIDE DEF Inv
<1> QED
  BY <1>1, <1>2, <1>3, TypeCorrect, PagingInvariant, PTL DEF Spec
=============================================================================
