------------------------------ MODULE SyncServer ------------------------------
(***************************************************************************)
(* The server side of synchronisation for one user: the handlers of        *)
(* /api/v1/sync (handler/sync_handler.go), the sync service                *)
(* (service/sync_service.go) and the tables they use.                      *)
(*                                                                         *)
(* Push and batch-delete are one transaction each.  Pull is three separate *)
(* queries outside any transaction, so other requests interleave with it.  *)
(* The callers are API clients that follow doc/api.md: they repeat a pull  *)
(* with cursor = next_cursor while has_more is true.                       *)
(***************************************************************************)
EXTENDS SyncBlobs

CONSTANTS Client,      \* concurrent callers of /sync/pull
          PageLimit,   \* rows per page (100 by default, at most 500)
          MaxBatch,    \* items per push or batch-delete (1000)
          Failures,    \* TRUE: transactions and queries may fail
          MaxVersion,  \* bound: highest version a client sends
          MaxLog       \* bound: operation-log rows

ASSUME ServerAssumption ==
  /\ PageLimit \in Nat \ {0} /\ MaxBatch \in Nat \ {0}
  /\ MaxVersion \in Nat /\ MaxLog \in Nat
  /\ Failures \in BOOLEAN

VARIABLES blobs,    \* sync_blobs
          opLog,    \* sync_operation_logs, counted by age and kind
          session   \* per client: the pull request being served and its page

vars == <<blobs, opLog, session>>

-----------------------------------------------------------------------------
(***************************************************************************)
(* Operation logs.  A logged conflict and an accepted push of version 0    *)
(* are the same row to every query (version = 0); the model keeps them     *)
(* apart.  Rows are recent (last 24 hours) or old.                         *)
(***************************************************************************)
Kind == {"conflict", "accepted0", "accepted"}
Age == {"recent", "old"}

KindOf(rows, batch, i) ==
  CASE i \notin Accepted(rows, batch) -> "conflict"
    [] batch[i].version = 0           -> "accepted0"
    [] OTHER                          -> "accepted"

Logged(rows, batch) ==
  [k \in Kind |-> opLog["recent"][k] +
     Cardinality({i \in Sent(batch) : KindOf(rows, batch, i) = k})]

LogSize(log) == log["conflict"] + log["accepted0"] + log["accepted"]

-----------------------------------------------------------------------------
Idle == [pc |-> "idle", since |-> 0, cursor |-> 0, page |-> {},
         latest |-> 0, next |-> 0, more |-> FALSE,
         got |-> {}, cursors |-> {}, stable |-> {}, failed |-> FALSE]

Session == [pc : {"idle", "page", "latest", "more", "reply", "done"},
            since : Nat, cursor : Nat, page : SUBSET Item,
            latest : Nat, next : Nat, more : BOOLEAN,
            \* history of the session: items received, cursors used, rows
            \* unchanged since it began, whether a query failed
            got : SUBSET Item, cursors : SUBSET Nat, stable : SUBSET Item,
            failed : BOOLEAN]

TypeOK ==
  /\ blobs \in [Item -> Row \union {NoRow}]
  /\ opLog \in [Age -> [Kind -> Nat]]
  /\ session \in [Client -> Session]

Init ==
  /\ blobs = [i \in Item |-> NoRow]
  /\ opLog = [a \in Age |-> [k \in Kind |-> 0]]
  /\ session = [c \in Client |-> Idle]

\* History only: what each session may still expect to find unchanged.
Disturbed(s, items) == [s EXCEPT !.stable = @ \ items]
Disturb(items) == session' = [c \in Client |-> Disturbed(session[c], items)]

-----------------------------------------------------------------------------
(***************************************************************************)
(* Push.  BatchUpsert runs in one transaction: it commits, or fails with   *)
(* an error in every result, or commits while the error is reported all    *)
(* the same (the answer to COMMIT is lost).  Only results without an error *)
(* are logged, by a second statement that may itself fail.                 *)
(***************************************************************************)
PushRequests ==
  {batch \in [Item -> [version : 0..MaxVersion, content : Content]
                        \union {NoRow}] :
     Cardinality(Sent(batch)) \in 1..MaxBatch}

LogPush(batch) ==
  LET log == Logged(blobs, batch)
      full == LogSize(log) + LogSize(opLog["old"]) > MaxLog
  IN  \/ ~full /\ opLog' = [opLog EXCEPT !["recent"] = log]
      \/ (Failures \/ full) /\ UNCHANGED opLog

Push(batch) ==
  /\ blobs' = BatchUpsert(blobs, batch)
  /\ LogPush(batch)
  /\ Disturb(Accepted(blobs, batch))

\* The commit took effect, the caller got an error: nothing is logged.
PushUnconfirmed(batch) ==
  /\ Failures
  /\ blobs' = BatchUpsert(blobs, batch)
  /\ Disturb(Accepted(blobs, batch))
  /\ UNCHANGED opLog

BatchDeleteRequest(items) ==
  /\ items # {} /\ Cardinality(items) <= MaxBatch
  /\ blobs' = BatchDelete(blobs, items)
  /\ Disturb(items)
  /\ UNCHANGED opLog

-----------------------------------------------------------------------------
\* External: an API client starts a pull from the version it has.
Begun(rows, since) == [Idle EXCEPT !.pc = "page", !.since = since,
                                   !.stable = {i \in Item : rows[i] # NoRow}]
PullBegin(c, since) ==
  /\ session[c].pc \in {"idle", "done"}
  /\ session' = [session EXCEPT ![c] = Begun(blobs, since)]
  /\ UNCHANGED <<blobs, opLog>>

\* Mutant: the cursor is ignored, every page starts at since again.
EffectiveSinceNoCursor(s) == s.since

EffectiveSince(s) == IF s.cursor > 0 THEN s.cursor ELSE s.since

\* The cursor that goes with a page: the version of its last row.
NextCursor(rows, page) ==
  IF page = {} THEN 0 ELSE Max({rows[i].version : i \in page})
WithPage(s, page, next) == [s EXCEPT !.pc = "latest", !.page = page, !.next = next]

\* First query.  An error answers the request with a 500.
PullPage(c) ==
  /\ session[c].pc = "page"
  /\ \/ \E page \in PullSincePaginated(blobs, EffectiveSince(session[c]), PageLimit) :
          session' = [session EXCEPT
                        ![c] = WithPage(@, page, NextCursor(blobs, page))]
     \/ Failures /\ session' = [session EXCEPT ![c] = Idle]
  /\ UNCHANGED <<blobs, opLog>>

\* Second query; on an error the response carries latest_version 0.
WithLatest(s, latest) == [s EXCEPT !.pc = "more", !.latest = latest]
PullLatest(c) ==
  /\ session[c].pc = "latest"
  /\ \/ session' = [session EXCEPT ![c] = WithLatest(@, GetLatestVersion(blobs))]
     \/ Failures /\ session' = [session EXCEPT ![c] = WithLatest(@, 0)]
  /\ UNCHANGED <<blobs, opLog>>

\* Third query, only for a page with rows; an error leaves has_more false.
WithMore(s, more, failed) ==
  [s EXCEPT !.pc = "reply", !.more = more, !.failed = failed]
More(s, rows) == s.page # {} /\ HasMoreSince(rows, s.next)
PullHasMore(c) ==
  /\ session[c].pc = "more"
  /\ \/ session' = [session EXCEPT ![c] = WithMore(@, More(@, blobs), FALSE)]
     \/ /\ Failures /\ session[c].page # {}
        /\ session' = [session EXCEPT ![c] = WithMore(@, FALSE, TRUE)]
  /\ UNCHANGED <<blobs, opLog>>

\* External: the client takes the page and asks for the next one if any.
Taken(s) == [s EXCEPT !.pc = IF s.more THEN "page" ELSE "done",
                      !.got = @ \union s.page,
                      !.cursor = s.next,
                      !.cursors = @ \union {s.next}]
PullReply(c) ==
  /\ session[c].pc = "reply"
  /\ session' = [session EXCEPT ![c] = Taken(@)]
  /\ UNCHANGED <<blobs, opLog>>

PullStep(c) == PullPage(c) \/ PullLatest(c) \/ PullHasMore(c) \/ PullReply(c)

-----------------------------------------------------------------------------
\* A day goes by: no row of the log is recent any more.
DayPasses ==
  /\ \E k \in Kind : opLog["recent"][k] > 0
  /\ opLog' = [a \in Age |-> [k \in Kind |->
                 IF a = "recent" THEN 0
                 ELSE opLog["recent"][k] + opLog["old"][k]]]
  /\ UNCHANGED <<blobs, session>>

\* The worker's daily pass removes the log rows older than 30 days.
CleanOldOperationLogs ==
  /\ \E k \in Kind : opLog["old"][k] > 0
  /\ \E left \in [Kind -> 0..MaxLog] :
       /\ \A k \in Kind : left[k] <= opLog["old"][k]
       /\ opLog' = [opLog EXCEPT !["old"] = left]
  /\ UNCHANGED <<blobs, session>>

Next ==
  \/ \E batch \in PushRequests : Push(batch) \/ PushUnconfirmed(batch)
  \/ \E items \in SUBSET Item : BatchDeleteRequest(items)
  \/ \E c \in Client :
       \/ \E since \in 0..MaxVersion : PullBegin(c, since)
       \/ PullStep(c)
  \/ DayPasses
  \/ CleanOldOperationLogs

Spec == Init /\ [][Next]_vars

\* A request being served is answered, and the client goes on paging.
FairSpec == Spec /\ \A c \in Client : WF_vars(PullStep(c))

-----------------------------------------------------------------------------
(***************************************************************************)
(* Properties                                                              *)
(***************************************************************************)
Store == INSTANCE VersionedStore

\* Whatever pushes, lost commits and deletes interleave, a stored blob is only
\* replaced by one with a strictly higher version (BatchUpsert's WHERE clause).
ImplementsVersionedStore == Store!Spec

Missed(c) == {i \in session[c].stable :
                blobs[i].version > session[c].since /\ i \notin session[c].got}

\* A client that pages until has_more is false, while other requests change the
\* table between its queries, misses no row that stayed the same all along,
\* except a row whose version equals one of the cursors it was given.
PagingComplete ==
  \A c \in Client :
    session[c].pc = "done" /\ ~session[c].failed =>
      \A i \in Missed(c) : blobs[i].version \in session[c].cursors

\* latest_version, read by a later query than the page, is not below a row of
\* the page unless that row went away or the query failed.
LatestCoversPage ==
  \A c \in Client :
    session[c].pc \in {"more", "reply"} /\ session[c].latest # 0 =>
      \A i \in session[c].page \intersect session[c].stable :
        blobs[i].version <= session[c].latest

\* Once the table has come to rest, a client that follows next_cursor comes to
\* the last page, whatever pushes and deletes did to the earlier pages: the cursor
\* only moves forward.  (A push can raise a row between every two pages, so while
\* pushes go on nothing bounds the number of pages.)
PagingTerminates ==
  <>[][FALSE]_blobs =>
    \A c \in Client : session[c].pc = "page" ~> session[c].pc \in {"idle", "done"}
=============================
