------------------------------ MODULE SyncSystem ------------------------------
(***************************************************************************)
(* Devices of one user editing notes offline and synchronising them        *)
(* through the server: the client engine (core/sync/sync_engine.dart), the *)
(* local note table (core/database/daos/notes_dao.dart), the cursor        *)
(* (daos/sync_meta_dao.dart), conflict resolution                          *)
(* (core/sync/conflict_resolver.dart) and the server's table (SyncBlobs).  *)
(*                                                                         *)
(* A body is identified by the edit that produced it (edits are numbered   *)
(* in real-time order) and by how many envelopes are still around it.      *)
(* Timestamps are kept as the only thing the code asks of them: whether    *)
(* the local row was written after a server row was (clocks agree).        *)
(*                                                                         *)
(* SyncLifecycle starts one run at a time, but SyncStatusNotifier.sync     *)
(* (pull to refresh, the button in the settings) calls the engine beside   *)
(* it: a device has several runs, which only share the database.           *)
(***************************************************************************)
EXTENDS SyncBlobs

CONSTANTS Device,
          NoNote,      \* "no local row"
          Uploaded,    \* the tables the server may have when the devices join
          PageLimit,   \* rows per pull; the client asks for one page
          Run,         \* the sync runs a device may have at the same time
          Lockable,    \* devices whose encryption key may be locked
          Trashable,   \* notes the users may pin, trash and restore
          Crashes,     \* TRUE: the app may be killed during a sync
          MaxVersion, MaxEdits, MaxWraps, \* bounds
          MaxEditors   \* bound: devices between the halves of updateNote

ASSUME SystemAssumption ==
  /\ PageLimit \in Nat \ {0}
  /\ MaxVersion \in Nat /\ MaxEdits \in Nat /\ MaxWraps \in Nat
  /\ Crashes \in BOOLEAN
  /\ Lockable \subseteq Device /\ Trashable \subseteq Item
  /\ Content = [edit : 1..MaxEdits, wraps : 0..MaxWraps]

Present(rows) == {i \in Item : rows[i] # NoRow}

\* What is stored in the beginning was pushed by a device the user has no longer,
\* all of it before the first edit of the others.
ASSUME UploadedAssumption ==
  \A rows \in Uploaded :
    /\ rows \in [Item -> Row \union {NoRow}]
    /\ \A i \in Present(rows) : rows[i].content.edit = 1

Note == [version : Nat, body : Content, synced : BOOLEAN,
         trashed : BOOLEAN,
         newer : BOOLEAN]  \* updatedAt is later than the server row's

ASSUME NoNoteAssumption == NoNote \notin Note

VARIABLES blobs,     \* the server's sync_blobs
          notes,     \* per device: the notes table
          since,     \* per device: sync_meta['all'].lastSyncedVersion
          unlocked,  \* per device: CryptoService.isUnlocked
          pull,      \* per device and run: SyncEngine.pull() in progress
          push,      \* per device and run: SyncEngine.push() in progress
          editing,   \* per device: updateNote between its read and its write
          edits,     \* number of edits so far
          born,      \* note ids in use (uuids are never reused)
          \* history variables
          accepted,  \* what the server ever accepted
          raced      \* per device: notes rewritten while being pushed

vars == <<blobs, notes, since, unlocked, pull, push, editing, edits, born,
          accepted, raced>>
history == <<accepted, raced>>

-----------------------------------------------------------------------------
Blob == [item : Item, version : Nat, content : Content, newer : BOOLEAN]
Write == [item : Item, version : Nat, content : Content,
          act : {"create", "update", "save", "keep"}, base : Nat]
Edit == [item : Item, version : Nat]
Pull == [pc : {"idle", "page", "latest", "apply", "write", "cursor", "push"},
         from : Nat, page : SUBSET Blob, latest : Nat, last : Nat \union {-1},
         todo : SUBSET Write]
Push == [pc : {"idle", "sent", "reply"}, batch : Batch,
         accepted : SUBSET Item, conflicts : SUBSET Item]

IdlePull == [pc |-> "idle", from |-> 0, page |-> {}, latest |-> 0, last |-> -1,
             todo |-> {}]
Pulled == [IdlePull EXCEPT !.pc = "push"]   \* pull() is done, push() is next
IdlePush == [pc |-> "idle", batch |-> NoBatch,
             accepted |-> {}, conflicts |-> {}]

TypeOK ==
  /\ blobs \in [Item -> Row \union {NoRow}]
  /\ notes \in [Device -> [Item -> Note \union {NoNote}]]
  /\ since \in [Device -> Nat]
  /\ unlocked \in [Device -> BOOLEAN]
  /\ pull \in [Device -> [Run -> Pull]]
  /\ push \in [Device -> [Run -> Push]]
  /\ editing \in [Device -> Edit \union {NoNote}]
  /\ edits \in 0..MaxEdits
  /\ born \subseteq Item
  /\ accepted \subseteq [item : Item, version : Nat, content : Content]
  /\ raced \in [Device -> SUBSET Item]

Init ==
  /\ blobs \in Uploaded
  /\ notes = [d \in Device |-> [i \in Item |-> NoNote]]
  /\ since = [d \in Device |-> 0]
  /\ unlocked = [d \in Device |-> TRUE]
  /\ pull = [d \in Device |-> [r \in Run |-> IdlePull]]
  /\ push = [d \in Device |-> [r \in Run |-> IdlePush]]
  /\ editing = [d \in Device |-> NoNote]
  /\ born = Present(blobs)
  /\ edits = IF born = {} THEN 0 ELSE 1
  /\ accepted = {[item |-> i, version |-> blobs[i].version,
                  content |-> blobs[i].content] : i \in born}
  /\ raced = [d \in Device |-> {}]

Local(d) == {i \in Item : notes[d][i] # NoNote}
Trash(d) == {i \in Local(d) : notes[d][i].trashed}

Pushing(d, i) == \E r \in Run : i \in Sent(push[d][r].batch)

\* History: the row of note i changes under a push that already read it.
Rewrite(d, i) ==
  raced' = [raced EXCEPT ![d] = IF Pushing(d, i) THEN @ \union {i} ELSE @]

\* A local write makes the row later than any copy of the server's row that
\* a running pull holds.
Dated(b, i) == [b EXCEPT !.newer = @ \/ b.item = i]
Outdated(p, i) == [p EXCEPT !.page = {Dated(b, i) : b \in p.page}]
Outdate(d, i) ==
  pull' = [pull EXCEPT ![d] = [r \in Run |-> Outdated(pull[d][r], i)]]

-----------------------------------------------------------------------------
(***************************************************************************)
(* The user.  createNote starts at version 0; updateNote reads the row and *)
(* then writes its version + 1, without a transaction; pinning and the     *)
(* trash only clear isSynced.                                              *)
(***************************************************************************)
Body == [edit |-> edits + 1, wraps |-> 0]

Created(body) == [version |-> 0, body |-> body, synced |-> FALSE,
                  trashed |-> FALSE, newer |-> TRUE]
Updated(note, version, body) ==
  [version |-> version + 1, body |-> body, synced |-> FALSE,
   trashed |-> note.trashed, newer |-> TRUE]
Trashed(note, trashed) == [note EXCEPT !.trashed = trashed, !.synced = FALSE]
Stamped(note, newer) == [note EXCEPT !.newer = newer]
Marked(note, synced) == [note EXCEPT !.synced = synced]

CreateNote(d, i) ==
  /\ i \notin born /\ edits < MaxEdits
  /\ notes' = [notes EXCEPT ![d][i] = Created(Body)]
  /\ born' = born \union {i}
  /\ edits' = edits + 1
  /\ UNCHANGED <<blobs, since, unlocked, pull, push, editing, history>>

UpdateNoteReads(d, i) ==
  /\ editing[d] = NoNote /\ edits < MaxEdits
  /\ Cardinality({e \in Device : editing[e] # NoNote}) < MaxEditors
  /\ notes[d][i] # NoNote
  /\ ~notes[d][i].trashed
  /\ notes[d][i].version < MaxVersion
  /\ editing' = [editing EXCEPT ![d] = [item |-> i, version |-> notes[d][i].version]]
  /\ UNCHANGED <<blobs, notes, since, unlocked, pull, push, edits, born, history>>

\* The write names the row by id; it is lost on a row deleted meanwhile.
UpdateNote(d) ==
  /\ editing[d] # NoNote /\ edits < MaxEdits
  /\ editing' = [editing EXCEPT ![d] = NoNote]
  /\ LET i == editing[d].item
     IN  \/ notes[d][i] = NoNote /\ UNCHANGED <<notes, edits, pull, raced>>
         \/ /\ notes[d][i] # NoNote
            /\ notes' = [notes EXCEPT ![d][i] = Updated(@, editing[d].version, Body)]
            /\ edits' = edits + 1
            /\ Outdate(d, i)
            /\ Rewrite(d, i)
  /\ UNCHANGED <<blobs, since, unlocked, push, born, accepted>>

SoftDeleteNote(d, i) ==
  /\ i \in Trashable /\ notes[d][i] # NoNote
  /\ ~notes[d][i].trashed
  /\ notes' = [notes EXCEPT ![d][i] = Stamped(Trashed(@, TRUE), TRUE)]
  /\ Outdate(d, i)
  /\ UNCHANGED <<blobs, since, unlocked, push, editing, edits, born, history>>

\* The bulk operations on the selected notes leave updatedAt alone.
SetTrashed(d, items, trashed) ==
  notes' = [notes EXCEPT ![d] = [i \in Item |->
    IF i \in items THEN Trashed(notes[d][i], trashed) ELSE notes[d][i]]]

BulkSoftDelete(d, items) ==
  /\ items # {} /\ items \subseteq Local(d) \ Trash(d)
  /\ SetTrashed(d, items, TRUE)
  /\ UNCHANGED <<blobs, since, unlocked, pull, push, editing, edits, born, history>>

\* restoreNote, bulkRestore.
RestoreNotes(d, items) ==
  /\ items # {} /\ items \subseteq Trash(d)
  /\ SetTrashed(d, items, FALSE)
  /\ UNCHANGED <<blobs, since, unlocked, pull, push, editing, edits, born, history>>

\* A pin is local, but bulkPin clears isSynced.
BulkPin(d, items) ==
  /\ items \subseteq Local(d) \ Trash(d)
  /\ \E i \in items : notes[d][i].synced
  /\ notes' = [notes EXCEPT ![d] = [i \in Item |->
       IF i \in items THEN Marked(notes[d][i], FALSE) ELSE notes[d][i]]]
  /\ UNCHANGED <<blobs, since, unlocked, pull, push, editing, edits, born, history>>

\* permanentlyDeleteNote; emptyTrash does it to every trashed note.  Nothing is
\* sent to the server.
PermanentlyDeleteNotes(d, items) ==
  /\ items # {} /\ items \subseteq Trash(d)
  /\ notes' = [notes EXCEPT ![d] = [i \in Item |->
       IF i \in items THEN NoNote ELSE notes[d][i]]]
  /\ raced' = [raced EXCEPT ![d] = @ \union {i \in items : Pushing(d, i)}]
  /\ UNCHANGED <<blobs, since, unlocked, pull, push, editing, edits, born, accepted>>

SetUnlocked(d, b) ==
  /\ d \in Lockable
  /\ unlocked[d] # b
  /\ unlocked' = [unlocked EXCEPT ![d] = b]
  /\ UNCHANGED <<blobs, notes, since, pull, push, editing, edits, born, history>>

-----------------------------------------------------------------------------
(***************************************************************************)
(* pull(): one page after the cursor; the page and the latest version are  *)
(* separate queries on the server.                                         *)
(***************************************************************************)
Snapshot(d, page) ==
  {[item |-> i, version |-> blobs[i].version, content |-> blobs[i].content,
    newer |-> notes[d][i] # NoNote /\ notes[d][i].newer] : i \in page}

Started(from) == [IdlePull EXCEPT !.pc = "page", !.from = from]
WithPage(p, page) == [p EXCEPT !.pc = "latest", !.page = page]
WithLatest(p, latest) == [p EXCEPT !.pc = "apply", !.latest = latest]

\* sync() starts: the cursor is read and the request goes out.
PullStart(d, r) ==
  /\ pull[d][r].pc = "idle"
  /\ pull' = [pull EXCEPT ![d][r] = Started(since[d])]
  /\ UNCHANGED <<blobs, notes, since, unlocked, push, editing, edits, born, history>>

PullPage(d, r) ==
  /\ pull[d][r].pc = "page"
  /\ \E page \in PullSincePaginated(blobs, pull[d][r].from, PageLimit) :
       pull' = [pull EXCEPT ![d][r] = WithPage(@, Snapshot(d, page))]
  /\ UNCHANGED <<blobs, notes, since, unlocked, push, editing, edits, born, history>>

PullLatest(d, r) ==
  /\ pull[d][r].pc = "latest"
  /\ pull' = [pull EXCEPT ![d][r] = WithLatest(@, GetLatestVersion(blobs))]
  /\ UNCHANGED <<blobs, notes, since, unlocked, push, editing, edits, born, history>>

\* The server answers latest_version 0 when that query fails.
PullLatestError(d, r) ==
  /\ pull[d][r].pc = "latest"
  /\ pull' = [pull EXCEPT ![d][r] = WithLatest(@, 0)]
  /\ UNCHANGED <<blobs, notes, since, unlocked, push, editing, edits, born, history>>

\* No response, a blob that cannot be parsed, or the cursor cannot be stored:
\* sync() rethrows and does not push, and the cursor stays.
PullError(d, r) ==
  /\ pull[d][r].pc \in {"page", "latest", "apply", "cursor"}
  /\ pull' = [pull EXCEPT ![d][r] = IdlePull]
  /\ UNCHANGED <<blobs, notes, since, unlocked, push, editing, edits, born, history>>

\* ConflictResolver.resolve without device ids: on a tie local wins.
RemoteWins(b) == ~b.newer

\* A locked device keeps the envelope as it came; an unlocked one unwraps it.
Stored(d, content) ==
  IF unlocked[d] THEN content ELSE [content EXCEPT !.wraps = @ + 1]

\* What _applyNoteBlob decides after reading the local row.
Decision(d, b) ==
  [item |-> b.item, version |-> b.version, content |-> Stored(d, b.content),
   act |-> CASE notes[d][b.item] = NoNote -> "create"
             [] RemoteWins(b)             -> "update"
             [] OTHER                     -> "keep",
   base |-> 0]

Reading(p, b, w) == [p EXCEPT !.pc = "write", !.page = @ \ {b}, !.todo = {w}]
Wrote(p, version) == [p EXCEPT !.pc = "apply", !.last = version, !.todo = {}]
Stopped(p) == [p EXCEPT !.pc = "cursor"]

\* The write comes after awaiting decryption and encryption.
ApplyRead(d, r) ==
  /\ pull[d][r].pc = "apply"
  /\ \E b \in pull[d][r].page :
       /\ \A o \in pull[d][r].page : b.version <= o.version
       /\ unlocked[d] \/ b.content.wraps < MaxWraps
       /\ pull' = [pull EXCEPT ![d][r] = Reading(@, b, Decision(d, b))]
  /\ UNCHANGED <<blobs, notes, since, unlocked, push, editing, edits, born, history>>

\* updateNote reads the row again.
Saving(p, w, version) ==
  [p EXCEPT !.todo = {[w EXCEPT !.act = "save", !.base = version]}]

ApplyReread(d, r) ==
  /\ pull[d][r].pc = "write"
  /\ \E w \in pull[d][r].todo :
       LET note == notes[d][w.item]
       IN  /\ w.act = "update" /\ note # NoNote /\ note.version < MaxVersion
           /\ pull' = [pull EXCEPT ![d][r] = Saving(@, w, note.version)]
  /\ UNCHANGED <<blobs, notes, since, unlocked, push, editing, edits, born, history>>

\* What the write leaves in the row: createNote, or updateNote, which does
\* nothing to a row that was gone when it read it or is gone now.
Applied(note, w) ==
  CASE w.act = "create" -> Created(w.content)
    [] w.act = "save" /\ note # NoNote -> Updated(note, w.base, w.content)
    [] OTHER -> note

\* Another run may have inserted the row meanwhile: createNote then throws.
\* So does a search index that cannot be updated, after the row was written.
ApplyWrite(d, r, indexed) ==
  /\ pull[d][r].pc = "write"
  /\ \E w \in pull[d][r].todo :
       LET note == notes[d][w.item]
           row == Applied(note, w)
           run == IF indexed THEN Wrote(pull[d][r], w.version) ELSE Stopped(pull[d][r])
       IN  /\ w.act = "create" => note = NoNote
           /\ w.act = "update" => note = NoNote
           /\ notes' = [notes EXCEPT ![d][w.item] = row]
           /\ pull' = [pull EXCEPT ![d] = [q \in Run |->
                IF q = r THEN run
                ELSE IF row = note THEN pull[d][q]
                ELSE Outdated(pull[d][q], w.item)]]
           /\ IF row = note THEN UNCHANGED raced ELSE Rewrite(d, w.item)
  /\ UNCHANGED <<blobs, since, unlocked, push, editing, edits, born, accepted>>

\* Any exception ends the loop at this blob.
ApplyError(d, r) ==
  /\ \/ pull[d][r].pc = "write"
     \/ pull[d][r].pc = "apply" /\ pull[d][r].page # {}
  /\ pull' = [pull EXCEPT ![d][r] = Stopped(@)]
  /\ UNCHANGED <<blobs, notes, since, unlocked, push, editing, edits, born, history>>

\* Mutant: the "nothing applied" marker is stored as a cursor.
NextSinceMarker(d, r) == pull[d][r].last

\* Mutant: the cursor is put after the last blob.
NextSinceAfter(d, r) ==
  IF pull[d][r].last # -1 THEN pull[d][r].last + 1
  ELSE IF pull[d][r].pc = "apply" THEN pull[d][r].latest
  ELSE since[d]

\* Mutant: the latest version is stored even when the loop stopped early.
NextSinceLatest(d, r) == pull[d][r].latest

\* The cursor: the last blob applied, or the latest version if there was none.
NextSince(d, r) ==
  IF pull[d][r].last # -1 THEN pull[d][r].last
  ELSE IF pull[d][r].pc = "apply" THEN pull[d][r].latest
  ELSE since[d]

PullDone(d, r) ==
  /\ \/ pull[d][r].pc = "cursor"
     \/ pull[d][r].pc = "apply" /\ pull[d][r].page = {}
  /\ since' = [since EXCEPT ![d] = NextSince(d, r)]
  /\ pull' = [pull EXCEPT ![d][r] = Pulled]
  /\ UNCHANGED <<blobs, notes, unlocked, push, editing, edits, born, history>>

-----------------------------------------------------------------------------
(***************************************************************************)
(* push(): read and encrypt the unsynced notes, send them, mark the        *)
(* accepted ones.  Conflicts are only reported.                            *)
(***************************************************************************)
\* Mutant: a note that was never edited is not sent.
UnsyncedEdited(d) ==
  {i \in Item : notes[d][i] # NoNote /\ ~notes[d][i].synced /\ notes[d][i].version > 0}

Unsynced(d) == {i \in Item : notes[d][i] # NoNote /\ ~notes[d][i].synced}

CanPush(d, r) == pull[d][r].pc = "push" /\ push[d][r].pc = "idle"

\* The run that called push() is over.
EndRun(d, r) == pull' = [pull EXCEPT ![d][r] = IdlePull]

\* What is sent for the notes items of device d.
Gathered(d, items) ==
  [i \in Item |-> IF i \in items
                  THEN [version |-> notes[d][i].version, content |-> notes[d][i].body]
                  ELSE NoRow]
WithBatch(batch) == [IdlePush EXCEPT !.pc = "sent", !.batch = batch]
Answered(q, taken, conflicts) ==
  [q EXCEPT !.pc = "reply", !.accepted = taken, !.conflicts = conflicts]

\* items: the unsynced notes whose encryption succeeded.
Gather(d, r, items) ==
  /\ CanPush(d, r) /\ unlocked[d] /\ items # {}
  /\ push' = [push EXCEPT ![d][r] = WithBatch(Gathered(d, items))]
  /\ raced' = [raced EXCEPT ![d] =
       @ \ {i \in items : ~Pushing(d, i)}]
  /\ UNCHANGED <<blobs, notes, since, unlocked, pull, editing, edits, born, accepted>>

\* Locked, nothing unsynced, or no item could be encrypted: push() returns
\* without a request.
PushNothing(d, r) ==
  /\ CanPush(d, r)
  /\ EndRun(d, r)
  /\ UNCHANGED <<blobs, notes, since, unlocked, push, editing, edits, born, history>>

\* The transaction commits; confirmed: the answer names what was accepted.
\* A commit that only looks failed is answered with two empty lists.
ServerPush(d, r, confirmed) ==
  LET batch == push[d][r].batch
      taken == Accepted(blobs, batch)
  IN  /\ push[d][r].pc = "sent"
      /\ blobs' = BatchUpsert(blobs, batch)
      /\ push' = [push EXCEPT ![d][r] =
           IF confirmed THEN Answered(@, taken, Sent(batch) \ taken)
           ELSE Answered(@, {}, {})]
      /\ notes' = [e \in Device |-> [i \in Item |->
           IF i \in taken /\ notes[e][i] # NoNote
           THEN Stamped(notes[e][i], FALSE) ELSE notes[e][i]]]
      /\ accepted' = accepted \union
           {[item |-> i, version |-> batch[i].version,
             content |-> batch[i].content] : i \in taken}
      /\ UNCHANGED <<since, unlocked, pull, editing, edits, born, raced>>

\* The transaction fails: every result carries an error, the answer is a 200
\* with nothing accepted and no conflict.
ServerPushError(d, r) ==
  /\ push[d][r].pc = "sent"
  /\ push' = [push EXCEPT ![d][r] = Answered(@, {}, {})]
  /\ UNCHANGED <<blobs, notes, since, unlocked, pull, editing, edits, born, history>>

\* Mutant: everything that was sent, conflicts and errors included.
MarkableSent(d, r) == Sent(push[d][r].batch)

\* The ids the answer lists as accepted.
Markable(d, r) == push[d][r].accepted

\* markSyncedBatch by id, whatever the row holds by now.
MarkSynced(d, r) ==
  /\ push[d][r].pc = "reply"
  /\ notes' = [notes EXCEPT ![d] = [i \in Item |->
       IF i \in Markable(d, r) /\ notes[d][i] # NoNote
       THEN Marked(notes[d][i], TRUE) ELSE notes[d][i]]]
  /\ push' = [push EXCEPT ![d][r] = IdlePush]
  /\ EndRun(d, r)
  /\ UNCHANGED <<blobs, since, unlocked, editing, edits, born, history>>

\* The request or its answer is lost; sync() swallows the exception.
PushLost(d, r) ==
  /\ push[d][r].pc \in {"sent", "reply"}
  /\ push' = [push EXCEPT ![d][r] = IdlePush]
  /\ EndRun(d, r)
  /\ UNCHANGED <<blobs, notes, since, unlocked, editing, edits, born, history>>

\* The app is killed: only the database survives.
Crash(d) ==
  /\ Crashes
  /\ \E r \in Run : pull[d][r] # IdlePull
  /\ pull' = [pull EXCEPT ![d] = [r \in Run |-> IdlePull]]
  /\ push' = [push EXCEPT ![d] = [r \in Run |-> IdlePush]]
  /\ unlocked' = [unlocked EXCEPT ![d] = d \notin Lockable]
  /\ editing' = [editing EXCEPT ![d] = NoNote]
  /\ UNCHANGED <<blobs, notes, since, edits, born, history>>
-----------------------------------------------------------------------------
User(d) ==
  \/ \E i \in Item :
       CreateNote(d, i) \/ UpdateNoteReads(d, i) \/ SoftDeleteNote(d, i)
  \/ UpdateNote(d)
  \/ \E items \in SUBSET Trashable :
       \/ BulkSoftDelete(d, items) \/ RestoreNotes(d, items)
       \/ BulkPin(d, items) \/ PermanentlyDeleteNotes(d, items)
  \/ \E b \in BOOLEAN : SetUnlocked(d, b)

PullStep(d, r) ==
  \/ PullStart(d, r) \/ PullPage(d, r) \/ PullLatest(d, r) \/ PullLatestError(d, r)
  \/ PullError(d, r) \/ ApplyRead(d, r) \/ ApplyReread(d, r)
  \/ \E indexed \in BOOLEAN : ApplyWrite(d, r, indexed)
  \/ ApplyError(d, r) \/ PullDone(d, r)

PushStep(d, r) ==
  \/ \E items \in SUBSET Unsynced(d) : Gather(d, r, items)
  \/ PushNothing(d, r)
  \/ \E confirmed \in BOOLEAN : ServerPush(d, r, confirmed)
  \/ ServerPushError(d, r) \/ MarkSynced(d, r) \/ PushLost(d, r)

Next ==
  \E d \in Device :
    User(d) \/ Crash(d) \/ \E r \in Run : PullStep(d, r) \/ PushStep(d, r)

Spec == Init /\ [][Next]_vars

\* A run goes on once it was started, and requests, parsing, encryption, commits
\* and writes to the local database do not fail, nor is the app killed, every
\* time.  Nothing makes a sync start (sync_lifecycle.dart never arms its periodic timer).
RunFairness(d, r) ==
  /\ SF_vars(PullPage(d, r)) /\ SF_vars(PullLatest(d, r))
  /\ SF_vars(ApplyRead(d, r))
  /\ SF_vars(ApplyWrite(d, r, TRUE) \/ ApplyError(d, r))
  /\ SF_vars(PullDone(d, r))
  /\ SF_vars(Gather(d, r, Unsynced(d))) /\ WF_vars(PushNothing(d, r))
  /\ SF_vars(ServerPush(d, r, TRUE)) /\ WF_vars(MarkSynced(d, r))

Fairness == \A d \in Device, r \in Run : RunFairness(d, r)

FairSpec == Spec /\ Fairness

-----------------------------------------------------------------------------
(***************************************************************************)
(* Properties                                                              *)
(***************************************************************************)
\* Two devices that edit the same note from the same version both push that
\* version; the server never accepts two bodies under one (note, version).
VersionNamesContent ==
  \A a, b \in accepted :
    a.item = b.item /\ a.version = b.version => a.content = b.content

\* A note shown as synced is on the server as it stands, or was replaced there
\* by a later version - unless it was rewritten while a push that had already
\* read it was under way (SyncEngine.push marks by id, after its awaits).
SyncedMeansAccepted ==
  \A d \in Device, i \in Item :
    notes[d][i] # NoNote /\ notes[d][i].synced /\ i \notin raced[d] =>
      [item |-> i, version |-> notes[d][i].version,
       content |-> notes[d][i].body] \in accepted

\* A cursor never runs ahead of every version the server stores: the next
\* higher version pushed by any device can still be pulled.
CursorWithinServer ==
  \A d \in Device : since[d] <= GetLatestVersion(blobs)

\* The blobs of the page that were not applied when the loop stopped.
Unapplied(d, r) == pull[d][r].page \union pull[d][r].todo

\* After an exception in the middle of a page, some of whose blobs were applied, a
\* run does not move the cursor past a blob it did not apply.
CursorBelowUnapplied ==
  \A d \in Device, r \in Run :
    pull[d][r].pc = "cursor" /\ NextSince(d, r) # since[d] =>
      \A b \in Unapplied(d, r) : NextSince(d, r) <= b.version

Pushable(d, i) ==
  /\ notes[d][i] # NoNote
  /\ ~notes[d][i].synced
  /\ Accepts(blobs, i, notes[d][i].version)

Starts(d) == \E r \in Run : PullStart(d, r)

\* As long as syncs of its device are started, an unsynced note the server would
\* accept does not wait for ever: its version or a later one reaches the server,
\* although pulls, commits and answers fail any number of times, unless the note
\* is removed or marked by a push that had read it before its last change.
PushProgress ==
  \A d \in Device : []<><<Starts(d)>>_vars =>
    \A i \in Item :
      Pushable(d, i) ~> \/ notes[d][i] = NoNote
                        \/ ~Accepts(blobs, i, notes[d][i].version)
                        \/ notes[d][i].synced /\ i \in raced[d]

(***************************************************************************)
(* A statement of the repository's comments that the code does not keep.   *)
(***************************************************************************)
\* sync_engine.dart: "Push: Encrypt local unsynced items -> POST /sync/push ->
\* mark synced": what is marked is what was sent.
SyncedMeansSent ==
  \A d \in Device, i \in Item :
    notes[d][i] # NoNote /\ notes[d][i].synced =>
      [item |-> i, version |-> notes[d][i].version,
       content |-> notes[d][i].body] \in accepted
=============================================================================
