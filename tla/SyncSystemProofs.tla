--------------------------- MODULE SyncSystemProofs ---------------------------
(***************************************************************************)
(* Theorems about SyncSystem, for any set of devices, any number of notes, *)
(* any page size and any number of sync runs beside each other on a        *)
(* device, with or without locked devices and crashes.                     *)
(***************************************************************************)
EXTENDS SyncSystem, SyncBlobsProofs

-----------------------------------------------------------------------------
(***************************************************************************)
(* Type correctness.                                                       *)
(***************************************************************************)
\* What the statements on the notes table make of a row is a row.
LEMMA NoteType ==
  /\ \A body \in Content : Created(body) \in Note
  /\ \A note \in Note, n \in Nat, body \in Content : Updated(note, n, body) \in Note
  /\ \A note \in Note, b \in BOOLEAN :
       Trashed(note, b) \in Note /\ Stamped(note, b) \in Note /\ Marked(note, b) \in Note
<1>1. ASSUME NEW body \in Content PROVE Created(body) \in Note
  BY DEF Created, Note
<1>2. ASSUME NEW note \in Note, NEW n \in Nat, NEW body \in Content
      PROVE  Updated(note, n, body) \in Note
  BY DEF Updated, Note
<1>3. \A note \in Note, b \in BOOLEAN :
        Trashed(note, b) \in Note /\ Stamped(note, b) \in Note /\ Marked(note, b) \in Note
  BY DEF Trashed, Stamped, Marked, Note
<1> QED BY <1>1, <1>2, <1>3

\* The steps of pull() keep its local variables typed.
LEMMA PullType ==
  /\ IdlePull \in Pull /\ Pulled \in Pull
  /\ \A n \in Nat : Started(n) \in Pull
  /\ \A p \in Pull, page \in SUBSET Blob : WithPage(p, page) \in Pull
  /\ \A p \in Pull, n \in Nat : WithLatest(p, n) \in Pull /\ Wrote(p, n) \in Pull
  /\ \A p \in Pull, b \in Blob, w \in Write : Reading(p, b, w) \in Pull
  /\ \A p \in Pull : Stopped(p) \in Pull
  /\ \A p \in Pull, w \in Write, n \in Nat : Saving(p, w, n) \in Pull
  /\ \A p \in Pull, i \in Item : Outdated(p, i) \in Pull
<1>1. IdlePull \in Pull /\ Pulled \in Pull
  BY DEF IdlePull, Pulled, Pull
<1>2. /\ \A n \in Nat : Started(n) \in Pull
      /\ \A p \in Pull, page \in SUBSET Blob : WithPage(p, page) \in Pull
  BY DEF IdlePull, Started, WithPage, Pull
<1>3. \A p \in Pull, n \in Nat : WithLatest(p, n) \in Pull /\ Wrote(p, n) \in Pull
  BY DEF WithLatest, Wrote, Pull
<1>4. \A p \in Pull, b \in Blob, w \in Write : Reading(p, b, w) \in Pull
  BY DEF Reading, Pull
<1>5. \A p \in Pull : Stopped(p) \in Pull
  BY DEF Stopped, Pull
<1>6. \A p \in Pull, i \in Item : Outdated(p, i) \in Pull
  <2>1. \A b \in Blob, i \in Item : Dated(b, i) \in Blob
    BY DEF Dated, Blob
  <2>2. \A p \in Pull, i \in Item : {Dated(b, i) : b \in p.page} \in SUBSET Blob
    BY <2>1 DEF Pull
  <2> QED BY <2>2 DEF Outdated, Pull
<1>7. \A p \in Pull, w \in Write, n \in Nat : Saving(p, w, n) \in Pull
  <2>1. \A w \in Write, n \in Nat : [w EXCEPT !.act = "save", !.base = n] \in Write
    BY DEF Write
  <2> QED BY <2>1 DEF Saving, Pull
<1> QED BY <1>1, <1>2, <1>3, <1>4, <1>5, <1>6, <1>7

\* The steps of push() keep its local variables typed.
LEMMA PushType ==
  /\ IdlePush \in Push
  /\ \A batch \in Batch : WithBatch(batch) \in Push
  /\ \A q \in Push, taken, conflicts \in SUBSET Item :
       Answered(q, taken, conflicts) \in Push
<1>1. NoBatch \in Batch
  BY DEF NoBatch, Batch
<1> QED BY <1>1 DEF IdlePush, WithBatch, Answered, Push

\* The new body is one of the bodies the bound allows.
LEMMA BodyType == ASSUME TypeOK, edits < MaxEdits PROVE Body \in Content
  BY SystemAssumption DEF TypeOK, Body

\* What is kept of a pulled body is a body.
LEMMA StoredType ==
  ASSUME NEW d \in Device, NEW content \in Content,
         unlocked[d] \/ content.wraps < MaxWraps
  PROVE  Stored(d, content) \in Content
  BY SystemAssumption DEF Stored

\* The copy a pull takes of the server's rows.
LEMMA SnapshotType ==
  ASSUME TypeOK, NEW d \in Device, NEW from,
         NEW page \in SUBSET Newer(blobs, from)
  PROVE  Snapshot(d, page) \in SUBSET Blob
<1> SUFFICES ASSUME NEW i \in page
             PROVE  [item |-> i, version |-> blobs[i].version,
                     content |-> blobs[i].content,
                     newer |-> notes[d][i] # NoNote /\ notes[d][i].newer] \in Blob
  BY DEF Snapshot
<1>1. i \in Item /\ blobs[i] \in Row
  BY DEF TypeOK, Newer
<1>2. (notes[d][i] # NoNote /\ notes[d][i].newer) \in BOOLEAN
  OBVIOUS
<1> QED BY <1>1, <1>2 DEF Blob, Row

\* The decision taken for a blob.
LEMMA DecisionType ==
  ASSUME TypeOK, NEW d \in Device, NEW b \in Blob,
         unlocked[d] \/ b.content.wraps < MaxWraps
  PROVE  Decision(d, b) \in Write
<1>1. b.item \in Item /\ b.version \in Nat /\ b.content \in Content
  BY DEF Blob
<1>2. Stored(d, b.content) \in Content
  BY <1>1, StoredType
<1> QED BY <1>1, <1>2 DEF Decision, Write

\* The row an applied blob leaves.
LEMMA AppliedType ==
  ASSUME NEW note \in Note \union {NoNote}, NEW w \in Write
  PROVE  Applied(note, w) \in Note \union {NoNote}
  BY NoteType DEF Applied, Write

\* Applying a blob writes its row, moves its run, and outdates the copies the
\* other runs of the device hold of that row.
LEMMA ApplyWriteFacts ==
  ASSUME TypeOK, NEW d \in Device, NEW r \in Run, NEW indexed \in BOOLEAN,
         ApplyWrite(d, r, indexed)
  PROVE  \E w \in pull[d][r].todo :
           /\ w \in Write
           /\ notes' = [notes EXCEPT ![d][w.item] = Applied(notes[d][w.item], w)]
           /\ IF Applied(notes[d][w.item], w) = notes[d][w.item]
              THEN UNCHANGED raced ELSE Rewrite(d, w.item)
           /\ pull' \in [Device -> [Run -> Pull]]
           /\ pull'[d][r] \in {Wrote(pull[d][r], w.version), Stopped(pull[d][r])}
           /\ \A e \in Device, s \in Run : e # d \/ s # r =>
                pull'[e][s] \in {pull[e][s], Outdated(pull[e][s], w.item)}
<1>1. PICK w \in pull[d][r].todo :
        /\ notes' = [notes EXCEPT ![d][w.item] = Applied(notes[d][w.item], w)]
        /\ pull' = [pull EXCEPT ![d] = [q \in Run |->
             IF q = r THEN (IF indexed THEN Wrote(pull[d][r], w.version)
                            ELSE Stopped(pull[d][r]))
             ELSE IF Applied(notes[d][w.item], w) = notes[d][w.item] THEN pull[d][q]
             ELSE Outdated(pull[d][q], w.item)]]
        /\ IF Applied(notes[d][w.item], w) = notes[d][w.item]
           THEN UNCHANGED raced ELSE Rewrite(d, w.item)
  BY DEF ApplyWrite
<1>2. w \in Write
  BY DEF TypeOK, Pull
<1>3. pull'[d][r] \in {Wrote(pull[d][r], w.version), Stopped(pull[d][r])}
  BY <1>1 DEF TypeOK
<1>4. \A e \in Device, s \in Run : e # d \/ s # r =>
        pull'[e][s] \in {pull[e][s], Outdated(pull[e][s], w.item)}
  BY <1>1 DEF TypeOK
<1>5. pull' \in [Device -> [Run -> Pull]]
  <2>1. w.item \in Item /\ w.version \in Nat /\ \A q \in Run : pull[d][q] \in Pull
    BY <1>2 DEF TypeOK, Write
  <2>2. /\ Wrote(pull[d][r], w.version) \in Pull /\ Stopped(pull[d][r]) \in Pull
        /\ \A q \in Run : Outdated(pull[d][q], w.item) \in Pull
    BY <2>1, PullType
  <2> QED BY <1>1, <2>1, <2>2 DEF TypeOK
<1> QED BY <1>1, <1>2, <1>3, <1>4, <1>5

\* The write of updateNote: the row is gone and nothing changes, or it gets the
\* version read before and the new body.
LEMMA UpdateNoteFacts ==
  ASSUME TypeOK, NEW d \in Device, UpdateNote(d)
  PROVE  /\ UNCHANGED <<blobs, since, unlocked, push, born, accepted>>
         /\ editing' \in [Device -> Edit \union {NoNote}]
         /\ \/ UNCHANGED <<notes, edits, pull, raced>>
            \/ \E i \in Item, n \in Nat :
                 /\ edits < MaxEdits /\ edits' = edits + 1
                 /\ notes[d][i] # NoNote
                 /\ notes' = [notes EXCEPT ![d][i] = Updated(notes[d][i], n, Body)]
                 /\ Outdate(d, i) /\ Rewrite(d, i)
<1>1. editing[d].item \in Item /\ editing[d].version \in Nat
  BY DEF UpdateNote, TypeOK, Edit
<1>2. editing' \in [Device -> Edit \union {NoNote}]
  BY DEF UpdateNote, TypeOK
<1> QED BY <1>1, <1>2 DEF UpdateNote

\* The batch a push sends.
LEMMA GatheredType ==
  ASSUME TypeOK, NEW d \in Device, NEW items \in SUBSET Unsynced(d)
  PROVE  Gathered(d, items) \in Batch /\ Sent(Gathered(d, items)) = items
<1>1. \A i \in items : /\ i \in Item
                       /\ [version |-> notes[d][i].version,
                           content |-> notes[d][i].body] \in Row
  BY DEF TypeOK, Unsynced, Note, Row
<1> QED BY <1>1, NoRowAssumption DEF Gathered, Batch, Sent

LocalNotes == [Item -> Note \union {NoNote}]

\* Writing one row, or the selected rows, of a device's table.
LEMMA NotesType ==
  ASSUME TypeOK, NEW d \in Device
  PROVE  /\ notes[d] \in LocalNotes
         /\ \A i \in Item, note \in Note \union {NoNote} :
              [notes EXCEPT ![d][i] = note] \in [Device -> LocalNotes]
         /\ \A table \in LocalNotes : [notes EXCEPT ![d] = table] \in [Device -> LocalNotes]
  BY DEF TypeOK, LocalNotes

\* Selected rows exist and stay rows.
LEMMA SelectedType ==
  ASSUME TypeOK, NEW d \in Device, NEW items \in SUBSET Local(d)
  PROVE  /\ \A b \in BOOLEAN :
              SetTrashed(d, items, b) => notes' \in [Device -> LocalNotes]
         /\ \A b \in BOOLEAN :
              [i \in Item |-> IF i \in items THEN Marked(notes[d][i], b)
                              ELSE notes[d][i]] \in LocalNotes
         /\ [i \in Item |-> IF i \in items THEN NoNote ELSE notes[d][i]] \in LocalNotes
<1>1. \A i \in Item : i \in items => notes[d][i] \in Note
  BY DEF TypeOK, Local
<1>2. \A i \in Item : notes[d][i] \in Note \union {NoNote}
  BY DEF TypeOK
<1>3. ASSUME NEW b \in BOOLEAN
      PROVE  [i \in Item |-> IF i \in items THEN Trashed(notes[d][i], b)
                             ELSE notes[d][i]] \in LocalNotes
  BY <1>1, <1>2, NoteType DEF LocalNotes
<1>4. ASSUME NEW b \in BOOLEAN
      PROVE  [i \in Item |-> IF i \in items THEN Marked(notes[d][i], b)
                             ELSE notes[d][i]] \in LocalNotes
  BY <1>1, <1>2, NoteType DEF LocalNotes
<1>5. [i \in Item |-> IF i \in items THEN NoNote ELSE notes[d][i]] \in LocalNotes
  BY <1>2 DEF LocalNotes
<1> QED BY <1>3, <1>4, <1>5, NotesType DEF SetTrashed

\* The devices and the server keep the types of their variables.
THEOREM TypeCorrect == Spec => []TypeOK
<1>1. Init => TypeOK
  <2> SUFFICES ASSUME Init PROVE TypeOK
    OBVIOUS
  <2>1. blobs \in [Item -> Row \union {NoRow}] /\ \A i \in Present(blobs) : blobs[i] \in Row
    BY UploadedAssumption DEF Init, Present
  <2>2. edits \in 0..MaxEdits
    <3>1. CASE Present(blobs) = {}
      BY <3>1, SystemAssumption DEF Init
    <3>2. CASE Present(blobs) # {}
      <4>1. PICK i \in Present(blobs) : TRUE
        BY <3>2
      <4>2. blobs[i].content \in [edit : 1..MaxEdits, wraps : 0..MaxWraps]
        BY <2>1, SystemAssumption DEF Row
      <4>3. 1 \in 0..MaxEdits
        BY <4>1, <4>2, UploadedAssumption, SystemAssumption DEF Init
      <4> QED BY <3>2, <4>3 DEF Init
    <3> QED BY <3>1, <3>2
  <2>3. accepted \subseteq [item : Item, version : Nat, content : Content]
    BY <2>1 DEF Init, Present, Row
  <2> QED BY <2>1, <2>2, <2>3, PullType, PushType, SystemAssumption DEF Init, TypeOK, Present
<1>2. TypeOK /\ [Next]_vars => TypeOK'
  <2> SUFFICES ASSUME TypeOK, [Next]_vars PROVE TypeOK'
    OBVIOUS
  <2> USE DEF LocalNotes
  <2>a. blobs \in Table
    BY DEF TypeOK, Table
  <2>b. ASSUME NEW d \in Device
        PROVE  /\ \A r \in Run : pull[d][r] \in Pull /\ push[d][r] \in Push
               /\ \A r \in Run, q \in Pull :
                    [pull EXCEPT ![d][r] = q] \in [Device -> [Run -> Pull]]
               /\ \A r \in Run, q \in Push :
                    [push EXCEPT ![d][r] = q] \in [Device -> [Run -> Push]]
    BY DEF TypeOK
  <2>c. ASSUME NEW d \in Device, NEW i \in Item, Outdate(d, i)
        PROVE  pull' \in [Device -> [Run -> Pull]]
    <3>1. [r \in Run |-> Outdated(pull[d][r], i)] \in [Run -> Pull]
      BY <2>b, PullType
    <3> QED BY <2>c, <3>1 DEF Outdate, TypeOK
  <2>d. ASSUME NEW d \in Device, NEW r \in Run, EndRun(d, r)
        PROVE  pull' \in [Device -> [Run -> Pull]]
    BY <2>b, <2>d, PullType DEF EndRun, TypeOK
  <2>e. ASSUME NEW d \in Device, NEW i \in Item, Rewrite(d, i)
        PROVE  raced' \in [Device -> SUBSET Item]
    BY <2>e DEF Rewrite, TypeOK
  <2>1. ASSUME NEW d \in Device, NEW i \in Item, CreateNote(d, i)
        PROVE  TypeOK'
    <3>1. Created(Body) \in Note
      BY <2>1, BodyType, NoteType DEF CreateNote
    <3>2. notes' \in [Device -> LocalNotes]
      BY <2>1, <3>1, NotesType DEF CreateNote
    <3>3. edits' \in 0..MaxEdits
      BY <2>1, SystemAssumption DEF CreateNote, TypeOK
    <3> QED BY <2>1, <3>2, <3>3 DEF CreateNote, TypeOK, history
  <2>2. ASSUME NEW d \in Device, UpdateNote(d)
        PROVE  TypeOK'
    <3>1. CASE UNCHANGED <<notes, edits, pull, raced>>
      BY <2>2, <3>1, UpdateNoteFacts DEF TypeOK
    <3>2. ASSUME NEW i \in Item, NEW n \in Nat, edits < MaxEdits, edits' = edits + 1,
                 notes[d][i] # NoNote,
                 notes' = [notes EXCEPT ![d][i] = Updated(notes[d][i], n, Body)],
                 Outdate(d, i), Rewrite(d, i)
          PROVE  TypeOK'
      <4>1. Updated(notes[d][i], n, Body) \in Note
        BY <3>2, BodyType, NoteType DEF TypeOK
      <4>2. notes' \in [Device -> LocalNotes]
        BY <3>2, <4>1, NotesType
      <4>3. edits' \in 0..MaxEdits
        BY <3>2, SystemAssumption DEF TypeOK
      <4>4. pull' \in [Device -> [Run -> Pull]] /\ raced' \in [Device -> SUBSET Item]
        BY <3>2, <2>c, <2>e
      <4> QED BY <2>2, <4>2, <4>3, <4>4, UpdateNoteFacts DEF TypeOK
    <3> QED BY <2>2, <3>1, <3>2, UpdateNoteFacts
  <2>3. ASSUME NEW d \in Device, NEW i \in Item, SoftDeleteNote(d, i)
        PROVE  TypeOK'
    <3>1. Stamped(Trashed(notes[d][i], TRUE), TRUE) \in Note
      <4>1. notes[d][i] \in Note
        BY <2>3 DEF SoftDeleteNote, TypeOK
      <4> QED BY <4>1, NoteType, Zenon
    <3>2. notes' \in [Device -> LocalNotes]
      BY <2>3, <3>1, NotesType DEF SoftDeleteNote
    <3>3. pull' \in [Device -> [Run -> Pull]]
      BY <2>3, <2>c DEF SoftDeleteNote
    <3> QED BY <2>3, <3>2, <3>3 DEF SoftDeleteNote, TypeOK, history
  <2>4. ASSUME NEW d \in Device, NEW items \in SUBSET Trashable,
               BulkSoftDelete(d, items) \/ RestoreNotes(d, items)
        PROVE  TypeOK'
    <3>1. items \in SUBSET Local(d)
      BY <2>4 DEF BulkSoftDelete, RestoreNotes, Trash
    <3>2. notes' \in [Device -> LocalNotes]
      BY <2>4, <3>1, SelectedType DEF BulkSoftDelete, RestoreNotes
    <3> QED BY <2>4, <3>2 DEF BulkSoftDelete, RestoreNotes, TypeOK, history
  <2>5. ASSUME NEW d \in Device, NEW items \in SUBSET Trashable, BulkPin(d, items)
        PROVE  TypeOK'
    <3>1. items \in SUBSET Local(d)
      BY <2>5 DEF BulkPin
    <3> DEFINE table == [i \in Item |-> IF i \in items THEN Marked(notes[d][i], FALSE)
                                        ELSE notes[d][i]]
    <3>2. notes' \in [Device -> LocalNotes]
      <4>1. table \in LocalNotes
        BY <3>1, SelectedType, Zenon
      <4>2. notes' = [notes EXCEPT ![d] = table]
        BY <2>5 DEF BulkPin
      <4> HIDE DEF table
      <4> QED BY <4>1, <4>2, NotesType
    <3> QED BY <2>5, <3>2 DEF BulkPin, TypeOK, history
  <2>6. ASSUME NEW d \in Device, NEW items \in SUBSET Trashable,
               PermanentlyDeleteNotes(d, items)
        PROVE  TypeOK'
    <3>1. items \in SUBSET Local(d)
      BY <2>6 DEF PermanentlyDeleteNotes, Trash
    <3>2. notes' \in [Device -> LocalNotes]
      BY <2>6, <3>1, SelectedType, NotesType DEF PermanentlyDeleteNotes
    <3>3. raced' \in [Device -> SUBSET Item]
      BY <2>6, <3>1 DEF PermanentlyDeleteNotes, Local, TypeOK
    <3> QED BY <2>6, <3>2, <3>3 DEF PermanentlyDeleteNotes, TypeOK
  <2>7. ASSUME NEW d \in Device, NEW b \in BOOLEAN, SetUnlocked(d, b)
        PROVE  TypeOK'
    BY <2>7 DEF SetUnlocked, TypeOK, history
  <2>8. ASSUME NEW d \in Device, NEW r \in Run, PullPage(d, r)
        PROVE  TypeOK'
    <3>1. \A page \in PullSincePaginated(blobs, pull[d][r].from, PageLimit) :
            WithPage(pull[d][r], Snapshot(d, page)) \in Pull
      <4>1. pull[d][r].from \in Nat /\ PageLimit \in Nat \ {0}
        BY <2>b, SystemAssumption DEF Pull
      <4> QED BY <2>a, <2>b, <4>1, PageFacts, SnapshotType, PullType
    <3>2. pull' \in [Device -> [Run -> Pull]]
      BY <2>8, <2>b, <3>1 DEF PullPage
    <3> QED BY <2>8, <3>2 DEF PullPage, TypeOK, history
  <2>9. ASSUME NEW d \in Device, NEW r \in Run,
               \/ PullStart(d, r) \/ PullLatest(d, r)
               \/ PullLatestError(d, r) \/ PullError(d, r)
        PROVE  TypeOK'
    <3>1. PICK q \in {Started(since[d]), WithLatest(pull[d][r], GetLatestVersion(blobs)),
                      WithLatest(pull[d][r], 0), IdlePull} :
            pull' = [pull EXCEPT ![d][r] = q]
      BY <2>9 DEF PullStart, PullLatest, PullLatestError, PullError
    <3>2. pull' \in [Device -> [Run -> Pull]]
      <4>1. /\ pull[d][r] \in Pull /\ 0 \in Nat
            /\ since[d] \in Nat /\ GetLatestVersion(blobs) \in Nat
        BY <2>a, <2>b, LatestBounds DEF TypeOK
      <4>2. q \in Pull
        BY <4>1, PullType, Zenon
      <4> QED BY <2>b, <3>1, <4>2
    <3> QED BY <2>9, <3>2 DEF PullStart, PullLatest, PullLatestError, PullError, TypeOK,
                             history
  <2>10. ASSUME NEW d \in Device, NEW r \in Run, ApplyRead(d, r)
         PROVE  TypeOK'
    <3>1. PICK b \in pull[d][r].page :
            /\ unlocked[d] \/ b.content.wraps < MaxWraps
            /\ pull' = [pull EXCEPT ![d][r] = Reading(@, b, Decision(d, b))]
      BY <2>10 DEF ApplyRead
    <3>2. b \in Blob
      BY <2>b DEF Pull
    <3>3. Reading(pull[d][r], b, Decision(d, b)) \in Pull
      BY <2>b, <3>1, <3>2, DecisionType, PullType
    <3>4. pull' \in [Device -> [Run -> Pull]]
      BY <2>b, <3>1, <3>3
    <3> QED BY <2>10, <3>4 DEF ApplyRead, TypeOK, history
  <2>11. ASSUME NEW d \in Device, NEW r \in Run, NEW indexed \in BOOLEAN,
                ApplyWrite(d, r, indexed)
         PROVE  TypeOK'
    <3>1. PICK w \in Write :
            /\ notes' = [notes EXCEPT ![d][w.item] = Applied(notes[d][w.item], w)]
            /\ UNCHANGED raced \/ Rewrite(d, w.item)
            /\ pull' \in [Device -> [Run -> Pull]]
      BY <2>11, ApplyWriteFacts
    <3>2. w.item \in Item /\ w.version \in Nat
      BY DEF Write
    <3>3. Applied(notes[d][w.item], w) \in Note \union {NoNote}
      BY <3>2, AppliedType DEF TypeOK
    <3>4. notes' \in [Device -> LocalNotes]
      BY <3>1, <3>2, <3>3, NotesType
    <3>5. pull' \in [Device -> [Run -> Pull]]
      BY <3>1
    <3>6. raced' \in [Device -> SUBSET Item]
      BY <2>e, <3>1, <3>2 DEF TypeOK
    <3> QED BY <2>11, <3>4, <3>5, <3>6 DEF ApplyWrite, TypeOK
  <2>12. ASSUME NEW d \in Device, NEW r \in Run, ApplyError(d, r)
         PROVE  TypeOK'
    <3>1. pull' \in [Device -> [Run -> Pull]]
      BY <2>12, <2>b, PullType DEF ApplyError
    <3> QED BY <2>12, <3>1 DEF ApplyError, TypeOK, history
  <2>13. ASSUME NEW d \in Device, NEW r \in Run, PullDone(d, r)
         PROVE  TypeOK'
    <3>1. pull' \in [Device -> [Run -> Pull]]
      BY <2>13, <2>b, PullType DEF PullDone
    <3>2. NextSince(d, r) \in Nat
      <4>1. pull[d][r].last \in Nat \union {-1} /\ pull[d][r].latest \in Nat
        BY <2>b DEF Pull
      <4> QED BY <4>1 DEF NextSince, TypeOK
    <3> QED BY <2>13, <3>1, <3>2 DEF PullDone, TypeOK, history
  <2>14. ASSUME NEW d \in Device, NEW r \in Run, NEW items \in SUBSET Unsynced(d),
                Gather(d, r, items)
         PROVE  TypeOK'
    <3>1. WithBatch(Gathered(d, items)) \in Push
      BY GatheredType, PushType
    <3>2. push' \in [Device -> [Run -> Push]]
      BY <2>14, <2>b, <3>1 DEF Gather
    <3>3. raced' \in [Device -> SUBSET Item]
      BY <2>14 DEF Gather, TypeOK
    <3> QED BY <2>14, <3>2, <3>3 DEF Gather, TypeOK
  <2>15. ASSUME NEW d \in Device, NEW r \in Run, PushNothing(d, r)
         PROVE  TypeOK'
    BY <2>15, <2>d DEF PushNothing, TypeOK, history
  <2>16. ASSUME NEW d \in Device, NEW r \in Run, NEW confirmed \in BOOLEAN,
                ServerPush(d, r, confirmed)
         PROVE  TypeOK'
    <3> DEFINE batch == push[d][r].batch
               taken == Accepted(blobs, batch)
    <3>1. batch \in Batch /\ push[d][r] \in Push
      BY <2>b DEF Push
    <3>2. blobs' \in [Item -> Row \union {NoRow}]
      BY <2>16, <2>a, <3>1, BatchUpsertFacts DEF ServerPush, Table
    <3>3. taken \in SUBSET Item /\ Sent(batch) \ taken \in SUBSET Item
      BY DEF Accepted, Sent
    <3>4. /\ Answered(push[d][r], taken, Sent(batch) \ taken) \in Push
          /\ Answered(push[d][r], {}, {}) \in Push
      BY <3>1, <3>3, PushType
    <3>5. push' \in [Device -> [Run -> Push]]
      BY <2>16, <2>b, <3>4 DEF ServerPush
    <3>6. notes' \in [Device -> LocalNotes]
      <4>1. \A e \in Device, i \in Item : notes[e][i] \in Note \union {NoNote}
        BY DEF TypeOK
      <4>2. \A e \in Device, i \in Item :
              notes[e][i] # NoNote => Stamped(notes[e][i], FALSE) \in Note
        BY <4>1, NoteType
      <4> QED BY <2>16, <4>1, <4>2 DEF ServerPush
    <3>7. accepted' \subseteq [item : Item, version : Nat, content : Content]
      <4>1. \A i \in taken : i \in Item /\ batch[i] \in Row
        BY <2>a, <3>1, <3>3, BatchUpsertFacts
      <4>2. \A i \in taken : [item |-> i, version |-> batch[i].version,
                              content |-> batch[i].content]
                               \in [item : Item, version : Nat, content : Content]
        BY <4>1 DEF Row
      <4> QED BY <2>16, <4>2 DEF ServerPush, TypeOK
    <3> QED BY <2>16, <3>2, <3>5, <3>6, <3>7 DEF ServerPush, TypeOK
  <2>17. ASSUME NEW d \in Device, NEW r \in Run, ServerPushError(d, r)
         PROVE  TypeOK'
    <3>1. push' \in [Device -> [Run -> Push]]
      BY <2>17, <2>b, PushType DEF ServerPushError
    <3> QED BY <2>17, <3>1 DEF ServerPushError, TypeOK, history
  <2>18. ASSUME NEW d \in Device, NEW r \in Run, MarkSynced(d, r)
         PROVE  TypeOK'
    <3> DEFINE items == {i \in Markable(d, r) \intersect Item : notes[d][i] # NoNote}
    <3>1. items \in SUBSET Local(d)
      BY DEF Local
    <3> DEFINE table == [i \in Item |-> IF i \in items THEN Marked(notes[d][i], TRUE)
                                        ELSE notes[d][i]]
    <3>2. notes' = [notes EXCEPT ![d] = table]
      BY <2>18 DEF MarkSynced
    <3>3. notes' \in [Device -> LocalNotes]
      <4> HIDE DEF items
      <4>1. table \in LocalNotes
        BY <3>1, SelectedType, Zenon
      <4> HIDE DEF table
      <4> QED BY <4>1, <3>2, NotesType
    <3>4. push' \in [Device -> [Run -> Push]]
      BY <2>18, <2>b, PushType DEF MarkSynced
    <3>5. pull' \in [Device -> [Run -> Pull]]
      BY <2>18, <2>d DEF MarkSynced
    <3> QED BY <2>18, <3>3, <3>4, <3>5 DEF MarkSynced, TypeOK, history
  <2>19. ASSUME NEW d \in Device, NEW r \in Run, PushLost(d, r)
         PROVE  TypeOK'
    <3>1. push' \in [Device -> [Run -> Push]]
      BY <2>19, <2>b, PushType DEF PushLost
    <3>2. pull' \in [Device -> [Run -> Pull]]
      BY <2>19, <2>d DEF PushLost
    <3> QED BY <2>19, <3>1, <3>2 DEF PushLost, TypeOK, history
  <2>20. ASSUME NEW d \in Device, Crash(d)
         PROVE  TypeOK'
    BY <2>20, PullType, PushType DEF Crash, TypeOK, history
  <2>21. CASE UNCHANGED vars
    BY <2>21 DEF vars, TypeOK
  <2>22. ASSUME NEW d \in Device, NEW i \in Item, UpdateNoteReads(d, i)
         PROVE  TypeOK'
    <3>1. [item |-> i, version |-> notes[d][i].version] \in Edit
      BY <2>22 DEF UpdateNoteReads, TypeOK, Note, Edit
    <3> QED BY <2>22, <3>1 DEF UpdateNoteReads, TypeOK, history
  <2>23. ASSUME NEW d \in Device, NEW r \in Run, ApplyReread(d, r)
         PROVE  TypeOK'
    <3>1. PICK w \in pull[d][r].todo :
            /\ notes[d][w.item] # NoNote
            /\ pull' = [pull EXCEPT ![d][r] = Saving(@, w, notes[d][w.item].version)]
      BY <2>23 DEF ApplyReread
    <3>2. w \in Write /\ w.item \in Item
      BY <2>b DEF Pull, Write
    <3>3. notes[d][w.item].version \in Nat
      BY <3>1, <3>2 DEF TypeOK, Note
    <3>4. pull' \in [Device -> [Run -> Pull]]
      BY <2>b, <3>1, <3>2, <3>3, PullType
    <3> QED BY <2>23, <3>4 DEF ApplyReread, TypeOK, history
  <2> QED
    BY <2>1, <2>2, <2>3, <2>4, <2>5, <2>6, <2>7, <2>8, <2>9, <2>10, <2>11, <2>12,
       <2>13, <2>14, <2>15, <2>16, <2>17, <2>18, <2>19, <2>20, <2>21, <2>22, <2>23
       DEF Next, User, PullStep, PushStep
<1> QED BY <1>1, <1>2, PTL DEF Spec

-----------------------------------------------------------------------------
(***************************************************************************)
(* The server's table.  Only ServerPush writes it.                         *)
(***************************************************************************)
\* No step but a commit of a push touches the server's rows.
LEMMA OnlyPushWrites ==
  ASSUME [Next]_vars
  PROVE  \/ UNCHANGED <<blobs, accepted>>
         \/ \E d \in Device, r \in Run, confirmed \in BOOLEAN :
              ServerPush(d, r, confirmed)
<1>1. ASSUME NEW d \in Device, User(d)
      PROVE  UNCHANGED <<blobs, accepted>>
  BY <1>1 DEF User, history, CreateNote, UpdateNoteReads, UpdateNote, SoftDeleteNote, BulkSoftDelete,
     RestoreNotes, BulkPin, PermanentlyDeleteNotes, SetUnlocked
<1>2. ASSUME NEW d \in Device, NEW r \in Run, PullStep(d, r)
      PROVE  UNCHANGED <<blobs, accepted>>
  BY <1>2 DEF PullStep, history, PullStart, PullPage, PullLatest, PullLatestError, PullError,
     ApplyRead, ApplyReread, ApplyWrite, ApplyError, PullDone
<1>3. ASSUME NEW d \in Device, NEW r \in Run, PushStep(d, r)
      PROVE  \/ UNCHANGED <<blobs, accepted>>
             \/ \E confirmed \in BOOLEAN : ServerPush(d, r, confirmed)
  BY <1>3 DEF PushStep, history, Gather, PushNothing, ServerPushError, MarkSynced,
     PushLost
<1>4. ASSUME NEW d \in Device, Crash(d)
      PROVE  UNCHANGED <<blobs, accepted>>
  BY <1>4 DEF Crash, history
<1>5. CASE UNCHANGED vars
  BY <1>5 DEF vars
<1> QED BY <1>1, <1>2, <1>3, <1>4, <1>5 DEF Next

\* What a commit does to the rows and to the history of accepted rows.
LEMMA CommitFacts ==
  ASSUME TypeOK, NEW d \in Device, NEW r \in Run, NEW confirmed \in BOOLEAN,
         ServerPush(d, r, confirmed)
  PROVE  LET batch == push[d][r].batch
             taken == Accepted(blobs, batch)
         IN  /\ taken \subseteq Item
             /\ \A i \in Item \ taken : blobs'[i] = blobs[i]
             /\ \A i \in taken :
                  /\ blobs'[i] = batch[i] /\ batch[i] \in Row
                  /\ blobs[i] = NoRow \/ blobs[i].version < batch[i].version
             /\ accepted' = accepted \union
                  {[item |-> i, version |-> batch[i].version,
                    content |-> batch[i].content] : i \in taken}
<1> DEFINE batch == push[d][r].batch
<1>1. blobs \in Table /\ batch \in Batch
  BY DEF TypeOK, Table, Push
<1>2. blobs' = BatchUpsert(blobs, batch)
  BY DEF ServerPush
<1>3. Accepted(blobs, batch) \subseteq Item
  BY DEF Accepted, Sent
<1>4. accepted' = accepted \union
        {[item |-> i, version |-> batch[i].version,
          content |-> batch[i].content] : i \in Accepted(blobs, batch)}
  BY DEF ServerPush
<1> HIDE DEF batch
<1>5. /\ \A i \in Item \ Accepted(blobs, batch) : blobs'[i] = blobs[i]
      /\ \A i \in Accepted(blobs, batch) :
           /\ blobs'[i] = batch[i] /\ batch[i] \in Row
           /\ blobs[i] = NoRow \/ blobs[i].version < batch[i].version
  BY <1>1, <1>2, BatchUpsertFacts
<1> QED BY <1>3, <1>4, <1>5 DEF batch

-----------------------------------------------------------------------------
(***************************************************************************)
(* A version names one content.  By itself this is not inductive: what     *)
(* makes it so is that the stored row is at or above everything accepted   *)
(* for its item, so that the next accepted version is a new one.           *)
(***************************************************************************)
AcceptedBelowRow ==
  \A a \in accepted : blobs[a.item] # NoRow /\ a.version <= blobs[a.item].version

\* The server never accepts two contents for one (item, version), whichever
\* devices push it, however often, and whatever answers are lost.
THEOREM VersionNamesOneContent == Spec => []VersionNamesContent
<1> DEFINE Inv == AcceptedBelowRow /\ VersionNamesContent
<1>1. Init => Inv
  <2> SUFFICES ASSUME Init PROVE Inv
    OBVIOUS
  <2>1. blobs \in [Item -> Row \union {NoRow}]
    BY UploadedAssumption DEF Init
  <2>2. \A a \in accepted : /\ a.item \in Item /\ blobs[a.item] \in Row
                           /\ a.version = blobs[a.item].version
                           /\ a.content = blobs[a.item].content
    BY <2>1 DEF Init, Present
  <2>3. \A a \in accepted : blobs[a.item] # NoRow /\ a.version \in Nat
    BY <2>2, NoRowAssumption DEF Row
  <2> QED BY <2>2, <2>3 DEF AcceptedBelowRow, VersionNamesContent
<1>2. TypeOK /\ Inv /\ [Next]_vars => Inv'
  <2> SUFFICES ASSUME TypeOK, Inv, [Next]_vars PROVE Inv'
    OBVIOUS
  <2>1. CASE UNCHANGED <<blobs, accepted>>
    BY <2>1 DEF AcceptedBelowRow, VersionNamesContent
  <2>2. ASSUME NEW d \in Device, NEW r \in Run, NEW confirmed \in BOOLEAN,
               ServerPush(d, r, confirmed)
        PROVE  Inv'
    <3> DEFINE batch == push[d][r].batch
               taken == Accepted(blobs, batch)
               New(i) == [item |-> i, version |-> batch[i].version,
                          content |-> batch[i].content]
    <3>1. /\ taken \subseteq Item
          /\ \A i \in Item \ taken : blobs'[i] = blobs[i]
          /\ \A i \in taken :
               /\ blobs'[i] = batch[i] /\ batch[i] \in Row
               /\ blobs[i] = NoRow \/ blobs[i].version < batch[i].version
          /\ accepted' = accepted \union {New(i) : i \in taken}
      BY <2>2, CommitFacts
    <3> HIDE DEF batch, taken
    <3>2. \A a \in accepted : a.item \in Item /\ a.version \in Nat
      BY DEF TypeOK
    <3>3. \A i \in Item : blobs[i] # NoRow => blobs[i].version \in Nat
      BY DEF TypeOK, Row
    <3>4. \A i \in taken : batch[i] # NoRow /\ batch[i].version \in Nat
      BY <3>1, NoRowAssumption DEF Row
    <3>5. \A a \in accepted : a.item \in taken => a.version < batch[a.item].version
      BY <3>1, <3>2, <3>3, <3>4 DEF AcceptedBelowRow
    <3>6. AcceptedBelowRow'
      <4>1. ASSUME NEW a \in accepted
            PROVE  blobs'[a.item] # NoRow /\ a.version <= blobs'[a.item].version
        BY <3>1, <3>2, <3>4, <3>5 DEF AcceptedBelowRow
      <4>2. ASSUME NEW i \in taken
            PROVE  /\ blobs'[New(i).item] # NoRow
                   /\ New(i).version <= blobs'[New(i).item].version
        BY <3>1, <3>4
      <4> QED BY <3>1, <4>1, <4>2 DEF AcceptedBelowRow
    <3>7. VersionNamesContent'
      <4> SUFFICES ASSUME NEW a \in accepted', NEW b \in accepted',
                          a.item = b.item, a.version = b.version
                   PROVE  a.content = b.content
        BY DEF VersionNamesContent
      <4>1. CASE a \in accepted /\ b \in accepted
        BY <4>1 DEF VersionNamesContent
      <4>2. ASSUME NEW i \in taken, a = New(i), b \in accepted PROVE FALSE
        BY <4>2, <3>2, <3>4, <3>5
      <4>3. ASSUME NEW i \in taken, b = New(i), a \in accepted PROVE FALSE
        BY <4>3, <3>2, <3>4, <3>5
      <4>4. ASSUME NEW i \in taken, NEW j \in taken, a = New(i), b = New(j)
            PROVE  a.content = b.content
        BY <4>4
      <4> QED BY <3>1, <4>1, <4>2, <4>3, <4>4
    <3> QED BY <3>6, <3>7
  <2> QED BY <2>1, <2>2, OnlyPushWrites
<1> QED BY <1>1, <1>2, TypeCorrect, PTL DEF Spec

-----------------------------------------------------------------------------
(***************************************************************************)
(* Note ids.  A note id in use anywhere was created somewhere (born), so   *)
(* that creating a note never touches a row that a push or pull is about.  *)
(***************************************************************************)
BornInv ==
  /\ \A d \in Device, i \in Item : notes[d][i] # NoNote => i \in born
  /\ \A i \in Item : blobs[i] # NoRow => i \in born
  /\ \A d \in Device, r \in Run : Sent(push[d][r].batch) \subseteq born
  /\ \A d \in Device, r \in Run : /\ \A b \in pull[d][r].page : b.item \in born
                                 /\ \A w \in pull[d][r].todo : w.item \in born

\* The fields of a pull that each of its steps changes.
LEMMA PullFields ==
  ASSUME NEW q \in Pull
  PROVE  /\ IdlePull.page = {} /\ IdlePull.todo = {}
         /\ IdlePull.latest = 0 /\ IdlePull.last = -1
         /\ Pulled.page = {} /\ Pulled.todo = {} /\ Pulled.latest = 0 /\ Pulled.last = -1
         /\ \A n : /\ Started(n).page = {} /\ Started(n).todo = {}
                   /\ Started(n).latest = 0 /\ Started(n).last = -1
         /\ \A page : /\ WithPage(q, page).page = page /\ WithPage(q, page).todo = q.todo
                      /\ WithPage(q, page).latest = q.latest
                      /\ WithPage(q, page).last = q.last
         /\ \A n : /\ WithLatest(q, n).page = q.page /\ WithLatest(q, n).todo = q.todo
                   /\ WithLatest(q, n).latest = n /\ WithLatest(q, n).last = q.last
         /\ \A n : /\ Wrote(q, n).page = q.page /\ Wrote(q, n).todo = {}
                   /\ Wrote(q, n).latest = q.latest /\ Wrote(q, n).last = n
         /\ \A b, w : /\ Reading(q, b, w).page = q.page \ {b}
                      /\ Reading(q, b, w).todo = {w}
                      /\ Reading(q, b, w).latest = q.latest
                      /\ Reading(q, b, w).last = q.last
         /\ /\ Stopped(q).page = q.page /\ Stopped(q).todo = q.todo
            /\ Stopped(q).latest = q.latest /\ Stopped(q).last = q.last
         /\ \A i : /\ Outdated(q, i).page = {Dated(b, i) : b \in q.page}
                   /\ Outdated(q, i).todo = q.todo
                   /\ Outdated(q, i).latest = q.latest
                   /\ Outdated(q, i).last = q.last
<1>1. /\ IdlePull.page = {} /\ IdlePull.todo = {}
      /\ IdlePull.latest = 0 /\ IdlePull.last = -1
      /\ Pulled.page = {} /\ Pulled.todo = {} /\ Pulled.latest = 0 /\ Pulled.last = -1
  BY DEF IdlePull, Pulled
<1>2. ASSUME NEW page
      PROVE  /\ WithPage(q, page).page = page /\ WithPage(q, page).todo = q.todo
             /\ WithPage(q, page).latest = q.latest /\ WithPage(q, page).last = q.last
  BY DEF WithPage, Pull
<1>3. ASSUME NEW n
      PROVE  /\ WithLatest(q, n).page = q.page /\ WithLatest(q, n).todo = q.todo
             /\ WithLatest(q, n).latest = n /\ WithLatest(q, n).last = q.last
             /\ Wrote(q, n).page = q.page /\ Wrote(q, n).todo = {}
             /\ Wrote(q, n).latest = q.latest /\ Wrote(q, n).last = n
  BY DEF WithLatest, Wrote, Pull
<1>4. ASSUME NEW b, NEW w
      PROVE  /\ Reading(q, b, w).page = q.page \ {b}
             /\ Reading(q, b, w).todo = {w}
             /\ Reading(q, b, w).latest = q.latest
             /\ Reading(q, b, w).last = q.last
  BY DEF Reading, Pull
<1>5. /\ Stopped(q).page = q.page /\ Stopped(q).todo = q.todo
      /\ Stopped(q).latest = q.latest /\ Stopped(q).last = q.last
  BY DEF Stopped, Pull
<1>6. ASSUME NEW i
      PROVE  /\ Outdated(q, i).page = {Dated(b, i) : b \in q.page}
             /\ Outdated(q, i).todo = q.todo
             /\ Outdated(q, i).latest = q.latest
             /\ Outdated(q, i).last = q.last
  BY DEF Outdated, Pull
<1>7. ASSUME NEW n
      PROVE  /\ Started(n).page = {} /\ Started(n).todo = {}
             /\ Started(n).latest = 0 /\ Started(n).last = -1
  BY DEF Started, IdlePull
<1> QED BY <1>1, <1>2, <1>3, <1>4, <1>5, <1>6, <1>7

\* A blob about to be saved keeps its note and its version.
LEMMA SavingFields ==
  ASSUME NEW q \in Pull, NEW w \in Write, NEW n
  PROVE  /\ Saving(q, w, n).page = q.page
         /\ \A x \in Saving(q, w, n).todo : x.item = w.item /\ x.version = w.version
         /\ Saving(q, w, n).latest = q.latest
         /\ Saving(q, w, n).last = q.last
  BY DEF Saving, Pull, Write

\* The copies a pull holds after one is outdated.
LEMMA DatedFields ==
  ASSUME NEW b \in Blob, NEW i
  PROVE  Dated(b, i).item = b.item /\ Dated(b, i).version = b.version
  BY DEF Dated, Blob

\* The batches in flight after each step of push().
LEMMA PushFields ==
  ASSUME NEW q \in Push
  PROVE  /\ IdlePush.batch = NoBatch /\ IdlePush.accepted = {} /\ Sent(NoBatch) = {}
         /\ \A batch : WithBatch(batch).batch = batch /\ WithBatch(batch).accepted = {}
         /\ \A t, c : Answered(q, t, c).batch = q.batch /\ Answered(q, t, c).accepted = t
<1>1. IdlePush.batch = NoBatch /\ IdlePush.accepted = {} /\ Sent(NoBatch) = {}
  BY DEF IdlePush, Sent, NoBatch
<1>2. ASSUME NEW batch
      PROVE  WithBatch(batch).batch = batch /\ WithBatch(batch).accepted = {}
  BY DEF WithBatch, IdlePush
<1>3. ASSUME NEW t, NEW c
      PROVE  Answered(q, t, c).batch = q.batch /\ Answered(q, t, c).accepted = t
  BY DEF Answered, Push
<1> QED BY <1>1, <1>2, <1>3

\* Every id in a table, a batch or a page belongs to a note that was created.
LEMMA BornInvariant == Spec => []BornInv
<1>1. Init => BornInv
  <2>1. Sent(NoBatch) = {} /\ IdlePush.batch = NoBatch /\ IdlePull.page = {} /\ IdlePull.todo = {}
    BY DEF Sent, NoBatch, IdlePush, IdlePull
  <2> QED BY <2>1 DEF Init, BornInv, Present
<1>2. TypeOK /\ BornInv /\ [Next]_vars => BornInv'
  <2> SUFFICES ASSUME TypeOK, BornInv, [Next]_vars PROVE BornInv'
    OBVIOUS
  <2> DEFINE Within(q, S) == (\A b \in q.page : b.item \in S) /\ (\A w \in q.todo : w.item \in S)
  <2>a. \A d \in Device, r \in Run : pull[d][r] \in Pull /\ Within(pull[d][r], born)
    BY DEF BornInv, TypeOK
  <2>b. \A d \in Device, r \in Run :
          push[d][r] \in Push /\ Sent(push[d][r].batch) \subseteq born
    BY DEF BornInv, TypeOK
  <2>c. ASSUME NEW d \in Device, NEW r \in Run, NEW q, Within(q, born),
               pull' = [pull EXCEPT ![d][r] = q]
        PROVE  \A e \in Device, s \in Run : Within(pull'[e][s], born)
    BY <2>a, <2>c DEF TypeOK
  <2>d. ASSUME NEW d \in Device, NEW r \in Run, NEW q, Sent(q.batch) \subseteq born,
               push' = [push EXCEPT ![d][r] = q]
        PROVE  \A e \in Device, s \in Run : Sent(push'[e][s].batch) \subseteq born
    BY <2>b, <2>d DEF TypeOK
  <2>e. Within(IdlePull, born) /\ Within(Pulled, born)
    BY DEF IdlePull, Pulled
  <2>f. ASSUME NEW d \in Device, NEW r \in Run, NEW i \in Item
        PROVE  Within(Outdated(pull[d][r], i), born)
    <3>1. \A b \in pull[d][r].page : Dated(b, i).item = b.item
      BY <2>a, DatedFields DEF Pull
    <3> QED BY <3>1, <2>a, PullFields
  <2>g. ASSUME NEW d \in Device, NEW i \in Item, Outdate(d, i)
        PROVE  \A e \in Device, s \in Run : Within(pull'[e][s], born)
    <3>1. \A r \in Run : pull'[d][r] = Outdated(pull[d][r], i)
      BY <2>g DEF Outdate, TypeOK
    <3>2. \A e \in Device \ {d} : pull'[e] = pull[e]
      BY <2>g DEF Outdate, TypeOK
    <3> HIDE DEF Within
    <3> QED BY <2>a, <2>f, <3>1, <3>2
  <2>h. ASSUME NEW d \in Device, NEW r \in Run, EndRun(d, r)
        PROVE  \A e \in Device, s \in Run : Within(pull'[e][s], born)
    <3> HIDE DEF Within
    <3> QED BY <2>a, <2>c, <2>e, <2>h DEF EndRun
  <2>1. ASSUME NEW d \in Device, NEW i \in Item, CreateNote(d, i)
        PROVE  BornInv'
    <3>1. \A e \in Device, j \in Item : notes'[e][j] # NoNote => j \in born'
      BY <2>1 DEF CreateNote, BornInv, TypeOK
    <3> QED BY <2>1, <3>1 DEF CreateNote, BornInv
  <2>i. ASSUME NEW d \in Device, NEW i \in Item, NEW note,
               notes' = [notes EXCEPT ![d][i] = note], notes[d][i] # NoNote,
               Outdate(d, i), UNCHANGED <<blobs, push, born>>
        PROVE  BornInv'
    <3>1. \A e \in Device, j \in Item : notes'[e][j] # NoNote => j \in born
      BY <2>i DEF BornInv, TypeOK
    <3>2. \A e \in Device, s \in Run : Within(pull'[e][s], born)
      BY <2>i, <2>g
    <3> QED BY <2>i, <3>1, <3>2 DEF BornInv
  <2>2. ASSUME NEW d \in Device, UpdateNote(d) PROVE BornInv'
    <3>1. CASE UNCHANGED <<notes, edits, pull, raced>>
      BY <2>2, <3>1, UpdateNoteFacts DEF BornInv
    <3>2. CASE ~UNCHANGED <<notes, edits, pull, raced>>
      <4>1. PICK i \in Item, n \in Nat :
              /\ notes[d][i] # NoNote
              /\ notes' = [notes EXCEPT ![d][i] = Updated(notes[d][i], n, Body)]
              /\ Outdate(d, i)
        BY <2>2, <3>2, UpdateNoteFacts
      <4> QED BY <2>2, <2>i, <4>1, UpdateNoteFacts
    <3> QED BY <3>1, <3>2
  <2>16. ASSUME NEW d \in Device, NEW i \in Item, SoftDeleteNote(d, i)
         PROVE  BornInv'
    BY <2>i, <2>16 DEF SoftDeleteNote
  <2>17. ASSUME NEW d \in Device, NEW i \in Item, UpdateNoteReads(d, i)
         PROVE  BornInv'
    BY <2>17 DEF UpdateNoteReads, BornInv
  <2>18. ASSUME NEW d \in Device, NEW r \in Run, ApplyReread(d, r)
         PROVE  BornInv'
    <3>1. PICK w \in pull[d][r].todo :
            pull' = [pull EXCEPT ![d][r] = Saving(@, w, notes[d][w.item].version)]
      BY <2>18 DEF ApplyReread
    <3>2. w \in Write /\ w.item \in born
      BY <2>a DEF Pull
    <3>3. Within(Saving(pull[d][r], w, notes[d][w.item].version), born)
      BY <2>a, <3>2, SavingFields
    <3>4. \A e \in Device, s \in Run : Within(pull'[e][s], born)
      <4> HIDE DEF Within
      <4> QED BY <2>c, <3>1, <3>3
    <3> QED BY <2>18, <3>4 DEF ApplyReread, BornInv
  <2>3. ASSUME NEW d \in Device, NEW items \in SUBSET Trashable,
               \/ BulkSoftDelete(d, items) \/ RestoreNotes(d, items)
               \/ BulkPin(d, items) \/ PermanentlyDeleteNotes(d, items)
        PROVE  BornInv'
    <3>1. \A i \in items : i \in Item => notes[d][i] # NoNote
      BY <2>3 DEF BulkSoftDelete, RestoreNotes, BulkPin, PermanentlyDeleteNotes,
                  Trash, Local
    <3>a. PICK table : /\ notes' = [notes EXCEPT ![d] = table]
                       /\ \A j \in Item \ items : table[j] = notes[d][j]
      <4>1. CASE BulkSoftDelete(d, items) \/ RestoreNotes(d, items)
        BY <4>1 DEF BulkSoftDelete, RestoreNotes, SetTrashed
      <4>2. CASE BulkPin(d, items)
        BY <4>2 DEF BulkPin
      <4>3. CASE PermanentlyDeleteNotes(d, items)
        BY <4>3 DEF PermanentlyDeleteNotes
      <4> QED BY <2>3, <4>1, <4>2, <4>3
    <3>2. \A e \in Device, j \in Item : notes'[e][j] # NoNote => notes[e][j] # NoNote
      BY <3>1, <3>a DEF TypeOK
    <3> QED BY <2>3, <3>2 DEF BulkSoftDelete, RestoreNotes, BulkPin,
            PermanentlyDeleteNotes, BornInv
  <2>4. ASSUME NEW d \in Device, NEW r \in Run, PullPage(d, r)
        PROVE  BornInv'
    <3>1. \A page \in PullSincePaginated(blobs, pull[d][r].from, PageLimit) :
            Within(WithPage(pull[d][r], Snapshot(d, page)), born)
      <4>1. \A page \in PullSincePaginated(blobs, pull[d][r].from, PageLimit) :
              page \subseteq Newer(blobs, pull[d][r].from)
        <5>1. blobs \in Table /\ pull[d][r].from \in Nat /\ PageLimit \in Nat \ {0}
          BY <2>a, SystemAssumption DEF TypeOK, Table, Pull
        <5> QED BY <5>1, PageFacts
      <4>2. \A page : \A b \in Snapshot(d, page) : b.item \in page
        BY DEF Snapshot
      <4>3. Newer(blobs, pull[d][r].from) \subseteq born
        BY DEF Newer, BornInv
      <4> QED BY <4>1, <4>2, <4>3, <2>a, PullFields
    <3>2. \A e \in Device, s \in Run : Within(pull'[e][s], born)
      <4> HIDE DEF Within
      <4> QED BY <2>4, <2>c, <3>1 DEF PullPage
    <3> QED BY <2>4, <3>2 DEF PullPage, BornInv
  <2>5. ASSUME NEW d \in Device, NEW r \in Run,
               \/ PullStart(d, r) \/ PullLatest(d, r)
               \/ PullLatestError(d, r) \/ PullError(d, r)
        PROVE  BornInv'
    <3>1. \A n : Within(WithLatest(pull[d][r], n), born) /\ Within(Started(n), born)
      BY <2>a, PullFields
    <3>2. \A e \in Device, s \in Run : Within(pull'[e][s], born)
      <4> HIDE DEF Within
      <4> QED BY <2>5, <2>c, <2>e, <3>1
             DEF PullStart, PullLatest, PullLatestError, PullError
    <3> QED BY <2>5, <3>2 DEF PullStart, PullLatest, PullLatestError, PullError, BornInv
  <2>6. ASSUME NEW d \in Device, NEW r \in Run, ApplyRead(d, r)
        PROVE  BornInv'
    <3>1. PICK b \in pull[d][r].page :
            pull' = [pull EXCEPT ![d][r] = Reading(@, b, Decision(d, b))]
      BY <2>6 DEF ApplyRead
    <3>2. Decision(d, b).item = b.item
      BY DEF Decision
    <3>3. Within(Reading(pull[d][r], b, Decision(d, b)), born)
      BY <2>a, <3>2, PullFields
    <3>4. \A e \in Device, s \in Run : Within(pull'[e][s], born)
      <4> HIDE DEF Within
      <4> QED BY <2>c, <3>1, <3>3
    <3> QED BY <2>6, <3>4 DEF ApplyRead, BornInv
  <2>7. ASSUME NEW d \in Device, NEW r \in Run, NEW indexed \in BOOLEAN,
               ApplyWrite(d, r, indexed)
        PROVE  BornInv'
    <3>1. PICK w \in pull[d][r].todo :
            /\ w \in Write
            /\ notes' = [notes EXCEPT ![d][w.item] = Applied(notes[d][w.item], w)]
            /\ pull'[d][r] \in {Wrote(pull[d][r], w.version), Stopped(pull[d][r])}
            /\ \A e \in Device, s \in Run : e # d \/ s # r =>
                 pull'[e][s] \in {pull[e][s], Outdated(pull[e][s], w.item)}
      BY <2>7, ApplyWriteFacts
    <3>2. /\ w.item \in born /\ w.item \in Item
          /\ Within(Wrote(pull[d][r], w.version), born) /\ Within(Stopped(pull[d][r]), born)
      BY <2>a, <3>1, PullFields DEF Write
    <3>3. \A e \in Device, j \in Item : notes'[e][j] # NoNote => j \in born
      BY <3>1, <3>2 DEF BornInv, TypeOK
    <3>4. \A e \in Device, s \in Run : Within(pull'[e][s], born)
      <4> HIDE DEF Within
      <4> QED BY <2>a, <2>f, <3>1, <3>2
    <3> QED BY <2>7, <3>3, <3>4 DEF ApplyWrite, BornInv
  <2>8. ASSUME NEW d \in Device, NEW r \in Run, ApplyError(d, r) \/ PullDone(d, r)
        PROVE  BornInv'
    <3>1. Within(Stopped(pull[d][r]), born)
      BY <2>a, PullFields
    <3>2. \A e \in Device, s \in Run : Within(pull'[e][s], born)
      <4> HIDE DEF Within
      <4> QED BY <2>8, <2>c, <2>e, <3>1 DEF ApplyError, PullDone
    <3> QED BY <2>8, <3>2 DEF ApplyError, PullDone, BornInv
  <2>9. ASSUME NEW d \in Device, NEW r \in Run, NEW items \in SUBSET Unsynced(d),
               Gather(d, r, items)
        PROVE  BornInv'
    <3>1. Sent(WithBatch(Gathered(d, items)).batch) = items
      BY <2>b, GatheredType, PushFields
    <3>2. items \subseteq born
      BY DEF Unsynced, BornInv
    <3>3. \A e \in Device, s \in Run : Sent(push'[e][s].batch) \subseteq born
      BY <2>9, <2>d, <3>1, <3>2 DEF Gather
    <3> QED BY <2>9, <3>3 DEF Gather, BornInv
  <2>10. ASSUME NEW d \in Device, NEW r \in Run, NEW confirmed \in BOOLEAN,
                ServerPush(d, r, confirmed)
         PROVE  BornInv'
    <3>1. \A t, c : Sent(Answered(push[d][r], t, c).batch) \subseteq born
      BY <2>b, PushFields
    <3>2. \A e \in Device, s \in Run : Sent(push'[e][s].batch) \subseteq born
      BY <2>10, <2>d, <3>1 DEF ServerPush
    <3>3. Accepted(blobs, push[d][r].batch) \subseteq born
      BY <2>b DEF Accepted
    <3>4. \A i \in Item : blobs'[i] # NoRow => i \in born
      BY <2>10, <3>3, CommitFacts DEF BornInv
    <3>5. \A e \in Device, j \in Item : notes'[e][j] # NoNote => j \in born
      BY <2>10 DEF ServerPush, BornInv
    <3> QED BY <2>10, <3>2, <3>4, <3>5 DEF ServerPush, BornInv
  <2>11. ASSUME NEW d \in Device, NEW r \in Run,
                ServerPushError(d, r) \/ MarkSynced(d, r) \/ PushLost(d, r)
         PROVE  BornInv'
    <3>1. /\ \A t, c : Sent(Answered(push[d][r], t, c).batch) \subseteq born
          /\ Sent(IdlePush.batch) \subseteq born
      BY <2>b, PushFields
    <3>2. \A e \in Device, s \in Run : Sent(push'[e][s].batch) \subseteq born
      BY <2>11, <2>d, <3>1 DEF ServerPushError, MarkSynced, PushLost
    <3>3. \A e \in Device, j \in Item : notes'[e][j] # NoNote => j \in born
      <4>1. CASE MarkSynced(d, r)
        <5> DEFINE table == [j \in Item |->
                     IF j \in Markable(d, r) /\ notes[d][j] # NoNote
                     THEN Marked(notes[d][j], TRUE) ELSE notes[d][j]]
        <5>1. notes' = [notes EXCEPT ![d] = table]
          BY <4>1 DEF MarkSynced
        <5>2. \A j \in Item : notes[d][j] = NoNote => table[j] = NoNote
          OBVIOUS
        <5> HIDE DEF table
        <5> QED BY <5>1, <5>2 DEF BornInv, TypeOK
      <4>2. CASE ServerPushError(d, r) \/ PushLost(d, r)
        BY <4>2 DEF ServerPushError, PushLost, BornInv
      <4> QED BY <2>11, <4>1, <4>2
    <3>4. \A e \in Device, s \in Run : Within(pull'[e][s], born)
      BY <2>11, <2>a, <2>h DEF ServerPushError, MarkSynced, PushLost
    <3> QED BY <2>11, <3>2, <3>3, <3>4 DEF ServerPushError, MarkSynced, PushLost, BornInv
  <2>12. ASSUME NEW d \in Device, NEW r \in Run, PushNothing(d, r)
         PROVE  BornInv'
    BY <2>12, <2>h DEF PushNothing, BornInv
  <2>13. ASSUME NEW d \in Device, Crash(d)
         PROVE  BornInv'
    <3>1. \A e \in Device, s \in Run : Within(pull'[e][s], born)
      <4> HIDE DEF Within
      <4> QED BY <2>13, <2>a, <2>e DEF Crash, TypeOK
    <3>2. \A e \in Device, s \in Run : Sent(push'[e][s].batch) \subseteq born
      BY <2>13, <2>b, PushFields, PushType DEF Crash, TypeOK
    <3> QED BY <2>13, <3>1, <3>2 DEF Crash, BornInv
  <2>14. ASSUME NEW d \in Device, NEW b \in BOOLEAN, SetUnlocked(d, b)
         PROVE  BornInv'
    BY <2>14 DEF SetUnlocked, BornInv
  <2>15. CASE UNCHANGED vars
    BY <2>15 DEF vars, BornInv
  <2> QED
    BY <2>1, <2>2, <2>3, <2>4, <2>5, <2>6, <2>7, <2>8, <2>9, <2>10, <2>11, <2>12,
       <2>13, <2>14, <2>15, <2>16, <2>17, <2>18 DEF Next, User, PullStep, PushStep
<1> QED BY <1>1, <1>2, TypeCorrect, PTL DEF Spec

-----------------------------------------------------------------------------
(***************************************************************************)
(* What "synced" means.  Marking is right because, until the row is        *)
(* rewritten (raced), the batch in flight is the row (BatchInv), and every *)
(* id in an answer was accepted with the content of the batch (AnswerInv). *)
(***************************************************************************)
Record(i, version, content) == [item |-> i, version |-> version, content |-> content]

BatchInv ==
  \A d \in Device, r \in Run : \A i \in Sent(push[d][r].batch) :
    i \notin raced[d] =>
      /\ notes[d][i] # NoNote
      /\ push[d][r].batch[i].version = notes[d][i].version
      /\ push[d][r].batch[i].content = notes[d][i].body

AnswerInv ==
  \A d \in Device, r \in Run : \A i \in push[d][r].accepted :
    /\ i \in Sent(push[d][r].batch)
    /\ Record(i, push[d][r].batch[i].version, push[d][r].batch[i].content) \in accepted

SyncedInv == BatchInv /\ AnswerInv /\ SyncedMeansAccepted

\* The step keeps the note's version and body and does not mark it ...
Kept(d, i) ==
  /\ notes[d][i] = NoNote <=> notes'[d][i] = NoNote
  /\ notes[d][i] # NoNote =>
       /\ notes'[d][i].version = notes[d][i].version
       /\ notes'[d][i].body = notes[d][i].body
       /\ notes'[d][i].synced => notes[d][i].synced

\* ... or leaves it unsynced or absent and tells the pushes that had read it.
Replaced(d, i) ==
  /\ notes'[d][i] = NoNote \/ ~notes'[d][i].synced
  /\ Pushing(d, i) => i \in raced'[d]

\* Steps on the notes tables alone preserve the invariant.
LEMMA LocalStep ==
  ASSUME TypeOK, SyncedInv, UNCHANGED <<push, accepted>>,
         \A d \in Device : raced[d] \subseteq raced'[d],
         \A d \in Device, i \in Item : Kept(d, i) \/ Replaced(d, i)
  PROVE  SyncedInv'
<1>1. BatchInv'
  <2> SUFFICES ASSUME NEW d \in Device, NEW r \in Run,
                      NEW i \in Sent(push[d][r].batch), i \notin raced'[d]
               PROVE  /\ notes'[d][i] # NoNote
                      /\ push[d][r].batch[i].version = notes'[d][i].version
                      /\ push[d][r].batch[i].content = notes'[d][i].body
    BY DEF BatchInv
  <2>1. i \in Item /\ i \notin raced[d] /\ Pushing(d, i)
    BY DEF Sent, Pushing
  <2>2. Kept(d, i)
    BY <2>1 DEF Replaced
  <2> QED BY <2>1, <2>2 DEF Kept, SyncedInv, BatchInv
<1>2. AnswerInv'
  BY DEF SyncedInv, AnswerInv
<1>3. SyncedMeansAccepted'
  <2> SUFFICES ASSUME NEW d \in Device, NEW i \in Item, notes'[d][i] # NoNote,
                      notes'[d][i].synced, i \notin raced'[d]
               PROVE  [item |-> i, version |-> notes'[d][i].version,
                       content |-> notes'[d][i].body] \in accepted
    BY DEF SyncedMeansAccepted
  <2>1. Kept(d, i) /\ i \notin raced[d]
    BY DEF Replaced
  <2> QED BY <2>1 DEF Kept, SyncedInv, SyncedMeansAccepted
<1> QED BY <1>1, <1>2, <1>3 DEF SyncedInv

\* The fields the statements on the notes table set.
LEMMA NoteFields ==
  /\ \A body : ~Created(body).synced
  /\ \A note, n, body : ~Updated(note, n, body).synced
  /\ \A note \in Note, b \in BOOLEAN :
       /\ Trashed(note, b).version = note.version /\ Trashed(note, b).body = note.body
       /\ ~Trashed(note, b).synced
       /\ Stamped(note, b).version = note.version /\ Stamped(note, b).body = note.body
       /\ Stamped(note, b).synced = note.synced
       /\ Marked(note, b).version = note.version /\ Marked(note, b).body = note.body
       /\ Marked(note, b).synced = b
<1>1. (\A body : ~Created(body).synced) /\ \A note, n, body : ~Updated(note, n, body).synced
  BY DEF Created, Updated
<1>2. ASSUME NEW note \in Note, NEW b \in BOOLEAN
      PROVE  /\ Trashed(note, b).version = note.version /\ Trashed(note, b).body = note.body
             /\ ~Trashed(note, b).synced
             /\ Stamped(note, b).version = note.version /\ Stamped(note, b).body = note.body
             /\ Stamped(note, b).synced = note.synced
             /\ Marked(note, b).version = note.version /\ Marked(note, b).body = note.body
             /\ Marked(note, b).synced = b
  BY DEF Trashed, Stamped, Marked, Note
<1> QED BY <1>1, <1>2

\* The user's steps and the writes of a pull.
LEMMA NotesSteps ==
  ASSUME TypeOK, BornInv, SyncedInv, NEW d \in Device,
         User(d) \/ \E r \in Run : PullStep(d, r)
  PROVE  SyncedInv'
<1>a. \A e \in Device, i \in Item : notes[e][i] \in Note \union {NoNote}
  BY DEF TypeOK
<1>b. ASSUME NEW i \in Item, NEW note, notes' = [notes EXCEPT ![d][i] = note],
             UNCHANGED <<push, accepted>>, \A e \in Device : raced[e] \subseteq raced'[e],
             Kept(d, i) \/ Replaced(d, i)
      PROVE  SyncedInv'
  <2>1. \A e \in Device, j \in Item : <<e, j>> # <<d, i>> => notes'[e][j] = notes[e][j]
    BY <1>b DEF TypeOK
  <2>2. \A e \in Device, j \in Item : Kept(e, j) \/ Replaced(e, j)
    BY <1>b, <2>1 DEF Kept
  <2> QED BY <1>b, <2>2, LocalStep
<1>c. ASSUME NEW items \in SUBSET Item, NEW table,
             notes' = [notes EXCEPT ![d] = table],
             \A j \in Item \ items : table[j] = notes[d][j],
             UNCHANGED <<push, accepted>>, \A e \in Device : raced[e] \subseteq raced'[e],
             \A i \in items : Kept(d, i) \/ Replaced(d, i)
      PROVE  SyncedInv'
  <2>1. \A e \in Device, j \in Item : e # d \/ j \notin items => notes'[e][j] = notes[e][j]
    BY <1>c DEF TypeOK
  <2>2. \A e \in Device, j \in Item : Kept(e, j) \/ Replaced(e, j)
    BY <1>c, <2>1 DEF Kept
  <2> QED BY <1>c, <2>2, LocalStep
<1>d. ASSUME UNCHANGED <<notes, push, accepted, raced>> PROVE SyncedInv'
  BY <1>d, LocalStep DEF Kept
<1>e. ASSUME NEW i \in Item, Rewrite(d, i)
      PROVE  /\ \A e \in Device : raced[e] \subseteq raced'[e]
             /\ Pushing(d, i) => i \in raced'[d]
  BY <1>e DEF Rewrite, TypeOK
<1>1. ASSUME NEW i \in Item, CreateNote(d, i) PROVE SyncedInv'
  <2>1. notes' = [notes EXCEPT ![d][i] = Created(Body)]
    BY <1>1 DEF CreateNote
  <2>2. UNCHANGED <<push, accepted, raced>> /\ i \notin born
    BY <1>1 DEF CreateNote, history
  <2>3. Pushing(d, i) => i \in raced[d]
    BY <2>2 DEF Pushing, BornInv
  <2>4. notes'[d][i] = Created(Body)
    BY <2>1 DEF TypeOK
  <2>5. Replaced(d, i)
    BY <2>2, <2>3, <2>4, NoteFields DEF Replaced
  <2> QED BY <1>b, <2>1, <2>2, <2>5
<1>2. ASSUME UpdateNote(d) PROVE SyncedInv'
  <2>1. UNCHANGED <<push, accepted>>
    BY <1>2, UpdateNoteFacts
  <2>2. CASE UNCHANGED <<notes, edits, pull, raced>>
    BY <1>d, <2>1, <2>2
  <2>3. CASE ~UNCHANGED <<notes, edits, pull, raced>>
    <3>1. PICK i \in Item, n \in Nat :
            /\ notes' = [notes EXCEPT ![d][i] = Updated(notes[d][i], n, Body)]
            /\ Rewrite(d, i)
      BY <1>2, <2>3, UpdateNoteFacts
    <3>2. notes'[d][i] = Updated(notes[d][i], n, Body)
      BY <3>1 DEF TypeOK
    <3>3. Replaced(d, i)
      BY <1>e, <3>1, <3>2, NoteFields DEF Replaced
    <3> QED BY <1>b, <1>e, <2>1, <3>1, <3>3
  <2> QED BY <2>2, <2>3
<1>3. ASSUME NEW i \in Item, SoftDeleteNote(d, i) PROVE SyncedInv'
  <2> DEFINE trashed == Trashed(notes[d][i], TRUE)
             note == Stamped(trashed, TRUE)
  <2>1. notes' = [notes EXCEPT ![d][i] = note]
    BY <1>3 DEF SoftDeleteNote
  <2>2. UNCHANGED <<push, accepted, raced>> /\ notes[d][i] \in Note
    BY <1>3, <1>a DEF SoftDeleteNote, history
  <2>3. trashed \in Note /\ note \in Note
    BY <2>2, NoteType, Zenon
  <2>4. /\ trashed.version = notes[d][i].version /\ trashed.body = notes[d][i].body
        /\ ~trashed.synced
    BY <2>2, NoteFields, Zenon
  <2>5. note.version = trashed.version /\ note.body = trashed.body
        /\ note.synced = trashed.synced
    BY <2>3, NoteFields, Zenon
  <2>6. notes'[d][i] = note
    BY <2>1 DEF TypeOK
  <2> HIDE DEF note, trashed
  <2>7. Kept(d, i)
    BY <2>2, <2>3, <2>4, <2>5, <2>6, NoNoteAssumption DEF Kept
  <2> QED BY <1>b, <2>1, <2>2, <2>7
<1>4. ASSUME NEW items \in SUBSET Trashable, NEW b \in BOOLEAN,
             SetTrashed(d, items, b), items \subseteq Local(d),
             UNCHANGED <<push, accepted, raced>>
      PROVE  SyncedInv'
  <2> DEFINE table == [i \in Item |->
               IF i \in items THEN Trashed(notes[d][i], b) ELSE notes[d][i]]
  <2>1. notes' = [notes EXCEPT ![d] = table]
    BY <1>4 DEF SetTrashed
  <2>2. \A i \in items : i \in Item /\ notes[d][i] \in Note
    BY <1>4, <1>a DEF Local
  <2>3. \A i \in items : /\ Trashed(notes[d][i], b) \in Note
                         /\ Trashed(notes[d][i], b).version = notes[d][i].version
                         /\ Trashed(notes[d][i], b).body = notes[d][i].body
                         /\ ~Trashed(notes[d][i], b).synced
    <3> SUFFICES ASSUME NEW note \in Note
                 PROVE  /\ Trashed(note, b) \in Note
                        /\ Trashed(note, b).version = note.version
                        /\ Trashed(note, b).body = note.body
                        /\ ~Trashed(note, b).synced
      BY <2>2
    <3> QED BY DEF Trashed, Note
  <2>4. \A i \in items : notes'[d][i] = Trashed(notes[d][i], b)
    BY <2>1, <2>2 DEF TypeOK
  <2>5. \A i \in items : Kept(d, i)
    BY <2>2, <2>3, <2>4, NoNoteAssumption DEF Kept
  <2>6. items \in SUBSET Item /\ \A j \in Item \ items : table[j] = notes[d][j]
    BY <2>2
  <2> HIDE DEF table
  <2> QED BY <1>c, <1>4, <2>1, <2>5, <2>6
<1>5. ASSUME NEW items \in SUBSET Trashable, BulkPin(d, items) PROVE SyncedInv'
  <2> DEFINE table == [i \in Item |->
               IF i \in items THEN Marked(notes[d][i], FALSE) ELSE notes[d][i]]
  <2>1. notes' = [notes EXCEPT ![d] = table] /\ UNCHANGED <<push, accepted, raced>>
    BY <1>5 DEF BulkPin, history
  <2>2. \A i \in items : i \in Item /\ notes[d][i] \in Note
    BY <1>5, <1>a DEF BulkPin, Local
  <2>3. \A i \in items : /\ Marked(notes[d][i], FALSE) \in Note
                         /\ Marked(notes[d][i], FALSE).version = notes[d][i].version
                         /\ Marked(notes[d][i], FALSE).body = notes[d][i].body
                         /\ ~Marked(notes[d][i], FALSE).synced
    <3> SUFFICES ASSUME NEW note \in Note
                 PROVE  /\ Marked(note, FALSE) \in Note
                        /\ Marked(note, FALSE).version = note.version
                        /\ Marked(note, FALSE).body = note.body
                        /\ ~Marked(note, FALSE).synced
      BY <2>2
    <3> QED BY NoteType, NoteFields, Zenon
  <2>4. \A i \in items : notes'[d][i] = Marked(notes[d][i], FALSE)
    BY <2>1, <2>2 DEF TypeOK
  <2>5. \A i \in items : Kept(d, i)
    BY <2>2, <2>3, <2>4, NoNoteAssumption DEF Kept
  <2>6. items \in SUBSET Item /\ \A j \in Item \ items : table[j] = notes[d][j]
    BY <2>2
  <2> HIDE DEF table
  <2> QED BY <1>c, <2>1, <2>5, <2>6
<1>6. ASSUME NEW items \in SUBSET Trashable, PermanentlyDeleteNotes(d, items)
      PROVE  SyncedInv'
  <2> DEFINE table == [i \in Item |-> IF i \in items THEN NoNote ELSE notes[d][i]]
  <2>1. notes' = [notes EXCEPT ![d] = table] /\ UNCHANGED <<push, accepted>>
    BY <1>6 DEF PermanentlyDeleteNotes
  <2>2. items \in SUBSET Item /\ \A j \in Item \ items : table[j] = notes[d][j]
    BY <1>6 DEF PermanentlyDeleteNotes, Trash, Local
  <2>3. /\ \A e \in Device : raced[e] \subseteq raced'[e]
        /\ \A i \in items : Pushing(d, i) => i \in raced'[d]
    BY <1>6 DEF PermanentlyDeleteNotes, TypeOK
  <2>4. \A i \in items : notes'[d][i] = NoNote
    BY <2>1, <2>2 DEF TypeOK
  <2>5. \A i \in items : Replaced(d, i)
    BY <2>3, <2>4 DEF Replaced
  <2> HIDE DEF table
  <2> QED BY <1>c, <2>1, <2>2, <2>3, <2>5
<1>7. ASSUME NEW r \in Run, NEW indexed \in BOOLEAN, ApplyWrite(d, r, indexed)
      PROVE  SyncedInv'
  <2>1. PICK w \in Write :
          /\ notes' = [notes EXCEPT ![d][w.item] = Applied(notes[d][w.item], w)]
          /\ IF Applied(notes[d][w.item], w) = notes[d][w.item]
             THEN UNCHANGED raced ELSE Rewrite(d, w.item)
    BY <1>7, ApplyWriteFacts
  <2>2. w.item \in Item /\ UNCHANGED <<push, accepted>>
    BY <1>7 DEF ApplyWrite, Write
  <2>3. notes'[d][w.item] = Applied(notes[d][w.item], w)
    BY <2>1, <2>2 DEF TypeOK
  <2>4. CASE Applied(notes[d][w.item], w) = notes[d][w.item]
    <3>1. Kept(d, w.item)
      BY <2>3, <2>4 DEF Kept
    <3> QED BY <1>b, <2>1, <2>2, <2>4, <3>1
  <2>5. CASE Applied(notes[d][w.item], w) # notes[d][w.item]
    <3>1. ~Applied(notes[d][w.item], w).synced
      BY <2>5, NoteFields DEF Applied
    <3>2. Replaced(d, w.item)
      BY <1>e, <2>1, <2>2, <2>3, <2>5, <3>1 DEF Replaced
    <3> QED BY <1>b, <1>e, <2>1, <2>2, <2>5, <3>2
  <2> QED BY <2>4, <2>5
<1>8. ASSUME NEW r \in Run,
             \/ PullStart(d, r) \/ PullPage(d, r) \/ PullLatest(d, r)
             \/ PullLatestError(d, r) \/ PullError(d, r) \/ ApplyRead(d, r)
             \/ ApplyReread(d, r) \/ ApplyError(d, r) \/ PullDone(d, r)
      PROVE  SyncedInv'
  BY <1>d, <1>8 DEF PullStart, PullPage, PullLatest, PullLatestError, PullError,
     ApplyRead, ApplyReread, ApplyError, PullDone, history
<1>9. ASSUME NEW items \in SUBSET Trashable, BulkSoftDelete(d, items)
      PROVE  SyncedInv'
  BY <1>4, <1>9 DEF BulkSoftDelete, history, Trash
<1>10. ASSUME NEW items \in SUBSET Trashable, RestoreNotes(d, items)
       PROVE  SyncedInv'
  BY <1>4, <1>10 DEF RestoreNotes, history, Trash
<1>11. ASSUME NEW b \in BOOLEAN, SetUnlocked(d, b) PROVE SyncedInv'
  BY <1>d, <1>11 DEF SetUnlocked, history
<1>12. ASSUME NEW i \in Item, UpdateNoteReads(d, i) PROVE SyncedInv'
  BY <1>d, <1>12 DEF UpdateNoteReads, history
<1> QED
  BY <1>1, <1>2, <1>3, <1>5, <1>6, <1>7, <1>8, <1>9, <1>10, <1>11, <1>12
     DEF User, PullStep

\* The steps of a push, and a crash.
LEMMA PushSteps ==
  ASSUME TypeOK, SyncedInv, NEW d \in Device
  PROVE  (Crash(d) \/ \E r \in Run : PushStep(d, r)) => SyncedInv'
<1>a. \A e \in Device, r \in Run : push[e][r] \in Push
  BY DEF TypeOK
<1>b. \A e \in Device, i \in Item : notes[e][i] \in Note \union {NoNote}
  BY DEF TypeOK
<1>1. ASSUME NEW r \in Run, NEW items \in SUBSET Unsynced(d), Gather(d, r, items)
      PROVE  SyncedInv'
  <2> DEFINE q == WithBatch(Gathered(d, items))
  <2>1. /\ push' = [push EXCEPT ![d][r] = q]
        /\ UNCHANGED <<notes, accepted>>
        /\ raced' = [raced EXCEPT ![d] = @ \ {i \in items : ~Pushing(d, i)}]
    BY <1>1 DEF Gather
  <2>2. q.batch = Gathered(d, items) /\ q.accepted = {} /\ Sent(q.batch) = items
    BY <1>a, PushFields, GatheredType
  <2>3. \A i \in items : /\ i \in Item /\ notes[d][i] # NoNote /\ ~notes[d][i].synced
                         /\ q.batch[i].version = notes[d][i].version
                         /\ q.batch[i].content = notes[d][i].body
    BY <2>2 DEF Unsynced, Gathered
  <2> HIDE DEF q
  <2>4. /\ push'[d][r] = q
        /\ \A e \in Device, s \in Run : e # d \/ s # r => push'[e][s] = push[e][s]
    BY <2>1 DEF TypeOK
  <2>5. /\ \A e \in Device, i \in Item : e # d \/ i \notin items =>
             (i \in raced'[e] <=> i \in raced[e])
        /\ \A i \in items : Pushing(d, i) => (i \in raced'[d] <=> i \in raced[d])
    BY <2>1 DEF TypeOK
  <2>6. BatchInv'
    <3> SUFFICES ASSUME NEW e \in Device, NEW s \in Run,
                        NEW i \in Sent(push'[e][s].batch), i \notin raced'[e]
                 PROVE  /\ notes[e][i] # NoNote
                        /\ push'[e][s].batch[i].version = notes[e][i].version
                        /\ push'[e][s].batch[i].content = notes[e][i].body
      BY <2>1 DEF BatchInv
    <3>1. CASE e = d /\ s = r
      BY <3>1, <2>2, <2>3, <2>4
    <3>2. CASE e # d \/ s # r
      <4>1. push'[e][s] = push[e][s] /\ i \in Item /\ Pushing(e, i)
        BY <3>2, <2>4 DEF Sent, Pushing
      <4>2. i \notin raced[e]
        BY <4>1, <2>5
      <4> QED BY <4>1, <4>2 DEF SyncedInv, BatchInv
    <3> QED BY <3>1, <3>2
  <2>7. AnswerInv'
    BY <2>1, <2>2, <2>4 DEF SyncedInv, AnswerInv
  <2>8. SyncedMeansAccepted'
    <3> SUFFICES ASSUME NEW e \in Device, NEW i \in Item, notes[e][i] # NoNote,
                        notes[e][i].synced, i \notin raced'[e]
                 PROVE  [item |-> i, version |-> notes[e][i].version,
                         content |-> notes[e][i].body] \in accepted
      BY <2>1 DEF SyncedMeansAccepted
    <3>1. i \notin raced[e]
      BY <2>3, <2>5
    <3> QED BY <3>1 DEF SyncedInv, SyncedMeansAccepted
  <2> QED BY <2>6, <2>7, <2>8 DEF SyncedInv
<1>2. ASSUME NEW r \in Run, NEW confirmed \in BOOLEAN, ServerPush(d, r, confirmed)
      PROVE  SyncedInv'
  <2> DEFINE batch == push[d][r].batch
             taken == Accepted(blobs, batch)
             q == IF confirmed THEN Answered(push[d][r], taken, Sent(batch) \ taken)
                  ELSE Answered(push[d][r], {}, {})
  <2>1. push' = [push EXCEPT ![d][r] = q] /\ UNCHANGED raced
    BY <1>2 DEF ServerPush
  <2>2. q.batch = batch /\ q.accepted \subseteq taken
    BY <1>a, PushFields
  <2>3. taken \subseteq Sent(batch)
    BY DEF Accepted
  <2>4. /\ accepted \subseteq accepted'
        /\ \A i \in taken : Record(i, batch[i].version, batch[i].content) \in accepted'
    BY <1>2 DEF ServerPush, Record
  <2>5. \A e \in Device, i \in Item :
          notes'[e][i] = IF i \in taken /\ notes[e][i] # NoNote
                         THEN Stamped(notes[e][i], FALSE) ELSE notes[e][i]
    BY <1>2 DEF ServerPush
  <2> HIDE DEF q, taken
  <2>6. /\ push'[d][r] = q
        /\ \A e \in Device, s \in Run : e # d \/ s # r => push'[e][s] = push[e][s]
    BY <2>1 DEF TypeOK
  <2>7. \A e \in Device, s \in Run : push'[e][s].batch = push[e][s].batch
    BY <2>2, <2>6
  <2>8. \A note \in Note : /\ Stamped(note, FALSE) \in Note
                           /\ Stamped(note, FALSE).version = note.version
                           /\ Stamped(note, FALSE).body = note.body
                           /\ Stamped(note, FALSE).synced = note.synced
    BY NoteType, NoteFields, Zenon
  <2>9. \A e \in Device, i \in Item :
          /\ notes[e][i] = NoNote <=> notes'[e][i] = NoNote
          /\ notes[e][i] # NoNote => /\ notes'[e][i].version = notes[e][i].version
                                     /\ notes'[e][i].body = notes[e][i].body
                                     /\ notes'[e][i].synced = notes[e][i].synced
    <3> SUFFICES ASSUME NEW e \in Device, NEW i \in Item
        PROVE  /\ notes[e][i] = NoNote <=> notes'[e][i] = NoNote
               /\ notes[e][i] # NoNote => /\ notes'[e][i].version = notes[e][i].version
                                          /\ notes'[e][i].body = notes[e][i].body
                                          /\ notes'[e][i].synced = notes[e][i].synced
      OBVIOUS
    <3>1. CASE i \in taken /\ notes[e][i] # NoNote
      <4>1. notes'[e][i] = Stamped(notes[e][i], FALSE) /\ notes[e][i] \in Note
        BY <3>1, <1>b, <2>5
      <4>2. notes'[e][i] # NoNote
        BY <4>1, <2>8, NoNoteAssumption
      <4> QED BY <3>1, <4>1, <4>2, <2>8, Zenon
    <3>2. CASE ~(i \in taken /\ notes[e][i] # NoNote)
      <4>1. notes'[e][i] = notes[e][i]
        BY <3>2, <2>5
      <4> QED BY <4>1
    <3> QED BY <3>1, <3>2
  <2>10. BatchInv'
    BY <2>1, <2>7, <2>9 DEF SyncedInv, BatchInv, Sent
  <2>11. AnswerInv'
    <3> SUFFICES ASSUME NEW e \in Device, NEW s \in Run, NEW i \in push'[e][s].accepted
                 PROVE  /\ i \in Sent(push'[e][s].batch)
                        /\ Record(i, push'[e][s].batch[i].version,
                                  push'[e][s].batch[i].content) \in accepted'
      BY DEF AnswerInv
    <3>1. CASE e = d /\ s = r
      BY <3>1, <2>2, <2>3, <2>4, <2>6
    <3>2. CASE e # d \/ s # r
      BY <3>2, <2>4, <2>6 DEF SyncedInv, AnswerInv
    <3> QED BY <3>1, <3>2
  <2>12. SyncedMeansAccepted'
    BY <2>1, <2>4, <2>9 DEF SyncedInv, SyncedMeansAccepted
  <2> QED BY <2>10, <2>11, <2>12 DEF SyncedInv
<1>3. ASSUME UNCHANGED <<accepted, raced>>,
             \A e \in Device, s \in Run :
               \/ push'[e][s] = push[e][s]
               \/ /\ push'[e][s].accepted = {}
                  /\ \/ push'[e][s].batch = push[e][s].batch
                     \/ Sent(push'[e][s].batch) = {}
      PROVE  AnswerInv' /\ (UNCHANGED notes => BatchInv' /\ SyncedMeansAccepted')
  <2>1. AnswerInv'
    <3> SUFFICES ASSUME NEW e \in Device, NEW s \in Run, NEW i \in push'[e][s].accepted
                 PROVE  /\ i \in Sent(push'[e][s].batch)
                        /\ Record(i, push'[e][s].batch[i].version,
                                  push'[e][s].batch[i].content) \in accepted
      BY <1>3 DEF AnswerInv
    <3>1. push'[e][s] = push[e][s]
      BY <1>3
    <3> QED BY <3>1 DEF SyncedInv, AnswerInv
  <2>2. ASSUME UNCHANGED notes PROVE BatchInv'
    <3> SUFFICES ASSUME NEW e \in Device, NEW s \in Run,
                        NEW i \in Sent(push'[e][s].batch), i \notin raced[e]
                 PROVE  /\ notes[e][i] # NoNote
                        /\ push'[e][s].batch[i].version = notes[e][i].version
                        /\ push'[e][s].batch[i].content = notes[e][i].body
      BY <1>3, <2>2 DEF BatchInv
    <3>1. push'[e][s].batch = push[e][s].batch
      BY <1>3
    <3> QED BY <3>1 DEF SyncedInv, BatchInv
  <2>3. ASSUME UNCHANGED notes PROVE SyncedMeansAccepted'
    BY <1>3, <2>3 DEF SyncedInv, SyncedMeansAccepted
  <2> QED BY <2>1, <2>2, <2>3
<1>4. ASSUME NEW r \in Run, ServerPushError(d, r) \/ PushLost(d, r)
      PROVE  SyncedInv'
  <2>1. UNCHANGED <<notes, accepted, raced>>
    BY <1>4 DEF ServerPushError, PushLost, history
  <2>2. PICK q : /\ push' = [push EXCEPT ![d][r] = q] /\ q.accepted = {}
                 /\ q.batch = push[d][r].batch \/ Sent(q.batch) = {}
    <3>1. CASE ServerPushError(d, r)
      <4>1. push' = [push EXCEPT ![d][r] = Answered(push[d][r], {}, {})]
        BY <3>1 DEF ServerPushError
      <4>2. /\ Answered(push[d][r], {}, {}).accepted = {}
            /\ Answered(push[d][r], {}, {}).batch = push[d][r].batch
        BY <1>a, PushFields
      <4> QED BY <4>1, <4>2
    <3>2. CASE PushLost(d, r)
      <4>1. push' = [push EXCEPT ![d][r] = IdlePush]
        BY <3>2 DEF PushLost
      <4>2. IdlePush.accepted = {} /\ Sent(IdlePush.batch) = {}
        BY PushType, PushFields
      <4> QED BY <4>1, <4>2
    <3> QED BY <1>4, <3>1, <3>2
  <2>3. /\ push'[d][r] = q
        /\ \A e \in Device, s \in Run : e # d \/ s # r => push'[e][s] = push[e][s]
    BY <2>2 DEF TypeOK
  <2> QED BY <1>3, <2>1, <2>2, <2>3 DEF SyncedInv
<1>5. ASSUME Crash(d) PROVE SyncedInv'
  <2>1. UNCHANGED <<notes, accepted, raced>>
    BY <1>5 DEF Crash, history
  <2>2. \A e \in Device, s \in Run :
          push'[e][s] = push[e][s] \/ push'[e][s] = IdlePush
    BY <1>5 DEF Crash, TypeOK
  <2>3. IdlePush.accepted = {} /\ Sent(IdlePush.batch) = {}
    BY PushType, PushFields
  <2> QED BY <1>3, <2>1, <2>2, <2>3 DEF SyncedInv
<1>6. ASSUME NEW r \in Run, MarkSynced(d, r) PROVE SyncedInv'
  <2> DEFINE marked == {i \in Item : i \in push[d][r].accepted /\ notes[d][i] # NoNote}
             table == [i \in Item |-> IF i \in marked THEN Marked(notes[d][i], TRUE)
                                      ELSE notes[d][i]]
  <2>1. /\ notes' = [notes EXCEPT ![d] = table]
        /\ push' = [push EXCEPT ![d][r] = IdlePush] /\ UNCHANGED <<accepted, raced>>
    BY <1>6 DEF MarkSynced, Markable, history
  <2>2. /\ push'[d][r] = IdlePush /\ IdlePush.accepted = {} /\ Sent(IdlePush.batch) = {}
        /\ \A e \in Device, s \in Run : e # d \/ s # r => push'[e][s] = push[e][s]
    BY <2>1, PushType, PushFields DEF TypeOK
  <2>3. \A note \in Note : /\ Marked(note, TRUE) \in Note
                           /\ Marked(note, TRUE).version = note.version
                           /\ Marked(note, TRUE).body = note.body
    BY NoteType, NoteFields, Zenon
  <2>4. /\ \A i \in marked : notes'[d][i] = Marked(notes[d][i], TRUE)
        /\ \A e \in Device, i \in Item : e # d \/ i \notin marked =>
             notes'[e][i] = notes[e][i]
    BY <2>1 DEF TypeOK
  <2>5. \A e \in Device, i \in Item :
          /\ notes[e][i] = NoNote <=> notes'[e][i] = NoNote
          /\ notes[e][i] # NoNote => /\ notes'[e][i].version = notes[e][i].version
                                     /\ notes'[e][i].body = notes[e][i].body
    <3>1. \A i \in marked : i \in Item /\ notes[d][i] # NoNote
      OBVIOUS
    <3> HIDE DEF marked
    <3> SUFFICES ASSUME NEW e \in Device, NEW i \in Item
        PROVE  /\ notes[e][i] = NoNote <=> notes'[e][i] = NoNote
               /\ notes[e][i] # NoNote => /\ notes'[e][i].version = notes[e][i].version
                                          /\ notes'[e][i].body = notes[e][i].body
      OBVIOUS
    <3>2. CASE e = d /\ i \in marked
      <4>1. notes'[e][i] = Marked(notes[e][i], TRUE) /\ notes[e][i] \in Note
        BY <3>1, <3>2, <1>b, <2>4
      <4>2. notes'[e][i] # NoNote
        BY <4>1, <2>3, NoNoteAssumption
      <4> QED BY <3>1, <3>2, <4>1, <4>2, <2>3, Zenon
    <3>3. CASE e # d \/ i \notin marked
      <4>1. notes'[e][i] = notes[e][i]
        BY <3>3, <2>4
      <4> QED BY <4>1
    <3> QED BY <3>2, <3>3
  <2>6. AnswerInv'
    BY <1>3, <2>1, <2>2
  <2>7. BatchInv'
    <3> SUFFICES ASSUME NEW e \in Device, NEW s \in Run,
                        NEW i \in Sent(push'[e][s].batch), i \notin raced[e]
                 PROVE  /\ notes'[e][i] # NoNote
                        /\ push'[e][s].batch[i].version = notes'[e][i].version
                        /\ push'[e][s].batch[i].content = notes'[e][i].body
      BY <2>1 DEF BatchInv
    <3>1. push'[e][s] = push[e][s] /\ i \in Item
      BY <2>2 DEF Sent
    <3> QED BY <3>1, <2>5 DEF SyncedInv, BatchInv
  <2>8. SyncedMeansAccepted'
    <3> SUFFICES ASSUME NEW e \in Device, NEW i \in Item, notes'[e][i] # NoNote,
                        notes'[e][i].synced, i \notin raced[e]
                 PROVE  [item |-> i, version |-> notes'[e][i].version,
                         content |-> notes'[e][i].body] \in accepted
      BY <2>1 DEF SyncedMeansAccepted
    <3>1. CASE e = d /\ i \in marked
      <4>1. /\ i \in Sent(push[d][r].batch)
            /\ Record(i, push[d][r].batch[i].version, push[d][r].batch[i].content)
                 \in accepted
        BY <3>1 DEF SyncedInv, AnswerInv
      <4>2. /\ push[d][r].batch[i].version = notes[d][i].version
            /\ push[d][r].batch[i].content = notes[d][i].body
        BY <3>1, <4>1 DEF SyncedInv, BatchInv
      <4> QED BY <3>1, <4>1, <4>2, <2>5 DEF Record
    <3>2. CASE e # d \/ i \notin marked
      <4>1. notes'[e][i] = notes[e][i]
        BY <3>2, <2>4
      <4> QED BY <4>1 DEF SyncedInv, SyncedMeansAccepted
    <3> QED BY <3>1, <3>2
  <2> QED BY <2>6, <2>7, <2>8 DEF SyncedInv
<1>7. ASSUME NEW r \in Run, PushNothing(d, r) PROVE SyncedInv'
  <2>1. UNCHANGED <<notes, push, accepted, raced>>
    BY <1>7 DEF PushNothing, history
  <2> QED BY <2>1, LocalStep DEF Kept
<1> QED BY <1>1, <1>2, <1>4, <1>5, <1>6, <1>7 DEF PushStep

\* A note shown as synced is on the server as it stands, or was replaced there
\* later, unless it was rewritten under a push: for any devices and notes, with
\* lost answers, crashes and any number of runs pushing beside each other.
THEOREM SyncedIsAccepted == Spec => []SyncedMeansAccepted
<1>1. Init => SyncedInv
  <2>1. IdlePush.accepted = {} /\ Sent(IdlePush.batch) = {}
    BY PushType, PushFields
  <2> QED BY <2>1 DEF Init, SyncedInv, BatchInv, AnswerInv, SyncedMeansAccepted
<1>2. TypeOK /\ BornInv /\ SyncedInv /\ [Next]_vars => SyncedInv'
  <2> SUFFICES ASSUME TypeOK, BornInv, SyncedInv, [Next]_vars PROVE SyncedInv'
    OBVIOUS
  <2>1. CASE UNCHANGED vars
    BY <2>1 DEF vars, SyncedInv, BatchInv, AnswerInv, SyncedMeansAccepted
  <2> QED BY <2>1, NotesSteps, PushSteps DEF Next
<1>3. SyncedInv => SyncedMeansAccepted
  BY DEF SyncedInv
<1> QED BY <1>1, <1>2, <1>3, TypeCorrect, BornInvariant, PTL DEF Spec

-----------------------------------------------------------------------------
(***************************************************************************)
(* The pull cursor, whatever fails in the middle of a pull.                *)
(*                                                                         *)
(* Neither property is inductive by itself.  The cursor is computed from   *)
(* the local variables of pull(), so the invariant is about them: nothing  *)
(* a pull holds is above the server's latest version, and the blobs are    *)
(* applied in the order of their versions.  That a page lies above the     *)
(* stored cursor is not part of it: another run may have moved the cursor. *)
(***************************************************************************)
\* A pull in state q, with the server at version n.
Sound(q, n) ==
  /\ q.latest <= n /\ q.last <= n
  /\ q.pc = "page" => q.last = -1 /\ q.todo = {}
  /\ \A b \in q.page \union q.todo : q.last <= b.version /\ b.version <= n
  /\ \A w \in q.todo, b \in q.page : w.version <= b.version

CursorInv ==
  \A d \in Device :
    /\ since[d] <= GetLatestVersion(blobs)
    /\ \A r \in Run : Sound(pull[d][r], GetLatestVersion(blobs))

-----------------------------------------------------------------------------
\* The latest version is the version of some row, if there is one.
LEMMA LatestAttained ==
  ASSUME NEW rows \in Table
  PROVE  \/ GetLatestVersion(rows) = 0
         \/ \E i \in Item : rows[i] # NoRow /\ rows[i].version = GetLatestVersion(rows)
<1> DEFINE stored == {j \in Item : rows[j] # NoRow}
<1>1. Versions(rows) = {rows[i].version : i \in stored}
  BY DEF Versions
<1>2. Versions(rows) \in SUBSET Nat /\ IsFiniteSet(Versions(rows))
  BY <1>1, VersionsOfRows
<1>3. CASE Versions(rows) = {}
  BY <1>3 DEF GetLatestVersion
<1>4. CASE Versions(rows) # {}
  <2>1. GetLatestVersion(rows) \in Versions(rows)
    BY <1>2, <1>4, MaxOfFinite DEF GetLatestVersion
  <2> QED BY <1>1, <2>1
<1> QED BY <1>3, <1>4

\* No step lowers the server's latest version: rows are only raised.
LEMMA LatestMonotone ==
  ASSUME TypeOK, TypeOK', [Next]_vars
  PROVE  GetLatestVersion(blobs) <= GetLatestVersion(blobs')
<1>1. blobs \in Table /\ blobs' \in Table
  BY DEF TypeOK, Table
<1>2. ASSUME NEW i \in Item, blobs[i] # NoRow
      PROVE  blobs'[i] # NoRow /\ blobs[i].version <= blobs'[i].version
  <2>1. blobs[i].version \in Nat
    BY <1>2 DEF TypeOK, Row
  <2>2. CASE UNCHANGED <<blobs, accepted>>
    BY <1>2, <2>1, <2>2
  <2>3. ASSUME NEW d \in Device, NEW r \in Run, NEW confirmed \in BOOLEAN,
               ServerPush(d, r, confirmed)
        PROVE  blobs'[i] # NoRow /\ blobs[i].version <= blobs'[i].version
    <3> DEFINE batch == push[d][r].batch
    <3>1. CASE i \in Accepted(blobs, batch)
      <4>1. /\ blobs'[i] = batch[i] /\ batch[i] \in Row
            /\ blobs[i].version < batch[i].version
        BY <1>2, <2>3, <3>1, CommitFacts
      <4> QED BY <2>1, <4>1, NoRowAssumption DEF Row
    <3>2. CASE i \notin Accepted(blobs, batch)
      <4>1. blobs'[i] = blobs[i]
        BY <2>3, <3>2, CommitFacts
      <4> QED BY <1>2, <2>1, <4>1
    <3> QED BY <3>1, <3>2
  <2> QED BY <2>2, <2>3, OnlyPushWrites
<1>3. GetLatestVersion(blobs) \in Nat /\ GetLatestVersion(blobs') \in Nat
  BY <1>1, LatestBounds
<1>4. CASE GetLatestVersion(blobs) = 0
  BY <1>3, <1>4
<1>5. ASSUME NEW i \in Item, blobs[i] # NoRow, blobs[i].version = GetLatestVersion(blobs)
      PROVE  GetLatestVersion(blobs) <= GetLatestVersion(blobs')
  <2>1. blobs'[i] # NoRow /\ blobs[i].version <= blobs'[i].version
    BY <1>2, <1>5
  <2>2. blobs'[i].version <= GetLatestVersion(blobs') /\ blobs'[i].version \in Nat
    BY <1>1, <2>1, LatestBounds DEF TypeOK, Row
  <2> QED BY <1>3, <1>5, <2>1, <2>2
<1> QED BY <1>1, <1>4, <1>5, LatestAttained

\* A later version on the server leaves a sound pull sound.
LEMMA SoundLater ==
  ASSUME NEW q \in Pull, NEW n \in Nat, NEW m \in Nat, n <= m, Sound(q, n)
  PROVE  Sound(q, m)
<1>1. /\ q.latest \in Nat /\ q.last \in Int
      /\ \A b \in q.page \union q.todo : b.version \in Nat
  BY DEF Pull, Blob, Write
<1> QED BY <1>1 DEF Sound

\* Each step of pull() leads from a sound state to a sound one.
LEMMA SoundSteps ==
  ASSUME NEW q \in Pull, NEW n \in Nat, Sound(q, n)
  PROVE  /\ Sound(IdlePull, n) /\ Sound(Pulled, n) /\ \A s : Sound(Started(s), n)
         /\ Sound(WithLatest(q, 0), n) /\ Sound(WithLatest(q, n), n)
         /\ Sound(Stopped(q), n)
         /\ \A i \in Item : Sound(Outdated(q, i), n)
         /\ \A w \in q.todo : Sound(Wrote(q, w.version), n)
         /\ \A w \in q.todo : \A m : Sound(Saving(q, w, m), n)
<1>1. /\ q.latest \in Nat /\ q.last \in Int
      /\ \A b \in q.page \union q.todo : b.version \in Nat
  BY DEF Pull, Blob, Write
<1>2. Sound(IdlePull, n) /\ Sound(Pulled, n) /\ \A s : Sound(Started(s), n)
  BY PullFields DEF Sound
<1>3. Sound(WithLatest(q, 0), n) /\ Sound(WithLatest(q, n), n)
  <2>1. \A m : WithLatest(q, m).pc # "page"
    BY DEF WithLatest, Pull
  <2> QED BY <1>1, <2>1, PullFields DEF Sound
<1>4. Sound(Stopped(q), n)
  <2>1. Stopped(q).pc # "page"
    BY DEF Stopped, Pull
  <2> QED BY <1>1, <2>1, PullFields DEF Sound
<1>5. ASSUME NEW i \in Item PROVE Sound(Outdated(q, i), n)
  <2>1. /\ Outdated(q, i).page = {Dated(b, i) : b \in q.page}
        /\ Outdated(q, i).todo = q.todo
        /\ Outdated(q, i).latest = q.latest /\ Outdated(q, i).last = q.last
    BY PullFields
  <2>2. \A b \in q.page : Dated(b, i).version = b.version
    BY DatedFields DEF Pull
  <2>3. Outdated(q, i).pc = q.pc
    BY DEF Outdated, Pull
  <2> QED BY <1>1, <2>1, <2>2, <2>3 DEF Sound
<1>6. ASSUME NEW w \in q.todo PROVE Sound(Wrote(q, w.version), n)
  <2>1. Wrote(q, w.version).pc # "page"
    BY DEF Wrote, Pull
  <2> QED BY <1>1, <2>1, PullFields DEF Sound
<1>7. ASSUME NEW w \in q.todo, NEW m PROVE Sound(Saving(q, w, m), n)
  <2>1. w \in Write /\ Saving(q, w, m).pc = q.pc
    BY DEF Saving, Pull
  <2>2. q.pc # "page"
    BY DEF Sound
  <2>3. /\ Saving(q, w, m).page = q.page
        /\ \A x \in Saving(q, w, m).todo : x.version = w.version
        /\ Saving(q, w, m).latest = q.latest /\ Saving(q, w, m).last = q.last
    BY <2>1, SavingFields
  <2> QED BY <1>1, <2>1, <2>2, <2>3 DEF Sound
<1> QED BY <1>2, <1>3, <1>4, <1>5, <1>6, <1>7

\* The blob with the lowest version is read first.
LEMMA SoundReading ==
  ASSUME TypeOK, NEW d \in Device, NEW q \in Pull, NEW n \in Nat, Sound(q, n),
         NEW b \in q.page, \A o \in q.page : b.version <= o.version
  PROVE  Sound(Reading(q, b, Decision(d, b)), n)
<1> DEFINE w == Decision(d, b)
<1>1. /\ q.latest \in Nat /\ q.last \in Int
      /\ \A o \in q.page \union q.todo : o.version \in Nat
  BY DEF Pull, Blob, Write
<1>2. w.version = b.version
  BY DEF Decision
<1>3. /\ Reading(q, b, w).page = q.page \ {b} /\ Reading(q, b, w).todo = {w}
      /\ Reading(q, b, w).latest = q.latest /\ Reading(q, b, w).last = q.last
  BY PullFields
<1>4. Reading(q, b, w).pc # "page"
  BY DEF Reading, Pull
<1> HIDE DEF w
<1> QED BY <1>1, <1>2, <1>3, <1>4 DEF Sound, w

\* A fresh page holds no row above the latest version.
LEMMA SoundPage ==
  ASSUME TypeOK, NEW d \in Device, NEW r \in Run, pull[d][r].pc = "page",
         NEW page \in PullSincePaginated(blobs, pull[d][r].from, PageLimit),
         Sound(pull[d][r], GetLatestVersion(blobs))
  PROVE  Sound(WithPage(pull[d][r], Snapshot(d, page)), GetLatestVersion(blobs))
<1> DEFINE p == pull[d][r]
           q == WithPage(p, Snapshot(d, page))
           n == GetLatestVersion(blobs)
<1>1. blobs \in Table /\ p \in Pull /\ p.from \in Nat /\ PageLimit \in Nat \ {0}
  BY SystemAssumption DEF TypeOK, Table, Pull
<1>2. page \subseteq Newer(blobs, p.from)
  BY <1>1, PageFacts
<1>3. \A i \in page : blobs[i].version \in Nat /\ blobs[i].version <= n
  BY <1>1, <1>2, LatestBounds DEF Newer, Table, Row
<1>4. n \in Nat /\ p.latest \in Nat /\ p.latest <= n /\ p.last = -1 /\ p.todo = {}
  BY <1>1, LatestBounds DEF Sound, Pull
<1> HIDE DEF n
<1>5. \A b \in Snapshot(d, page) : b.version \in Nat /\ b.version <= n
  BY <1>3 DEF Snapshot
<1>6. /\ q.page = Snapshot(d, page) /\ q.todo = {}
      /\ q.latest = p.latest /\ q.last = -1
  BY <1>1, <1>4, PullFields
<1>7. q.pc # "page"
  BY <1>1 DEF WithPage, Pull
<1> HIDE DEF p, q
<1>8. Sound(q, n)
  BY <1>4, <1>5, <1>6, <1>7 DEF Sound
<1> QED BY <1>8 DEF p, q, n

\* Every pull in progress is sound.
LEMMA CursorInvariant == Spec => []CursorInv
<1>1. Init => CursorInv
  <2> SUFFICES ASSUME Init PROVE CursorInv
    OBVIOUS
  <2>1. blobs \in Table
    BY UploadedAssumption DEF Init, Table
  <2>2. GetLatestVersion(blobs) \in Nat
    BY <2>1, LatestBounds
  <2>3. IdlePull.page = {} /\ IdlePull.todo = {} /\ IdlePull.latest = 0 /\ IdlePull.last = -1
    BY PullFields, PullType
  <2>4. Sound(IdlePull, GetLatestVersion(blobs))
    BY <2>2, <2>3 DEF Sound, IdlePull
  <2> QED BY <2>2, <2>4 DEF Init, CursorInv
<1>2. TypeOK /\ TypeOK' /\ CursorInv /\ [Next]_vars => CursorInv'
  <2> SUFFICES ASSUME TypeOK, TypeOK', CursorInv, [Next]_vars PROVE CursorInv'
    OBVIOUS
  <2> DEFINE n == GetLatestVersion(blobs)
             Still == \A e \in Device : /\ since'[e] <= n
                                       /\ \A s \in Run : Sound(pull'[e][s], n)
  <2>a. n \in Nat /\ GetLatestVersion(blobs') \in Nat /\ n <= GetLatestVersion(blobs')
    BY LatestMonotone, LatestBounds DEF TypeOK, Table
  <2>b. \A e \in Device : /\ since[e] \in Nat /\ since[e] <= n
                          /\ \A s \in Run : pull[e][s] \in Pull /\ Sound(pull[e][s], n)
    BY DEF TypeOK, CursorInv
  <2>c. ASSUME NEW d \in Device, NEW r \in Run, NEW q,
               pull' = [pull EXCEPT ![d][r] = q], UNCHANGED since, Sound(q, n)
        PROVE  Still
    BY <2>b, <2>c DEF TypeOK
  <2>d. ASSUME NEW d \in Device, NEW r \in Run, EndRun(d, r), UNCHANGED since
        PROVE  Still
    BY <2>b, <2>a, <2>c, <2>d, SoundSteps DEF EndRun
  <2>e. ASSUME NEW d \in Device, NEW i \in Item, Outdate(d, i), UNCHANGED since
        PROVE  Still
    <3>1. \A e \in Device, s \in Run :
            pull'[e][s] = pull[e][s] \/ pull'[e][s] = Outdated(pull[e][s], i)
      BY <2>e DEF Outdate, TypeOK
    <3> HIDE DEF n
    <3>2. \A e \in Device, s \in Run : Sound(pull'[e][s], n)
      BY <2>a, <2>b, <3>1, SoundSteps
    <3> QED BY <2>b, <2>e, <3>2
  <2>f. ASSUME UNCHANGED <<pull, since>> PROVE Still
    BY <2>b, <2>f
  <2> HIDE DEF Still
  <2>1. ASSUME NEW d \in Device, User(d) PROVE Still
    <3>1. CASE UpdateNote(d)
      <4>1. \/ UNCHANGED <<pull, since>>
            \/ UNCHANGED since /\ \E i \in Item : Outdate(d, i)
        BY <3>1, UpdateNoteFacts
      <4> QED BY <2>e, <2>f, <4>1
    <3>2. ASSUME NEW i \in Item,
                 CreateNote(d, i) \/ UpdateNoteReads(d, i) \/ SoftDeleteNote(d, i)
          PROVE  Still
      BY <2>e, <2>f, <3>2 DEF CreateNote, UpdateNoteReads, SoftDeleteNote
    <3>3. ASSUME NEW items \in SUBSET Trashable,
                 \/ BulkSoftDelete(d, items) \/ RestoreNotes(d, items)
                 \/ BulkPin(d, items) \/ PermanentlyDeleteNotes(d, items)
          PROVE  Still
      BY <2>f, <3>3 DEF BulkSoftDelete, RestoreNotes, BulkPin, PermanentlyDeleteNotes
    <3>4. ASSUME NEW b \in BOOLEAN, SetUnlocked(d, b) PROVE Still
      BY <2>f, <3>4 DEF SetUnlocked
    <3> QED BY <2>1, <3>1, <3>2, <3>3, <3>4 DEF User
  <2>2. ASSUME NEW d \in Device, NEW r \in Run, PullStep(d, r) PROVE Still
    <3>1. CASE PullPage(d, r)
      <4>1. PICK page \in PullSincePaginated(blobs, pull[d][r].from, PageLimit) :
              pull' = [pull EXCEPT ![d][r] = WithPage(@, Snapshot(d, page))]
        BY <3>1 DEF PullPage
      <4>2. Sound(WithPage(pull[d][r], Snapshot(d, page)), n)
        BY <2>b, <3>1, SoundPage DEF PullPage
      <4> QED BY <2>c, <3>1, <4>1, <4>2 DEF PullPage
    <3>2. CASE \/ PullStart(d, r) \/ PullLatest(d, r) \/ PullLatestError(d, r)
               \/ PullError(d, r) \/ ApplyError(d, r)
      <4>1. PICK q \in {Started(since[d]), WithLatest(pull[d][r], n),
                        WithLatest(pull[d][r], 0), IdlePull, Stopped(pull[d][r])} :
              pull' = [pull EXCEPT ![d][r] = q]
        BY <3>2 DEF PullStart, PullLatest, PullLatestError, PullError, ApplyError
      <4>2. Sound(q, n)
        BY <2>a, <2>b, SoundSteps
      <4>3. UNCHANGED since
        BY <3>2 DEF PullStart, PullLatest, PullLatestError, PullError, ApplyError
      <4> QED BY <2>c, <4>1, <4>2, <4>3
    <3>3. CASE ApplyRead(d, r)
      <4>1. PICK b \in pull[d][r].page :
              /\ \A o \in pull[d][r].page : b.version <= o.version
              /\ pull' = [pull EXCEPT ![d][r] = Reading(@, b, Decision(d, b))]
        BY <3>3 DEF ApplyRead
      <4>2. Sound(Reading(pull[d][r], b, Decision(d, b)), n)
        BY <2>a, <2>b, <4>1, SoundReading
      <4> QED BY <2>c, <3>3, <4>1, <4>2 DEF ApplyRead
    <3>6. CASE ApplyReread(d, r)
      <4>1. PICK w \in pull[d][r].todo :
              pull' = [pull EXCEPT ![d][r] = Saving(@, w, notes[d][w.item].version)]
        BY <3>6 DEF ApplyReread
      <4>2. Sound(Saving(pull[d][r], w, notes[d][w.item].version), n)
        BY <2>a, <2>b, SoundSteps
      <4> QED BY <2>c, <3>6, <4>1, <4>2 DEF ApplyReread
    <3>4. ASSUME NEW indexed \in BOOLEAN, ApplyWrite(d, r, indexed) PROVE Still
      <4>1. PICK w \in pull[d][r].todo :
              /\ w \in Write
              /\ pull'[d][r] \in {Wrote(pull[d][r], w.version), Stopped(pull[d][r])}
              /\ \A e \in Device, s \in Run : e # d \/ s # r =>
                   pull'[e][s] \in {pull[e][s], Outdated(pull[e][s], w.item)}
        BY <3>4, ApplyWriteFacts
      <4>2. w.item \in Item /\ UNCHANGED since
        BY <3>4, <4>1 DEF ApplyWrite, Write
      <4> HIDE DEF n
      <4>3. Sound(pull'[d][r], n)
        BY <2>a, <2>b, <4>1, SoundSteps
      <4>4. \A e \in Device, s \in Run : e # d \/ s # r => Sound(pull'[e][s], n)
        BY <2>a, <2>b, <4>1, <4>2, SoundSteps
      <4> QED BY <2>b, <4>2, <4>3, <4>4 DEF Still
    <3>5. CASE PullDone(d, r)
      <4>1. /\ pull' = [pull EXCEPT ![d][r] = Pulled]
            /\ since' = [since EXCEPT ![d] = NextSince(d, r)]
        BY <3>5 DEF PullDone
      <4>2. /\ pull[d][r].latest <= n /\ pull[d][r].last <= n /\ since[d] <= n
            /\ pull[d][r].latest \in Nat /\ pull[d][r].last \in Nat \union {-1}
        BY <2>b DEF Sound, Pull
      <4>3. NextSince(d, r) <= n
        BY <2>b, <4>2 DEF NextSince
      <4>4. Sound(Pulled, n)
        BY <2>a, <2>b, SoundSteps
      <4>5. /\ pull'[d][r] = Pulled /\ since'[d] = NextSince(d, r)
            /\ \A e \in Device, s \in Run : e # d \/ s # r => pull'[e][s] = pull[e][s]
            /\ \A e \in Device \ {d} : since'[e] = since[e]
        BY <4>1 DEF TypeOK
      <4> HIDE DEF n
      <4> QED BY <2>b, <4>3, <4>4, <4>5 DEF Still
    <3> QED BY <2>2, <3>1, <3>2, <3>3, <3>4, <3>5, <3>6 DEF PullStep
  <2>3. ASSUME NEW d \in Device, NEW r \in Run, PushStep(d, r) PROVE Still
    <3>1. CASE PushNothing(d, r) \/ MarkSynced(d, r) \/ PushLost(d, r)
      BY <2>d, <3>1 DEF PushNothing, MarkSynced, PushLost
    <3>2. CASE \/ \E items \in SUBSET Unsynced(d) : Gather(d, r, items)
               \/ \E confirmed \in BOOLEAN : ServerPush(d, r, confirmed)
               \/ ServerPushError(d, r)
      <4>1. UNCHANGED <<pull, since>>
        BY <3>2 DEF Gather, ServerPush, ServerPushError
      <4> QED BY <2>f, <4>1
    <3> QED BY <2>3, <3>1, <3>2 DEF PushStep
  <2>4. ASSUME NEW d \in Device, Crash(d) PROVE Still
    <3>1. \A e \in Device, s \in Run : pull'[e][s] = pull[e][s] \/ pull'[e][s] = IdlePull
      BY <2>4 DEF Crash, TypeOK
    <3>2. \A e \in Device, s \in Run : Sound(pull'[e][s], n)
      BY <2>a, <2>b, <3>1, SoundSteps
    <3> QED BY <2>b, <2>4, <3>2 DEF Crash, Still
  <2>5. ASSUME UNCHANGED vars PROVE Still
    <3>1. UNCHANGED <<pull, since>>
      BY <2>5 DEF vars
    <3> QED BY <2>f, <3>1
  <2>6. Still
    <3>1. Next => Still
      BY <2>1, <2>2, <2>3, <2>4 DEF Next
    <3> QED BY <2>5, <3>1
  <2> QED
    <3>1. \A e \in Device : since'[e] \in Nat /\ \A s \in Run : pull'[e][s] \in Pull
      BY DEF TypeOK
    <3> HIDE DEF n
    <3>2. ASSUME NEW e \in Device
          PROVE  since'[e] <= GetLatestVersion(blobs')
      BY <2>a, <2>6, <3>1 DEF Still
    <3>3. ASSUME NEW e \in Device, NEW s \in Run
          PROVE  Sound(pull'[e][s], GetLatestVersion(blobs'))
      <4>1. Sound(pull'[e][s], n)
        BY <2>6 DEF Still
      <4> QED BY <2>a, <3>1, <4>1, SoundLater
    <3> QED BY <3>2, <3>3 DEF CursorInv
<1> QED BY <1>1, <1>2, TypeCorrect, PTL DEF Spec

\* For any devices, notes, page size and runs, with crashes and failures
\* anywhere in a pull, a device's cursor never passes the server's latest
\* version.
THEOREM CursorStaysWithinServer == Spec => []CursorWithinServer
<1>1. CursorInv => CursorWithinServer
  BY DEF CursorInv, CursorWithinServer
<1> QED BY <1>1, CursorInvariant, PTL

\* Wherever the loop over the page stops, and whatever other runs did to the
\* cursor meanwhile, the run does not move the cursor above a blob that it did
\* not apply.
THEOREM CursorStaysBelowUnapplied == Spec => []CursorBelowUnapplied
<1>1. CursorInv => CursorBelowUnapplied
  <2> SUFFICES ASSUME CursorInv, NEW d \in Device, NEW r \in Run,
                      pull[d][r].pc = "cursor", NextSince(d, r) # since[d],
                      NEW b \in Unapplied(d, r)
               PROVE  NextSince(d, r) <= b.version
    BY DEF CursorBelowUnapplied
  <2>1. b \in pull[d][r].page \union pull[d][r].todo
    BY DEF Unapplied
  <2>2. pull[d][r].last <= b.version
    BY <2>1 DEF CursorInv, Sound
  <2>3. NextSince(d, r) = pull[d][r].last
    BY DEF NextSince
  <2> QED BY <2>2, <2>3
<1> QED BY <1>1, CursorInvariant, PTL
=============================================================================
