--------------------------------- MODULE Share ---------------------------------
(***************************************************************************)
(* One shared note, its views, reactions and comments                      *)
(* (service/share_service.go, service/comment_service.go, their            *)
(* repositories and handlers).                                             *)
(*                                                                         *)
(* A request is one goroutine on its own connection; none of them uses a   *)
(* transaction, so every statement is a step.                              *)
(***************************************************************************)
EXTENDS Naturals, FiniteSets

CONSTANTS User, Owner,  \* the owner of the note is one of the users
          MaxViews,     \* max_views of the note
          Reader,       \* GetShare requests served at the same time
          Toggler,      \* ToggleReaction requests served at the same time
          Comment, None,
          MaxLost,      \* bound: increments of the view counter that fail
          MaxCount      \* bound: toggles start below this reaction count

ASSUME ShareAssumption ==
  /\ Owner \in User /\ MaxViews \in Nat /\ MaxLost \in Nat /\ MaxCount \in Nat
  /\ IsFiniteSet(Reader) /\ IsFiniteSet(Toggler) /\ IsFiniteSet(User)
  /\ Reader # {} /\ None \notin User \union Comment

VARIABLES users,      \* rows of users
          share,      \* the row of shared_notes, and whether expires_at has passed
          views,      \* view_count
          reader,     \* per GetShare request: its next statement
          opened,     \* GetShare requests that passed the checks so far
          uncounted,  \* increments that failed
          reacted,    \* note_reactions: users with a heart
          heart,      \* reaction_heart
          toggle,     \* per ToggleReaction request: user and next statement
          disturbed,  \* two toggles of one user overlapped, or one stopped halfway
          comments,   \* note_comments
          notify,     \* comments whose notifyNoteOwner is still to run
          told        \* comments the owner was sent a push for

viewing == <<views, reader, opened, uncounted>>
reacting == <<reacted, heart, toggle, disturbed>>
commenting == <<comments, notify, told>>
vars == <<users, share, viewing, reacting, commenting>>

Absent == [state |-> "none", author |-> None, parent |-> None]
NoToggle == [user |-> None, at |-> "idle"]

TypeOK ==
  /\ users \subseteq User
  /\ share \in {"none", "live", "expired", "gone"}
  /\ views \in Nat /\ opened \in Nat /\ uncounted \in 0..MaxLost
  /\ reader \in [Reader -> {"idle", "count"}]
  /\ reacted \subseteq users /\ heart \in Nat /\ disturbed \in BOOLEAN
  /\ toggle \in [Toggler -> [user : User \union {None},
                             at : {"idle", "insert", "increment", "delete", "decrement"}]]
  /\ comments \in [Comment -> [state : {"none", "visible", "deleted"},
                               author : User \union {None}, parent : Comment \union {None}]]
  /\ notify \subseteq Comment /\ told \subseteq Comment

Init ==
  /\ users = User
  /\ share = "none" /\ views = 0 /\ opened = 0 /\ uncounted = 0
  /\ reader = [r \in Reader |-> "idle"]
  /\ reacted = {} /\ heart = 0 /\ disturbed = FALSE
  /\ toggle = [q \in Toggler |-> NoToggle]
  /\ comments = [c \in Comment |-> Absent]
  /\ notify = {} /\ told = {}

-----------------------------------------------------------------------------
(***************************************************************************)
(* The row of shared_notes.  Reactions and comments refer to it and go     *)
(* with it.                                                                *)
(***************************************************************************)
Exists == share \in {"live", "expired"}

CreateShare ==
  /\ share = "none"
  /\ share' = "live"
  /\ UNCHANGED <<users, viewing, reacting, commenting>>

ExpiresAtPasses ==
  /\ share = "live"
  /\ share' = "expired"
  /\ UNCHANGED <<users, viewing, reacting, commenting>>

Cascade ==
  /\ share' = "gone"
  /\ reacted' = {}
  /\ comments' = [c \in Comment |-> Absent]
  /\ UNCHANGED <<viewing, heart, toggle, disturbed, notify, told>>

DeleteExpired == share = "expired" /\ Cascade /\ UNCHANGED users

\* The owner deletes the account.
OwnerDeleted ==
  /\ Exists /\ Owner \in users
  /\ users' = users \ {Owner}
  /\ Cascade

-----------------------------------------------------------------------------
(***************************************************************************)
(* GetShare.  The password is compared after the view was counted, so a    *)
(* wrong one uses up a view as well.                                       *)
(***************************************************************************)
\* GetByID, expiry, and the limit against the counter that was read.
GetShare(r) ==
  /\ reader[r] = "idle"
  /\ share = "live"
  /\ views < MaxViews
  /\ reader' = [reader EXCEPT ![r] = "count"]
  /\ opened' = opened + 1
  /\ UNCHANGED <<users, share, views, uncounted, reacting, commenting>>

\* Mutant: nothing is added when the limit is reached.
IncrementViewCountCapped(r) ==
  /\ reader[r] = "count"
  /\ views' = IF views + 1 < MaxViews THEN views + 1 ELSE views
  /\ reader' = [reader EXCEPT ![r] = "idle"]
  /\ UNCHANGED <<users, share, opened, uncounted, reacting, commenting>>

\* view_count = view_count + 1, and the note is sent.
IncrementViewCount(r) ==
  /\ reader[r] = "count"
  /\ views' = IF Exists THEN views + 1 ELSE views
  /\ reader' = [reader EXCEPT ![r] = "idle"]
  /\ UNCHANGED <<users, share, opened, uncounted, reacting, commenting>>

\* The statement fails: logged, and the note is sent all the same.
ViewNotCounted(r) ==
  /\ reader[r] = "count" /\ uncounted < MaxLost
  /\ uncounted' = uncounted + 1
  /\ reader' = [reader EXCEPT ![r] = "idle"]
  /\ UNCHANGED <<users, share, views, opened, reacting, commenting>>

-----------------------------------------------------------------------------
(***************************************************************************)
(* ToggleReaction (React), for one of the two kinds of reaction: they have *)
(* a column and rows of their own each.                                    *)
(***************************************************************************)
At(q, stage) == toggle' = [toggle EXCEPT ![q].at = stage]
Done(q) == toggle' = [toggle EXCEPT ![q] = NoToggle]

\* found: the reaction was read.  A query that fails counts as not found.
React(q, u, found) ==
  /\ toggle[q] = NoToggle
  /\ heart < MaxCount
  /\ found => u \in reacted
  /\ toggle' = [toggle EXCEPT ![q] = [user |-> u, at |-> IF found THEN "delete" ELSE "insert"]]
  /\ disturbed' = \/ disturbed \/ \E p \in Toggler : toggle[p].user = u
                  \/ u \in reacted /\ ~found
  /\ UNCHANGED <<users, share, viewing, reacted, heart, commenting>>

\* Mutant: note_reactions does not refer to users.
InsertReactionAnyone(q) ==
  /\ toggle[q].at = "insert"
  /\ IF Exists THEN reacted' = reacted \union {toggle[q].user} /\ At(q, "increment")
     ELSE Done(q) /\ UNCHANGED reacted
  /\ UNCHANGED <<users, share, viewing, heart, disturbed, commenting>>

\* ON CONFLICT DO NOTHING; without the note or the user the statement fails.
InsertReaction(q) ==
  /\ toggle[q].at = "insert"
  /\ IF Exists /\ toggle[q].user \in users
     THEN reacted' = reacted \union {toggle[q].user} /\ At(q, "increment")
     ELSE Done(q) /\ UNCHANGED reacted
  /\ UNCHANGED <<users, share, viewing, heart, disturbed, commenting>>

IncrementCounter(q) ==
  /\ toggle[q].at = "increment"
  /\ heart' = IF Exists THEN heart + 1 ELSE heart
  /\ Done(q)
  /\ UNCHANGED <<users, share, viewing, reacted, disturbed, commenting>>

DeleteReaction(q) ==
  /\ toggle[q].at = "delete"
  /\ reacted' = reacted \ {toggle[q].user}
  /\ At(q, "decrement")
  /\ UNCHANGED <<users, share, viewing, heart, disturbed, commenting>>

\* Mutant: GREATEST(heart - 1, 1).
DecrementCounterToOne(q) ==
  /\ toggle[q].at = "decrement"
  /\ heart' = IF Exists /\ heart > 1 THEN heart - 1 ELSE heart
  /\ Done(q)
  /\ UNCHANGED <<users, share, viewing, reacted, disturbed, commenting>>

\* GREATEST(heart - 1, 0)
DecrementCounter(q) ==
  /\ toggle[q].at = "decrement"
  /\ heart' = IF Exists /\ heart > 0 THEN heart - 1 ELSE heart
  /\ Done(q)
  /\ UNCHANGED <<users, share, viewing, reacted, disturbed, commenting>>

\* A statement fails, or the server dies: what was done stays.
ReactFails(q) ==
  /\ toggle[q] # NoToggle
  /\ Done(q)
  /\ disturbed' = (disturbed \/ toggle[q].at \in {"increment", "decrement"})
  /\ UNCHANGED <<users, share, viewing, reacted, heart, commenting>>

-----------------------------------------------------------------------------
(***************************************************************************)
(* Comments.                                                               *)
(***************************************************************************)
\* The note and the parent must be there; neither the expiry of the note nor the
\* deletion mark of the parent is looked at.
CreateComment(c, u, p) ==
  /\ comments[c] = Absent /\ c \notin notify \union told
  /\ Exists /\ u \in users
  /\ p # None => p # c /\ comments[p] # Absent
  /\ comments' = [comments EXCEPT ![c] = [state |-> "visible", author |-> u, parent |-> p]]
  /\ notify' = IF u = Owner THEN notify ELSE notify \union {c}
  /\ UNCHANGED <<users, share, viewing, reacting, told>>

\* SendPush to the owner, if the note is still found.
notifyNoteOwner(c) ==
  /\ c \in notify
  /\ notify' = notify \ {c}
  /\ told' = IF Exists THEN told \union {c} ELSE told
  /\ UNCHANGED <<users, share, viewing, reacting, comments>>

\* The author's own comments only; the replies stay.
DeleteComment(c, u) ==
  /\ comments[c].state = "visible" /\ comments[c].author = u
  /\ comments' = [comments EXCEPT ![c].state = "deleted"]
  /\ UNCHANGED <<users, share, viewing, reacting, notify, told>>

\* Mutant: rows of note_comments do not go with their parent.
RemovedWithNoReplies(gone) == gone

\* ON DELETE CASCADE through parent_id: with its replies, and the replies to them.
RemovedWith(gone) ==
  LET Replies(set) == {c \in Comment : comments[c].parent \in set}
  IN  {c \in Comment : \A set \in SUBSET Comment :
         gone \subseteq set /\ Replies(set) \subseteq set => c \in set}

\* A commenter deletes the account: comments and reactions refer to the user.
UserDeleted(u) ==
  LET removed == RemovedWith({c \in Comment : comments[c].author = u})
  IN  /\ u \in users \ {Owner}
      /\ users' = users \ {u}
      /\ comments' = [c \in Comment |-> IF c \in removed THEN Absent ELSE comments[c]]
      /\ reacted' = reacted \ {u}
      /\ disturbed' = (disturbed \/ u \in reacted)
      /\ UNCHANGED <<share, viewing, heart, toggle, notify, told>>

-----------------------------------------------------------------------------
Next ==
  \/ CreateShare \/ ExpiresAtPasses \/ DeleteExpired \/ OwnerDeleted
  \/ \E r \in Reader : GetShare(r) \/ IncrementViewCount(r) \/ ViewNotCounted(r)
  \/ \E q \in Toggler :
       \/ \E u \in User, found \in BOOLEAN : React(q, u, found)
       \/ InsertReaction(q) \/ IncrementCounter(q)
       \/ DeleteReaction(q) \/ DecrementCounter(q) \/ ReactFails(q)
  \/ \E c \in Comment :
       \/ notifyNoteOwner(c)
       \/ \E u \in User : \/ DeleteComment(c, u)
                          \/ \E p \in Comment \union {None} : CreateComment(c, u, p)
  \/ \E u \in User : UserDeleted(u)

Spec == Init /\ [][Next]_vars

-----------------------------------------------------------------------------
(***************************************************************************)
(* Properties                                                              *)
(***************************************************************************)
\* GetShare compares and counts in two statements.  Readers that overlap may
\* pass the limit together, but not more of them than run at the same time, and
\* then those whose count was lost.
ViewsBounded == opened <= MaxViews + (Cardinality(Reader) - 1) + uncounted

\* The counter beside the reactions: it lags behind the rows by the toggles that
\* are between their two statements, as long as no two toggles of one user
\* overlapped, none stopped halfway or read wrong, and nobody who reacted left.
ToggleAt(stage) == {q \in Toggler : toggle[q].at = stage}
ReactionsCounted ==
  ~disturbed /\ Exists =>
    heart + Cardinality(ToggleAt("increment"))
      = Cardinality(reacted) + Cardinality(ToggleAt("decrement"))

\* A reply never outlives the row it answers, whatever is deleted, by whom and
\* between which statements.
RepliesHaveParents ==
  \A c \in Comment : comments[c].parent # None => comments[comments[c].parent] # Absent
=============================================================================
