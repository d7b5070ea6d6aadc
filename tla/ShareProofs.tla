------------------------------ MODULE ShareProofs ------------------------------
(***************************************************************************)
(* Theorems about a shared note, for any users, readers, togglers and      *)
(* comments and any limit of views.                                        *)
(***************************************************************************)
EXTENDS Share, FiniteSetTheorems, TLAPS

-----------------------------------------------------------------------------
(***************************************************************************)
(* Types.                                                                  *)
(***************************************************************************)
ToggleType == [user : User \union {None},
               at : {"idle", "insert", "increment", "delete", "decrement"}]
CommentType == [state : {"none", "visible", "deleted"},
                author : User \union {None}, parent : Comment \union {None}]

\* The rows of a cascade are of the comments' type.
LEMMA AbsentType == Absent \in CommentType /\ NoToggle \in ToggleType
  BY DEF Absent, NoToggle, CommentType, ToggleType

\* A step of a toggle changes only the toggle's own entry.
LEMMA ToggleStep ==
  ASSUME TypeOK, NEW q \in Toggler,
         NEW stage \in {"insert", "increment", "delete", "decrement"},
         At(q, stage) \/ Done(q)
  PROVE  toggle' \in [Toggler -> ToggleType]
<1>1. CASE At(q, stage)
  BY <1>1 DEF At, TypeOK, ToggleType
<1>2. CASE Done(q)
  BY <1>2, AbsentType DEF Done, TypeOK, ToggleType
<1> QED BY <1>1, <1>2

\* The note, its views, reactions and comments keep the types of their columns.
THEOREM TypeCorrect == Spec => []TypeOK
<1>1. Init => TypeOK
  <2> SUFFICES ASSUME Init PROVE TypeOK
    OBVIOUS
  <2>1. toggle \in [Toggler -> ToggleType] /\ comments \in [Comment -> CommentType]
    BY AbsentType DEF Init
  <2>2. uncounted \in 0..MaxLost
    BY ShareAssumption DEF Init
  <2>3. disturbed \in BOOLEAN
    BY DEF Init
  <2> QED BY <2>1, <2>2, <2>3 DEF Init, TypeOK, ToggleType, CommentType
<1>2. TypeOK /\ [Next]_vars => TypeOK'
  <2> SUFFICES ASSUME TypeOK, [Next]_vars PROVE TypeOK'
    OBVIOUS
  <2>1. ASSUME CreateShare \/ ExpiresAtPasses PROVE TypeOK'
    BY <2>1 DEF CreateShare, ExpiresAtPasses, TypeOK, viewing, reacting, commenting
  <2>2. ASSUME DeleteExpired \/ OwnerDeleted PROVE TypeOK'
    <3>1. comments' \in [Comment -> CommentType]
      BY <2>2, AbsentType DEF DeleteExpired, OwnerDeleted, Cascade
    <3>2. users' \subseteq User /\ reacted' \subseteq users'
      BY <2>2 DEF DeleteExpired, OwnerDeleted, Cascade, TypeOK
    <3> QED BY <2>2, <3>1, <3>2
            DEF DeleteExpired, OwnerDeleted, Cascade, TypeOK, viewing, CommentType
  <2>3. ASSUME NEW r \in Reader, GetShare(r) \/ IncrementViewCount(r) \/ ViewNotCounted(r)
        PROVE  TypeOK'
    <3>1. views' \in Nat /\ opened' \in Nat /\ uncounted' \in 0..MaxLost
      BY <2>3, ShareAssumption DEF GetShare, IncrementViewCount, ViewNotCounted, TypeOK
    <3>2. reader' \in [Reader -> {"idle", "count"}]
      BY <2>3 DEF GetShare, IncrementViewCount, ViewNotCounted, TypeOK
    <3> QED BY <2>3, <3>1, <3>2
            DEF GetShare, IncrementViewCount, ViewNotCounted, TypeOK, reacting, commenting
  <2>4. ASSUME NEW q \in Toggler, NEW u \in User, NEW found \in BOOLEAN, React(q, u, found)
        PROVE  TypeOK'
    <3>1. toggle' \in [Toggler -> ToggleType]
      BY <2>4 DEF React, TypeOK, ToggleType
    <3>2. disturbed' \in BOOLEAN
      BY <2>4 DEF React, TypeOK
    <3> QED BY <2>4, <3>1, <3>2 DEF React, TypeOK, viewing, commenting, ToggleType
  <2>5. ASSUME NEW q \in Toggler, InsertReaction(q) \/ DeleteReaction(q)
        PROVE  TypeOK'
    <3>1. toggle' \in [Toggler -> ToggleType]
      BY <2>5, ToggleStep DEF InsertReaction, DeleteReaction
    <3>2. reacted' \subseteq users
      BY <2>5 DEF InsertReaction, DeleteReaction, TypeOK
    <3> QED BY <2>5, <3>1, <3>2
            DEF InsertReaction, DeleteReaction, TypeOK, viewing, commenting, ToggleType
  <2>6. ASSUME NEW q \in Toggler, IncrementCounter(q) \/ DecrementCounter(q) \/ ReactFails(q)
        PROVE  TypeOK'
    <3>1. toggle' \in [Toggler -> ToggleType]
      BY <2>6, ToggleStep DEF IncrementCounter, DecrementCounter, ReactFails
    <3>2. heart' \in Nat
      BY <2>6 DEF IncrementCounter, DecrementCounter, ReactFails, TypeOK
    <3>3. disturbed' \in BOOLEAN
      BY <2>6 DEF IncrementCounter, DecrementCounter, ReactFails, TypeOK
    <3> QED BY <2>6, <3>1, <3>2, <3>3
            DEF IncrementCounter, DecrementCounter, ReactFails, TypeOK, viewing, commenting,
                ToggleType
  <2>7. ASSUME NEW c \in Comment, notifyNoteOwner(c) PROVE TypeOK'
    BY <2>7 DEF notifyNoteOwner, TypeOK, viewing, reacting
  <2>8. ASSUME NEW c \in Comment, NEW u \in User, DeleteComment(c, u) PROVE TypeOK'
    <3>1. comments' \in [Comment -> CommentType]
      BY <2>8 DEF DeleteComment, TypeOK, CommentType
    <3> QED BY <2>8, <3>1 DEF DeleteComment, TypeOK, viewing, reacting, CommentType
  <2>9. ASSUME NEW c \in Comment, NEW u \in User, NEW p \in Comment \union {None},
               CreateComment(c, u, p)
        PROVE  TypeOK'
    <3>1. comments' \in [Comment -> CommentType]
      BY <2>9 DEF CreateComment, TypeOK, CommentType
    <3>2. notify' \subseteq Comment
      BY <2>9 DEF CreateComment, TypeOK
    <3> QED BY <2>9, <3>1, <3>2 DEF CreateComment, TypeOK, viewing, reacting, CommentType
  <2>10. ASSUME NEW u \in User, UserDeleted(u) PROVE TypeOK'
    <3>1. comments' \in [Comment -> CommentType]
      BY <2>10, AbsentType DEF UserDeleted, TypeOK, CommentType
    <3>2. users' \subseteq User /\ reacted' \subseteq users'
      BY <2>10 DEF UserDeleted, TypeOK
    <3>3. disturbed' \in BOOLEAN
      BY <2>10 DEF UserDeleted, TypeOK
    <3> QED BY <2>10, <3>1, <3>2, <3>3 DEF UserDeleted, TypeOK, viewing, CommentType
  <2>11. CASE UNCHANGED vars
    BY <2>11 DEF vars, TypeOK, viewing, reacting, commenting
  <2> QED BY <2>1, <2>2, <2>3, <2>4, <2>5, <2>6, <2>7, <2>8, <2>9, <2>10, <2>11 DEF Next
<1> QED BY <1>1, <1>2, PTL DEF Spec

-----------------------------------------------------------------------------
(***************************************************************************)
(* Views.                                                                  *)
(***************************************************************************)
Counting == {r \in Reader : reader[r] = "count"}

\* Until the note is gone, every view that was let through has been counted, is
\* about to be, or was lost.
ViewInv ==
  /\ share = "none" => opened = 0
  /\ share # "gone" => opened <= views + Cardinality(Counting) + uncounted
  /\ ViewsBounded

\* The readers that are about to count are finitely many.
LEMMA CountingFinite ==
  IsFiniteSet(Counting) /\ Cardinality(Counting) \in Nat /\ Cardinality(Reader) \in Nat
  BY ShareAssumption, FS_Subset, FS_CardinalityType DEF Counting

\* A view beyond the limit needs as many readers that are still counting.
THEOREM ViewsAreBounded == Spec => []ViewsBounded
<1>1. Init => ViewInv
  <2> SUFFICES ASSUME Init PROVE ViewInv
    OBVIOUS
  <2>1. Cardinality(Reader) >= 1
    BY ShareAssumption, FS_CardinalityType, FS_EmptySet
  <2> QED BY <2>1, CountingFinite, ShareAssumption, FS_CardinalityType
          DEF Init, ViewInv, ViewsBounded
<1>2. TypeOK /\ ViewInv /\ [Next]_vars => ViewInv'
  <2> SUFFICES ASSUME TypeOK, ViewInv, [Next]_vars PROVE ViewInv'
    OBVIOUS
  <2> USE ShareAssumption
  <2>0. /\ Cardinality(Counting) \in Nat /\ Cardinality(Reader) \in Nat
        /\ IsFiniteSet(Counting)
    BY CountingFinite
  <2>1. ASSUME NEW r \in Reader, GetShare(r) PROVE ViewInv'
    <3>1. r \notin Counting /\ Counting' = Counting \union {r}
      BY <2>1 DEF GetShare, Counting, TypeOK
    <3>2. Cardinality(Counting') = Cardinality(Counting) + 1
      BY <3>1, <2>0, FS_AddElement
    <3>3. Cardinality(Counting') <= Cardinality(Reader)
      BY FS_Subset DEF Counting
    <3>4. opened <= views + Cardinality(Counting) + uncounted
      BY <2>1 DEF GetShare, ViewInv
    <3> QED BY <2>0, <2>1, <3>2, <3>3, <3>4 DEF GetShare, ViewInv, ViewsBounded, TypeOK
  <2>2. ASSUME NEW r \in Reader, IncrementViewCount(r) \/ ViewNotCounted(r) PROVE ViewInv'
    <3>1. r \in Counting /\ Counting' = Counting \ {r}
      BY <2>2 DEF IncrementViewCount, ViewNotCounted, Counting, TypeOK
    <3>2. Cardinality(Counting') = Cardinality(Counting) - 1
      BY <3>1, <2>0, FS_RemoveElement
    <3>3. Cardinality(Counting') \in Nat
      BY <3>1, <2>0, FS_RemoveElement, FS_CardinalityType
    <3>4. CASE IncrementViewCount(r)
      BY <2>0, <3>2, <3>3, <3>4 DEF IncrementViewCount, ViewInv, ViewsBounded, TypeOK, Exists
    <3>5. CASE ViewNotCounted(r)
      BY <2>0, <3>2, <3>3, <3>5 DEF ViewNotCounted, ViewInv, ViewsBounded, TypeOK
    <3> QED BY <2>2, <3>4, <3>5
  <2>3. ASSUME UNCHANGED viewing, share' # "none" \/ share' = share,
               share' # "gone" => share # "gone"
        PROVE  ViewInv'
    <3>1. Counting' = Counting
      BY <2>3 DEF Counting, viewing
    <3> QED BY <2>0, <2>3, <3>1 DEF ViewInv, ViewsBounded, viewing, TypeOK
  <2>4. CASE CreateShare \/ ExpiresAtPasses \/ DeleteExpired \/ OwnerDeleted
    BY <2>3, <2>4 DEF CreateShare, ExpiresAtPasses, DeleteExpired, OwnerDeleted, Cascade
  <2>5. ASSUME UNCHANGED <<share, viewing>> PROVE ViewInv'
    BY <2>3, <2>5
  <2>6. ASSUME NEW q \in Toggler,
               \/ \E u \in User, found \in BOOLEAN : React(q, u, found)
               \/ InsertReaction(q) \/ IncrementCounter(q)
               \/ DeleteReaction(q) \/ DecrementCounter(q) \/ ReactFails(q)
        PROVE  ViewInv'
    BY <2>5, <2>6 DEF React, InsertReaction, IncrementCounter, DeleteReaction,
                      DecrementCounter, ReactFails
  <2>7. ASSUME NEW c \in Comment,
               \/ notifyNoteOwner(c)
               \/ \E u \in User : \/ DeleteComment(c, u)
                                  \/ \E p \in Comment \union {None} : CreateComment(c, u, p)
        PROVE  ViewInv'
    BY <2>5, <2>7 DEF notifyNoteOwner, DeleteComment, CreateComment
  <2>8. ASSUME NEW u \in User, UserDeleted(u) PROVE ViewInv'
    BY <2>5, <2>8 DEF UserDeleted
  <2>9. CASE UNCHANGED vars
    BY <2>5, <2>9 DEF vars
  <2> QED BY <2>1, <2>2, <2>4, <2>6, <2>7, <2>8, <2>9 DEF Next
<1>3. ViewInv => ViewsBounded
  BY DEF ViewInv
<1> QED BY <1>1, <1>2, <1>3, TypeCorrect, PTL DEF Spec

-----------------------------------------------------------------------------
(***************************************************************************)
(* Comments.                                                               *)
(***************************************************************************)
\* What a cascade removes is closed under replies.
LEMMA RemovedWithReplies ==
  ASSUME NEW gone \in SUBSET Comment, NEW c \in Comment,
         comments[c].parent \in RemovedWith(gone)
  PROVE  c \in RemovedWith(gone)
  BY DEF RemovedWith

\* A reply's parent is a row of the table, whatever is deleted.
THEOREM RepliesKeepParents == Spec => []RepliesHaveParents
<1>1. Init => RepliesHaveParents
  BY DEF Init, RepliesHaveParents, Absent
<1>2. TypeOK /\ RepliesHaveParents /\ [Next]_vars => RepliesHaveParents'
  <2> SUFFICES ASSUME TypeOK, RepliesHaveParents, [Next]_vars PROVE RepliesHaveParents'
    OBVIOUS
  <2> USE ShareAssumption
  <2>1. ASSUME NEW c \in Comment, NEW u \in User, NEW p \in Comment \union {None},
               CreateComment(c, u, p)
        PROVE  RepliesHaveParents'
    <3> SUFFICES ASSUME NEW d \in Comment, comments'[d].parent # None
                 PROVE  comments'[comments'[d].parent] # Absent
      BY DEF RepliesHaveParents
    <3>1. comments'[c] = [state |-> "visible", author |-> u, parent |-> p]
      BY <2>1 DEF CreateComment, TypeOK
    <3>2. comments'[c] # Absent
      BY <3>1 DEF Absent
    <3>3. \A e \in Comment : e # c => comments'[e] = comments[e]
      BY <2>1 DEF CreateComment, TypeOK
    <3>4. CASE d = c
      BY <2>1, <3>1, <3>3, <3>4 DEF CreateComment
    <3>5. CASE d # c
      <4>1. comments[d].parent \in Comment /\ comments[comments[d].parent] # Absent
        BY <3>3, <3>5 DEF RepliesHaveParents, TypeOK
      <4> QED BY <3>2, <3>3, <3>5, <4>1
    <3> QED BY <3>4, <3>5
  <2>2. ASSUME NEW c \in Comment, NEW u \in User, DeleteComment(c, u)
        PROVE  RepliesHaveParents'
    <3>1. \A d \in Comment : comments'[d].parent = comments[d].parent
      BY <2>2 DEF DeleteComment, TypeOK
    <3>2. comments'[c].state = "deleted"
      BY <2>2 DEF DeleteComment, TypeOK
    <3>3. \A e \in Comment : e # c => comments'[e] = comments[e]
      BY <2>2 DEF DeleteComment, TypeOK
    <3>4. \A e \in Comment : comments[e] # Absent => comments'[e] # Absent
      BY <3>2, <3>3 DEF Absent
    <3> QED BY <3>1, <3>4 DEF RepliesHaveParents, TypeOK
  <2>3. ASSUME NEW u \in User, UserDeleted(u) PROVE RepliesHaveParents'
    <3> DEFINE gone == {c \in Comment : comments[c].author = u}
    <3>1. \A c \in Comment :
            comments'[c] = IF c \in RemovedWith(gone) THEN Absent ELSE comments[c]
      BY <2>3 DEF UserDeleted
    <3> SUFFICES ASSUME NEW d \in Comment, comments'[d].parent # None
                 PROVE  comments'[comments'[d].parent] # Absent
      BY DEF RepliesHaveParents
    <3>2. gone \in SUBSET Comment
      OBVIOUS
    <3> HIDE DEF gone
    <3>3. d \notin RemovedWith(gone)
      BY <3>1 DEF Absent
    <3>4. comments'[d] = comments[d]
      BY <3>1, <3>3
    <3>5. comments[d].parent \in Comment /\ comments[comments[d].parent] # Absent
      BY <3>4 DEF RepliesHaveParents, TypeOK
    <3>6. comments[d].parent \notin RemovedWith(gone)
      BY <3>2, <3>3, RemovedWithReplies
    <3> QED BY <3>1, <3>4, <3>5, <3>6
  <2>4. CASE DeleteExpired \/ OwnerDeleted
    BY <2>4 DEF DeleteExpired, OwnerDeleted, Cascade, RepliesHaveParents, Absent
  <2>5. ASSUME UNCHANGED comments PROVE RepliesHaveParents'
    BY <2>5 DEF RepliesHaveParents
  <2>6. CASE CreateShare \/ ExpiresAtPasses
    BY <2>5, <2>6 DEF CreateShare, ExpiresAtPasses, commenting
  <2>7. ASSUME NEW r \in Reader, GetShare(r) \/ IncrementViewCount(r) \/ ViewNotCounted(r)
        PROVE  RepliesHaveParents'
    BY <2>5, <2>7 DEF GetShare, IncrementViewCount, ViewNotCounted, commenting
  <2>8. ASSUME NEW q \in Toggler,
               \/ \E u \in User, found \in BOOLEAN : React(q, u, found)
               \/ InsertReaction(q) \/ IncrementCounter(q)
               \/ DeleteReaction(q) \/ DecrementCounter(q) \/ ReactFails(q)
        PROVE  RepliesHaveParents'
    BY <2>5, <2>8 DEF React, InsertReaction, IncrementCounter, DeleteReaction,
                      DecrementCounter, ReactFails, commenting
  <2>9. ASSUME NEW c \in Comment, notifyNoteOwner(c) PROVE RepliesHaveParents'
    BY <2>5, <2>9 DEF notifyNoteOwner
  <2>10. CASE UNCHANGED vars
    BY <2>5, <2>10 DEF vars, commenting
  <2> QED BY <2>1, <2>2, <2>3, <2>4, <2>6, <2>7, <2>8, <2>9, <2>10 DEF Next
<1> QED BY <1>1, <1>2, TypeCorrect, PTL DEF Spec

-----------------------------------------------------------------------------
(***************************************************************************)
(* Reactions.                                                              *)
(***************************************************************************)
\* A toggle that runs has a user.
ToggleShape ==
  \A q \in Toggler : \/ toggle[q] = NoToggle
                     \/ toggle[q].user \in User /\ toggle[q].at # "idle"

\* Undisturbed, no two toggles are about one user.
OneToggleEach ==
  \A p, q \in Toggler : p # q /\ toggle[p].user = toggle[q].user => toggle[p] = NoToggle

\* Undisturbed, what a toggle read of its user's reaction is still so.
ToggleRead ==
  \A q \in Toggler : /\ toggle[q].at \in {"increment", "delete"} => toggle[q].user \in reacted
                     /\ toggle[q].at = "insert" => toggle[q].user \notin reacted

Balanced ==
  heart + Cardinality(ToggleAt("increment"))
    = Cardinality(reacted) + Cardinality(ToggleAt("decrement"))

\* Before the note is created only toggles that will fail are under way.
Untouched ==
  share = "none" => /\ reacted = {} /\ heart = 0
                    /\ \A q \in Toggler : toggle[q].at \in {"idle", "insert"}

CountInv ==
  /\ ToggleShape /\ Untouched
  /\ ~disturbed /\ share # "gone" => OneToggleEach /\ ToggleRead /\ Balanced

\* Cardinalities of reactions and of toggles are numbers.
LEMMA ReactionsFinite ==
  ASSUME TypeOK
  PROVE  /\ IsFiniteSet(reacted) /\ Cardinality(reacted) \in Nat
         /\ \A s : IsFiniteSet(ToggleAt(s)) /\ Cardinality(ToggleAt(s)) \in Nat
<1>1. reacted \in SUBSET User
  BY DEF TypeOK
<1>2. \A s : ToggleAt(s) \in SUBSET Toggler
  BY DEF ToggleAt
<1> QED BY <1>1, <1>2, ShareAssumption, FS_Subset, FS_CardinalityType

\* A step of one toggle moves it from one stage's set to another's.
LEMMA StageCount ==
  ASSUME TypeOK, TypeOK', NEW q \in Toggler, NEW s,
         \A p \in Toggler : p # q => toggle'[p] = toggle[p]
  PROVE  Cardinality(ToggleAt(s)') =
           Cardinality(ToggleAt(s)) + (IF toggle'[q].at = s THEN 1 ELSE 0)
                                    - (IF toggle[q].at = s THEN 1 ELSE 0)
<1>0. IsFiniteSet(ToggleAt(s)) /\ Cardinality(ToggleAt(s)) \in Nat
  BY ReactionsFinite
<1>1. CASE toggle'[q].at = s
  <2>1. ToggleAt(s)' = ToggleAt(s) \union {q}
    BY <1>1 DEF ToggleAt
  <2>2. q \in ToggleAt(s) <=> toggle[q].at = s
    BY DEF ToggleAt
  <2>3. Cardinality(ToggleAt(s)') =
          IF q \in ToggleAt(s) THEN Cardinality(ToggleAt(s)) ELSE Cardinality(ToggleAt(s)) + 1
    BY <1>0, <2>1, FS_AddElement
  <2>4. CASE toggle[q].at = s
    BY <1>0, <1>1, <2>2, <2>3, <2>4
  <2>5. CASE toggle[q].at # s
    BY <1>0, <1>1, <2>2, <2>3, <2>5
  <2> QED BY <2>4, <2>5
<1>2. CASE toggle'[q].at # s
  <2>1. ToggleAt(s)' = ToggleAt(s) \ {q}
    BY <1>2 DEF ToggleAt
  <2>2. q \in ToggleAt(s) <=> toggle[q].at = s
    BY DEF ToggleAt
  <2>3. Cardinality(ToggleAt(s)') =
          IF q \in ToggleAt(s) THEN Cardinality(ToggleAt(s)) - 1 ELSE Cardinality(ToggleAt(s))
    BY <1>0, <2>1, FS_RemoveElement
  <2>4. CASE toggle[q].at = s
    BY <1>0, <1>2, <2>2, <2>3, <2>4
  <2>5. CASE toggle[q].at # s
    BY <1>0, <1>2, <2>2, <2>3, <2>5
  <2> QED BY <2>4, <2>5
<1> QED BY <1>1, <1>2

\* The toggles about to add to the counter have reactions of their own.
LEMMA IncrementsBelowReactions ==
  ASSUME TypeOK, ToggleShape, OneToggleEach, ToggleRead
  PROVE  Cardinality(ToggleAt("increment")) <= Cardinality(reacted)
<1> DEFINE f == [q \in ToggleAt("increment") |-> toggle[q].user]
<1>1. \A q \in ToggleAt("increment") : f[q] \in reacted
  BY DEF ToggleAt, ToggleRead
<1>2. \A p, q \in ToggleAt("increment") : f[p] = f[q] => p = q
  <2> SUFFICES ASSUME NEW p \in ToggleAt("increment"), NEW q \in ToggleAt("increment"),
                      f[p] = f[q], p # q
               PROVE  FALSE
    OBVIOUS
  <2>1. toggle[p] = NoToggle
    BY DEF ToggleAt, OneToggleEach
  <2>2. toggle[p].at = "increment"
    BY DEF ToggleAt
  <2> QED BY <2>1, <2>2 DEF NoToggle
<1>3. f \in Injection(ToggleAt("increment"), reacted)
  <2>1. f \in [ToggleAt("increment") -> reacted]
    BY <1>1
  <2> QED BY <1>2, <2>1 DEF Injection, IsInjective
<1> QED BY <1>3, ReactionsFinite, FS_Injection

\* The counter shown with a note agrees with its reactions, up to the toggles that
\* are between their statements, for any number of concurrent toggles.
THEOREM ReactionsAreCounted == Spec => []ReactionsCounted
<1>1. Init => CountInv
  <2> SUFFICES ASSUME Init PROVE CountInv
    OBVIOUS
  <2>1. \A q \in Toggler : toggle[q] = NoToggle /\ toggle[q].at = "idle"
    BY DEF Init, NoToggle
  <2>2. ToggleAt("increment") = {} /\ ToggleAt("decrement") = {}
    BY <2>1 DEF ToggleAt
  <2>3. Balanced
    BY <2>2, FS_EmptySet DEF Init, Balanced
  <2>4. ToggleShape /\ OneToggleEach /\ ToggleRead
    BY <2>1 DEF ToggleShape, OneToggleEach, ToggleRead
  <2>5. Untouched
    BY <2>1 DEF Init, Untouched
  <2> QED BY <2>3, <2>4, <2>5 DEF CountInv
<1>2. TypeOK /\ TypeOK' /\ CountInv /\ [Next]_vars => CountInv'
  <2> SUFFICES ASSUME TypeOK, TypeOK', CountInv, [Next]_vars PROVE CountInv'
    OBVIOUS
  <2> USE ShareAssumption
  <2>a. /\ IsFiniteSet(reacted) /\ Cardinality(reacted) \in Nat
        /\ \A s : Cardinality(ToggleAt(s)) \in Nat
    BY ReactionsFinite
  <2>b. ToggleShape /\ Untouched
    BY DEF CountInv
  <2>d. heart \in Nat
    BY DEF TypeOK
  <2>1. ASSUME NEW q \in Toggler, NEW u \in User, NEW found \in BOOLEAN, React(q, u, found)
        PROVE  CountInv'
    <3>1. /\ toggle[q] = NoToggle
          /\ toggle'[q] = [user |-> u, at |-> IF found THEN "delete" ELSE "insert"]
          /\ \A p \in Toggler : p # q => toggle'[p] = toggle[p]
      BY <2>1 DEF React, TypeOK
    <3>2. /\ toggle'[q].user = u /\ toggle'[q].at \in {"delete", "insert"}
          /\ toggle'[q].at = "delete" <=> found
          /\ toggle[q].at = "idle"
      BY <3>1 DEF NoToggle
    <3>3. ToggleShape'
      BY <2>b, <3>1, <3>2 DEF ToggleShape
    <3>4. Untouched'
      BY <2>1, <2>b, <3>1, <3>2 DEF React, Untouched
    <3>5. ASSUME ~disturbed', share' # "gone" PROVE OneToggleEach' /\ ToggleRead' /\ Balanced'
      <4>1. /\ ~disturbed /\ share # "gone" /\ UNCHANGED <<reacted, heart>>
            /\ \A p \in Toggler : toggle[p].user # u
            /\ found <=> u \in reacted
        BY <2>1, <3>5 DEF React
      <4>2. OneToggleEach /\ ToggleRead /\ Balanced
        BY <4>1 DEF CountInv
      <4>3. OneToggleEach'
        BY <3>1, <3>2, <4>1, <4>2 DEF OneToggleEach
      <4>4. ToggleRead'
        BY <3>1, <3>2, <4>1, <4>2 DEF ToggleRead
      <4>5. Balanced'
        <5>1. Cardinality(ToggleAt("increment")') = Cardinality(ToggleAt("increment"))
          BY <2>a, <3>1, <3>2, StageCount
        <5>2. Cardinality(ToggleAt("decrement")') = Cardinality(ToggleAt("decrement"))
          BY <2>a, <3>1, <3>2, StageCount
        <5> QED BY <4>1, <4>2, <5>1, <5>2 DEF Balanced
      <4> QED BY <4>3, <4>4, <4>5
    <3> QED BY <3>3, <3>4, <3>5 DEF CountInv
  <2>2. ASSUME NEW q \in Toggler, InsertReaction(q) \/ DeleteReaction(q), ~Done(q)
        PROVE  CountInv'
    <3>1. /\ toggle'[q].user = toggle[q].user /\ toggle'[q].at \in {"increment", "decrement"}
          /\ toggle[q].at \in {"insert", "delete"}
          /\ toggle[q].at = "insert" <=> toggle'[q].at = "increment"
          /\ \A p \in Toggler : p # q => toggle'[p] = toggle[p]
      BY <2>2 DEF InsertReaction, DeleteReaction, At, TypeOK
    <3>2. toggle[q].user \in User
      BY <2>b, <3>1 DEF ToggleShape, NoToggle
    <3>3. UNCHANGED <<share, heart, disturbed>>
      BY <2>2 DEF InsertReaction, DeleteReaction
    <3>4. ToggleShape'
      BY <2>b, <3>1, <3>2 DEF ToggleShape
    <3>5. share # "none"
      BY <2>2, <2>b, <3>1 DEF InsertReaction, DeleteReaction, Exists, Untouched
    <3>6. ASSUME ~disturbed', share' # "gone" PROVE OneToggleEach' /\ ToggleRead' /\ Balanced'
      <4>1. OneToggleEach /\ ToggleRead /\ Balanced
        BY <3>3, <3>6 DEF CountInv
      <4>2. toggle[q] # NoToggle /\ \A p \in Toggler : p # q => toggle[p].user # toggle[q].user
        BY <3>1, <4>1 DEF OneToggleEach, NoToggle
      <4>3. OneToggleEach'
        BY <3>1, <4>1, <4>2 DEF OneToggleEach
      <4>4. CASE toggle[q].at = "insert"
        <5>1. toggle[q].user \notin reacted /\ reacted' = reacted \union {toggle[q].user}
          BY <2>2, <4>1, <4>4 DEF ToggleRead, InsertReaction, DeleteReaction
        <5>2. Cardinality(reacted') = Cardinality(reacted) + 1
          BY <2>a, <5>1, FS_AddElement
        <5>3. Cardinality(ToggleAt("increment")') = Cardinality(ToggleAt("increment")) + 1
          BY <2>a, <3>1, <4>4, StageCount
        <5>4. Cardinality(ToggleAt("decrement")') = Cardinality(ToggleAt("decrement"))
          BY <2>a, <3>1, <4>4, StageCount
        <5>5. ToggleRead'
          BY <3>1, <4>1, <4>2, <4>4, <5>1 DEF ToggleRead
        <5> QED BY <2>a, <2>d, <3>3, <4>1, <4>3, <5>2, <5>3, <5>4, <5>5 DEF Balanced
      <4>5. CASE toggle[q].at = "delete"
        <5>1. toggle[q].user \in reacted /\ reacted' = reacted \ {toggle[q].user}
          BY <2>2, <4>1, <4>5 DEF ToggleRead, InsertReaction, DeleteReaction
        <5>2. Cardinality(reacted') = Cardinality(reacted) - 1
          BY <2>a, <5>1, FS_RemoveElement
        <5>3. Cardinality(ToggleAt("increment")') = Cardinality(ToggleAt("increment"))
          BY <2>a, <3>1, <4>5, StageCount
        <5>4. Cardinality(ToggleAt("decrement")') = Cardinality(ToggleAt("decrement")) + 1
          BY <2>a, <3>1, <4>5, StageCount
        <5>5. ToggleRead'
          BY <3>1, <4>1, <4>2, <4>5, <5>1 DEF ToggleRead
        <5> QED BY <2>a, <2>d, <3>3, <4>1, <4>3, <5>2, <5>3, <5>4, <5>5 DEF Balanced
      <4> QED BY <3>1, <4>4, <4>5
    <3> QED BY <3>3, <3>4, <3>5, <3>6 DEF CountInv, Untouched
  <2>3. ASSUME NEW q \in Toggler, Done(q), UNCHANGED <<share, reacted>>,
               heart' = heart \/ share # "none",
               ~disturbed' => ~disturbed,
               ~disturbed' /\ share # "gone" => (Balanced => Balanced')
        PROVE  CountInv'
    <3>1. /\ toggle'[q] = NoToggle /\ toggle'[q].at = "idle" /\ toggle'[q].user = None
          /\ \A p \in Toggler : p # q => toggle'[p] = toggle[p]
      BY <2>3 DEF Done, TypeOK, NoToggle
    <3>2. ToggleShape' /\ Untouched'
      <4>1. ToggleShape'
        BY <2>b, <3>1 DEF ToggleShape
      <4>2. Untouched'
        BY <2>3, <2>b, <3>1 DEF Untouched
      <4> QED BY <4>1, <4>2
    <3>3. ASSUME ~disturbed', share' # "gone" PROVE OneToggleEach' /\ ToggleRead' /\ Balanced'
      <4>1. OneToggleEach /\ ToggleRead /\ Balanced'
        BY <2>3, <3>3 DEF CountInv
      <4>2. OneToggleEach'
        <5> SUFFICES ASSUME NEW p \in Toggler, NEW r \in Toggler, p # r,
                            toggle'[p].user = toggle'[r].user
                     PROVE  toggle'[p] = NoToggle
          BY DEF OneToggleEach
        <5>1. CASE p = q
          BY <3>1, <5>1
        <5>2. CASE r = q
          BY <2>b, <3>1, <5>2 DEF ToggleShape
        <5>3. CASE p # q /\ r # q
          BY <3>1, <4>1, <5>3 DEF OneToggleEach
        <5> QED BY <5>1, <5>2, <5>3
      <4>3. ToggleRead'
        BY <2>3, <3>1, <4>1 DEF ToggleRead
      <4> QED BY <4>1, <4>2, <4>3
    <3> QED BY <3>2, <3>3 DEF CountInv
  <2>c. ASSUME NEW q \in Toggler, Done(q)
        PROVE  \A s \in {"increment", "decrement"} :
                 Cardinality(ToggleAt(s)') =
                   Cardinality(ToggleAt(s)) - (IF toggle[q].at = s THEN 1 ELSE 0)
    <3>1. toggle'[q].at = "idle" /\ \A p \in Toggler : p # q => toggle'[p] = toggle[p]
      BY <2>c DEF Done, TypeOK, NoToggle
    <3> QED BY <2>a, <3>1, StageCount
  <2>4. ASSUME NEW q \in Toggler, IncrementCounter(q) PROVE CountInv'
    <3>1. share # "none"
      BY <2>4, <2>b DEF IncrementCounter, Untouched
    <3>2. ASSUME share # "gone", Balanced PROVE Balanced'
      <4>1. heart' = heart + 1 /\ reacted' = reacted
        BY <2>4, <3>1, <3>2 DEF IncrementCounter, Exists, TypeOK
      <4>2. /\ Cardinality(ToggleAt("increment")') = Cardinality(ToggleAt("increment")) - 1
            /\ Cardinality(ToggleAt("decrement")') = Cardinality(ToggleAt("decrement"))
        BY <2>a, <2>c, <2>4 DEF IncrementCounter
      <4> QED BY <2>a, <2>d, <3>2, <4>1, <4>2 DEF Balanced
    <3> QED BY <2>3, <2>4, <3>1, <3>2 DEF IncrementCounter
  <2>5. ASSUME NEW q \in Toggler, DecrementCounter(q) PROVE CountInv'
    <3>1. share # "none"
      BY <2>5, <2>b DEF DecrementCounter, Untouched
    <3>2. ASSUME ~disturbed', share # "gone", Balanced PROVE Balanced'
      <4>0. OneToggleEach /\ ToggleRead
        BY <2>5, <3>2 DEF DecrementCounter, CountInv
      <4>1. q \in ToggleAt("decrement")
        BY <2>5 DEF DecrementCounter, ToggleAt
      <4>2. Cardinality(ToggleAt("decrement")) > 0
        BY <2>a, <4>1, ReactionsFinite, FS_EmptySet
      <4>3. heart > 0
        BY <2>a, <2>b, <3>2, <4>0, <4>2, IncrementsBelowReactions DEF Balanced, TypeOK
      <4>4. heart' = heart - 1 /\ reacted' = reacted
        BY <2>5, <3>1, <3>2, <4>3 DEF DecrementCounter, Exists, TypeOK
      <4>5. /\ Cardinality(ToggleAt("increment")') = Cardinality(ToggleAt("increment"))
            /\ Cardinality(ToggleAt("decrement")') = Cardinality(ToggleAt("decrement")) - 1
        BY <2>a, <2>c, <2>5 DEF DecrementCounter
      <4> QED BY <2>a, <2>d, <3>2, <4>4, <4>5 DEF Balanced
    <3> QED BY <2>3, <2>5, <3>1, <3>2 DEF DecrementCounter
  <2>6. ASSUME NEW q \in Toggler,
               \/ ReactFails(q)
               \/ InsertReaction(q) /\ Done(q) /\ UNCHANGED reacted
        PROVE  CountInv'
    <3>1. Done(q) /\ UNCHANGED <<share, reacted, heart>>
      BY <2>6 DEF ReactFails, InsertReaction
    <3>2. ~disturbed' => ~disturbed /\ toggle[q].at \notin {"increment", "decrement"}
      BY <2>6 DEF ReactFails, InsertReaction
    <3>3. ASSUME ~disturbed', Balanced PROVE Balanced'
      <4>1. \A s \in {"increment", "decrement"} :
              Cardinality(ToggleAt(s)') = Cardinality(ToggleAt(s))
        BY <2>a, <2>c, <3>1, <3>2, <3>3
      <4> QED BY <3>1, <3>3, <4>1 DEF Balanced
    <3> QED BY <2>3, <3>1, <3>2, <3>3
  <2>7. ASSUME NEW u \in User, UserDeleted(u) PROVE CountInv'
    <3>1. UNCHANGED <<share, heart, toggle>> /\ reacted' = reacted \ {u}
      BY <2>7 DEF UserDeleted
    <3>2. ~disturbed' => ~disturbed /\ reacted' = reacted
      BY <2>7 DEF UserDeleted
    <3>3. ToggleShape' /\ Untouched'
      BY <2>b, <3>1 DEF ToggleShape, Untouched
    <3>4. ASSUME ~disturbed', share' # "gone" PROVE OneToggleEach' /\ ToggleRead' /\ Balanced'
      BY <3>1, <3>2, <3>4 DEF CountInv, OneToggleEach, ToggleRead, Balanced, ToggleAt
    <3> QED BY <3>3, <3>4 DEF CountInv
  <2>8. CASE DeleteExpired \/ OwnerDeleted
    BY <2>8, <2>b DEF DeleteExpired, OwnerDeleted, Cascade, CountInv, ToggleShape, Untouched
  <2>9. ASSUME UNCHANGED reacting, share' = share \/ share \in {"none", "live"},
               share' = share \/ share' \in {"live", "expired"}
        PROVE  CountInv'
    <3>1. ToggleShape' /\ Untouched'
      BY <2>9, <2>b DEF ToggleShape, Untouched, reacting
    <3>2. ASSUME ~disturbed', share' # "gone" PROVE OneToggleEach' /\ ToggleRead' /\ Balanced'
      BY <2>9, <3>2 DEF CountInv, OneToggleEach, ToggleRead, Balanced, ToggleAt, reacting
    <3> QED BY <3>1, <3>2 DEF CountInv
  <2>10. CASE CreateShare \/ ExpiresAtPasses
    BY <2>9, <2>10 DEF CreateShare, ExpiresAtPasses
  <2>11. ASSUME NEW r \in Reader, GetShare(r) \/ IncrementViewCount(r) \/ ViewNotCounted(r)
         PROVE  CountInv'
    BY <2>9, <2>11 DEF GetShare, IncrementViewCount, ViewNotCounted
  <2>12. ASSUME NEW c \in Comment,
                \/ notifyNoteOwner(c)
                \/ \E u \in User : \/ DeleteComment(c, u)
                                   \/ \E p \in Comment \union {None} : CreateComment(c, u, p)
         PROVE  CountInv'
    BY <2>9, <2>12 DEF notifyNoteOwner, DeleteComment, CreateComment
  <2>13. CASE UNCHANGED vars
    BY <2>9, <2>13 DEF vars
  <2>14. ASSUME NEW q \in Toggler, InsertReaction(q) \/ DeleteReaction(q) PROVE CountInv'
    <3>1. CASE ~Done(q)
      BY <2>2, <2>14, <3>1
    <3>2. CASE Done(q)
      <4>1. toggle'[q].at = "idle"
        BY <3>2 DEF Done, NoToggle, TypeOK
      <4>2. ~At(q, "increment") /\ ~At(q, "decrement")
        BY <4>1 DEF At, TypeOK
      <4>3. InsertReaction(q) /\ UNCHANGED reacted
        BY <2>14, <4>2 DEF InsertReaction, DeleteReaction
      <4> QED BY <2>6, <3>2, <4>3
    <3> QED BY <3>1, <3>2
  <2> QED BY <2>1, <2>4, <2>5, <2>6, <2>7, <2>8, <2>10, <2>11, <2>12, <2>13, <2>14 DEF Next
<1>3. CountInv => ReactionsCounted
  BY DEF CountInv, ReactionsCounted, Balanced, Exists
<1> QED BY <1>1, <1>2, <1>3, TypeCorrect, PTL DEF Spec
=============================================================================
