---------------------------- MODULE AccountsProofs ----------------------------
(***************************************************************************)
(* Theorems about accounts, refresh tokens and push tokens, for any number *)
(* of registrations, requests at a time, tokens and devices; and about an  *)
(* account's platform connections and publish jobs.                        *)
(***************************************************************************)
EXTENDS Accounts, Publish, FiniteSetTheorems, TLAPS

RequestType == [at : Stage, acct : Account \union {None}, old : Token \union {None},
                new : Token \union {None}, late : BOOLEAN, blind : BOOLEAN]
Existed == users \union gone
Unknown(a) == a \in Account /\ a \notin Existed

-----------------------------------------------------------------------------
(***************************************************************************)
(* The inductive invariant.                                                *)
(***************************************************************************)
\* A registration in progress has its id for itself.
CreateInv ==
  \A r \in Request : req[r].at = "create" =>
    /\ Unknown(req[r].acct)
    /\ \A q \in Request : q # r => req[q].acct # req[r].acct

\* Every other request is about an account that exists or existed, and about
\* tokens of this account: an old one that a client holds, a new one nobody has.
RequestInv ==
  \A r \in Request :
    /\ req[r].at \notin {"idle", "create"} => req[r].acct \in Existed
    /\ req[r].at \in {"load", "revoke"} => req[r].old \in held /\ owner[req[r].old] = req[r].acct
    /\ req[r].at \in {"revoke", "store"} =>
         req[r].new \in Token \ held /\ owner[req[r].new] = req[r].acct

\* A token pair is signed by one request.
NewInv ==
  \A q, r \in Request :
    q # r /\ {req[q].at, req[r].at} \subseteq {"revoke", "store"} => req[q].new # req[r].new

OwnerInv ==
  \A t \in Token : /\ owner[t] # None => owner[t] \in Existed
                   /\ t \in held => owner[t] # None

\* A rotation that was written down stays so until the account is gone.
SpentInv == \A t \in spent : row[t] = "revoked" \/ owner[t] \in gone

\* Hence who comes with a spent token, and has looked, comes for a deleted account.
LateInv ==
  \A r \in Request : req[r].late /\ ~req[r].blind => req[r].at = "load" /\ req[r].acct \in gone

\* Once DeleteAccount is past the push tokens, those of the account are stray.
SweptInv ==
  \A r \in Request :
    req[r].at \in {"revokeAll", "deleteUser"} => PushTokensOf(req[r].acct) \subseteq stray

OneUser == \A a, b \in users : a = b

AccountInv ==
  /\ TypeOK /\ CreateInv /\ RequestInv /\ NewInv /\ OwnerInv
  /\ SpentInv /\ LateInv /\ SweptInv /\ OneUser /\ DeletedIsGone

-----------------------------------------------------------------------------
(***************************************************************************)
(* Steps of a request.                                                     *)
(***************************************************************************)
\* A request that ends is of a request's type.
LEMMA IdleType == Idle \in RequestType
  BY DEF Idle, RequestType, Stage

\* What the record of one request becomes, and that the others stay.
LEMMA RequestChange ==
  ASSUME TypeOK, NEW r \in Request, NEW x \in RequestType, req' = [req EXCEPT ![r] = x]
  PROVE  /\ req' \in [Request -> RequestType]
         /\ req'[r] = x /\ \A q \in Request : q # r => req'[q] = req[q]
  BY DEF TypeOK, RequestType

\* The step of a request that changes nothing else.
LEMMA RequestAlone ==
  ASSUME AccountInv, NEW r \in Request, NEW x \in RequestType, req' = [req EXCEPT ![r] = x],
         UNCHANGED <<users, known, session, devices, push, gone>>,
         x.at = "create" => Unknown(x.acct) /\ \A q \in Request : q # r => req[q].acct # x.acct,
         \A q \in Request : q # r /\ req[q].at = "create" => req[q].acct # x.acct,
         x.at \notin {"idle", "create"} => x.acct \in Existed,
         x.at = "load" => x.old \in held /\ owner[x.old] = x.acct,
         x.at \notin {"revoke", "store"},
         x.late = FALSE \/ x.blind = TRUE \/ (x.at = "load" /\ x.acct \in gone),
         x.at \notin {"revokeAll", "deleteUser"}
  PROVE  AccountInv'
<1>1. /\ req' \in [Request -> RequestType]
      /\ req'[r] = x /\ \A q \in Request : q # r => req'[q] = req[q]
  BY RequestChange DEF AccountInv
<1>2. UNCHANGED <<users, known, owner, row, held, spent, devices, pushOwner, stray, sweep, gone>>
  BY DEF session, push
<1>3. TypeOK'
  BY <1>1, <1>2 DEF AccountInv, TypeOK, RequestType
<1>4. CreateInv'
  BY <1>1, <1>2 DEF AccountInv, CreateInv, Unknown, Existed
<1>5. RequestInv'
  BY <1>1, <1>2 DEF AccountInv, RequestInv, Existed
<1>6. NewInv'
  BY <1>1 DEF AccountInv, NewInv
<1>7. OwnerInv' /\ SpentInv' /\ OneUser' /\ DeletedIsGone'
  BY <1>2 DEF AccountInv, OwnerInv, SpentInv, OneUser, DeletedIsGone, Existed, PushTokensOf
<1>8. LateInv'
  BY <1>1, <1>2 DEF AccountInv, LateInv
<1>9. SweptInv'
  BY <1>1, <1>2 DEF AccountInv, SweptInv, PushTokensOf
<1> QED BY <1>3, <1>4, <1>5, <1>6, <1>7, <1>8, <1>9 DEF AccountInv

\* A request ends, for whatever reason, without another change.
LEMMA EndsInv ==
  ASSUME AccountInv, NEW r \in Request, Ends(r),
         UNCHANGED <<users, known, session, devices, push, gone>>
  PROVE  AccountInv'
<1>1. req' = [req EXCEPT ![r] = Idle]
  BY DEF Ends
<1>2. \A q \in Request : req[q].at = "create" => req[q].acct # None
  BY AccountsAssumption DEF AccountInv, CreateInv, Unknown
<1>3. /\ Idle.at = "idle" /\ Idle.acct = None /\ Idle.late = FALSE
  BY DEF Idle
<1> QED BY <1>1, <1>2, <1>3, IdleType, RequestAlone

\* A registration takes an id nobody has.
LEMMA RegisterInv ==
  ASSUME AccountInv, NEW r \in Request, NEW a \in Account, Register(r, a)
  PROVE  AccountInv'
<1> DEFINE x == [Idle EXCEPT !.at = "create", !.acct = a]
<1>1. req' = [req EXCEPT ![r] = x]
  BY DEF Register
<1>2. /\ x \in RequestType /\ x.at = "create" /\ x.acct = a /\ x.late = FALSE
  BY DEF Idle, RequestType, Stage
<1>3. /\ Unknown(a) /\ \A q \in Request : req[q].acct # a
      /\ UNCHANGED <<users, known, session, devices, push, gone>>
  BY DEF Register, Unknown, Existed
<1> HIDE DEF x
<1> QED BY <1>1, <1>2, <1>3, RequestAlone

\* A refresh starts with a token somebody holds; with a spent one, after a look at
\* its row, only for an account that is gone.
LEMMA RefreshInv ==
  ASSUME AccountInv, NEW r \in Request, NEW t \in Token, NEW blind \in BOOLEAN,
         RefreshToken(r, t, blind)
  PROVE  AccountInv'
<1>1. /\ req' = [req EXCEPT ![r] = [Idle EXCEPT !.at = "load", !.acct = owner[t], !.old = t,
                                               !.late = t \in spent, !.blind = blind]]
      /\ t \in held /\ (blind \/ row[t] # "revoked")
  BY DEF RefreshToken, IsRevoked
<1>a. UNCHANGED <<users, known, session, devices, push, gone>>
  BY DEF RefreshToken
<1>2. owner[t] \in Existed /\ owner[t] \in Account
  BY <1>1 DEF AccountInv, OwnerInv, TypeOK, Existed
<1>3. ASSUME NEW late \in BOOLEAN,
             req' = [req EXCEPT ![r] = [Idle EXCEPT !.at = "load", !.acct = owner[t], !.old = t,
                                                    !.late = late, !.blind = blind]],
             late = FALSE \/ blind = TRUE \/ owner[t] \in gone
      PROVE  AccountInv'
  <2> DEFINE x == [Idle EXCEPT !.at = "load", !.acct = owner[t], !.old = t,
                               !.late = late, !.blind = blind]
  <2>1. req' = [req EXCEPT ![r] = x]
    BY <1>3
  <2>2. x \in RequestType /\ x.at = "load" /\ x.acct = owner[t] /\ x.old = t
    BY <1>2 DEF Idle, RequestType, Stage
  <2>3. x.late = late /\ x.blind = blind
    BY DEF Idle
  <2> HIDE DEF x
  <2>4. x.late = FALSE \/ x.blind = TRUE \/ (x.at = "load" /\ x.acct \in gone)
    BY <1>3, <2>2, <2>3
  <2>5. \A q \in Request : req[q].at = "create" => req[q].acct # x.acct
    BY <1>2, <2>2 DEF AccountInv, CreateInv, Unknown
  <2>6. x.acct \in Existed /\ x.old \in held /\ owner[x.old] = x.acct
    BY <1>1, <1>2, <2>2
  <2>7. x.at \notin {"create", "revoke", "store", "revokeAll", "deleteUser"}
    BY <2>2
  <2> QED BY <1>a, <2>1, <2>2, <2>4, <2>5, <2>6, <2>7, RequestAlone
<1>4. CASE t \in spent
  <2>1. blind = TRUE \/ owner[t] \in gone
    BY <1>1, <1>4 DEF AccountInv, SpentInv
  <2>2. (t \in spent) = TRUE
    BY <1>4
  <2> QED BY <1>1, <1>3, <2>1, <2>2
<1>5. CASE t \notin spent
  <2>1. (t \in spent) = FALSE
    BY <1>5
  <2> QED BY <1>1, <1>3, <2>1
<1> QED BY <1>4, <1>5

\* A deletion starts for an account that exists.
LEMMA DeleteAccountInv ==
  ASSUME AccountInv, NEW r \in Request, NEW a \in Account, DeleteAccount(r, a)
  PROVE  AccountInv'
<1> DEFINE x == [Idle EXCEPT !.at = "deviceTokens", !.acct = a]
<1>1. /\ req' = [req EXCEPT ![r] = x] /\ a \in Existed
      /\ UNCHANGED <<users, known, session, devices, push, gone>>
  BY DEF DeleteAccount, GetByID, Existed
<1>2. /\ x \in RequestType /\ x.at = "deviceTokens" /\ x.acct = a /\ x.late = FALSE
  BY DEF Idle, RequestType, Stage
<1>3. \A q \in Request : req[q].at = "create" => req[q].acct # a
  BY <1>1 DEF AccountInv, CreateInv, Unknown
<1> HIDE DEF x
<1> QED BY <1>1, <1>2, <1>3, RequestAlone

\* A request that goes on keeps everything but its place.
LEMMA GoOnChange ==
  ASSUME AccountInv, NEW r \in Request, NEW stage \in Stage, GoOn(r, stage)
  PROVE  /\ req' \in [Request -> RequestType]
         /\ req'[r].at = stage
         /\ req'[r].acct = req[r].acct /\ req'[r].old = req[r].old /\ req'[r].new = req[r].new
         /\ req'[r].late = req[r].late /\ req'[r].blind = req[r].blind
         /\ \A q \in Request : q # r => req'[q] = req[q]
  BY DEF GoOn, AccountInv, TypeOK, RequestType

\* A token pair is signed for an account that exists by then.
LEMMA SignInv ==
  ASSUME AccountInv, NEW r \in Request, NEW a \in Account, NEW t \in Token,
         owner[t] = None, owner' = [owner EXCEPT ![t] = a],
         NEW x \in RequestType, req' = [req EXCEPT ![r] = x],
         x.acct = a, x.new = t, x.at \in {"revoke", "store"},
         x.at = "revoke" => x.old \in held /\ owner[x.old] = a,
         x.late = FALSE \/ x.blind = TRUE,
         \A q \in Request : q # r /\ req[q].at = "create" => req[q].acct # a,
         a \in users', a \notin gone,
         users' = users \/ (users = {} /\ users' = {a}),
         UNCHANGED <<known, row, held, spent, devices, push, gone>>
  PROVE  AccountInv'
<1> USE DEF Existed, Unknown
<1>1. /\ req' \in [Request -> RequestType]
      /\ req'[r] = x /\ \A q \in Request : q # r => req'[q] = req[q]
  BY RequestChange DEF AccountInv
<1>2. UNCHANGED <<known, row, held, spent, devices, pushOwner, stray, sweep, gone>>
  BY DEF push
<1>3. /\ owner[t] = None /\ owner'[t] = a /\ owner' \in [Token -> Account \union {None}]
      /\ \A z \in Token : z # t => owner'[z] = owner[z]
  BY DEF AccountInv, TypeOK
<1>4. t \notin held /\ held \subseteq Token /\ spent \subseteq held
  BY <1>3 DEF AccountInv, OwnerInv, TypeOK
<1>5. Existed \subseteq Existed' /\ a \in Existed' /\ users \subseteq users' /\ Existed' \subseteq Existed \union {a}
  BY <1>2 DEF Existed
<1>6. TypeOK'
  <2>1. users' \subseteq Account /\ gone' \subseteq Account \ users'
    BY <1>2 DEF AccountInv, TypeOK
  <2>2. known' \subseteq users' \union gone' /\ devices' \subseteq users' \X Device
    BY <1>2, <1>5 DEF AccountInv, TypeOK
  <2> QED BY <1>1, <1>2, <1>3, <2>1, <2>2 DEF AccountInv, TypeOK, RequestType
<1>7. CreateInv'
  <2> SUFFICES ASSUME NEW q \in Request, req'[q].at = "create"
               PROVE  /\ req'[q].acct \in Account \ (users' \union gone')
                      /\ \A p \in Request : p # q => req'[p].acct # req'[q].acct
    BY DEF CreateInv
  <2>1. q # r /\ req'[q] = req[q]
    BY <1>1
  <2>2. Unknown(req[q].acct) /\ req[q].acct # a
    BY <2>1 DEF AccountInv, CreateInv
  <2>3. req'[q].acct \in Account \ (users' \union gone')
    BY <1>5, <2>1, <2>2
  <2> QED BY <1>1, <2>1, <2>2, <2>3 DEF AccountInv, CreateInv, Unknown
<1>8. RequestInv'
  <2>1. \A q \in Request : req[q].at \in {"revoke", "store"} => req[q].new # t
    BY <1>3, AccountsAssumption DEF AccountInv, RequestInv, TypeOK
  <2> QED BY <1>1, <1>2, <1>3, <1>4, <1>5, <2>1 DEF AccountInv, RequestInv
<1>9. NewInv'
  <2>1. \A q \in Request : req[q].at \in {"revoke", "store"} => req[q].new # t
    BY <1>3, AccountsAssumption DEF AccountInv, RequestInv, Existed, TypeOK
  <2> QED BY <1>1, <2>1 DEF AccountInv, NewInv
<1>10. OwnerInv'
  BY <1>2, <1>3, <1>4, <1>5, AccountsAssumption DEF AccountInv, OwnerInv
<1>11. SpentInv'
  BY <1>2, <1>3, <1>4 DEF AccountInv, SpentInv
<1>12. LateInv'
  BY <1>1, <1>2 DEF AccountInv, LateInv
<1>13. SweptInv'
  BY <1>1, <1>2 DEF AccountInv, SweptInv, PushTokensOf
<1>14. OneUser'
  BY DEF AccountInv, OneUser
<1>15. DeletedIsGone'
  BY <1>2, <1>3 DEF AccountInv, DeletedIsGone, PushTokensOf
<1> QED BY <1>6, <1>7, <1>8, <1>9, <1>10, <1>11, <1>12, <1>13, <1>14, <1>15 DEF AccountInv

\* A registration stores the user, unless another one was first.
LEMMA CreateUserInv ==
  ASSUME AccountInv, NEW r \in Request, CreateUser(r)
  PROVE  AccountInv'
<1> DEFINE a == req[r].acct
<1>1. /\ req[r].at = "create" /\ Unknown(a)
      /\ \A q \in Request : q # r => req[q].acct # a
  BY DEF CreateUser, AccountInv, CreateInv
<1>2. UNCHANGED <<known, row, held, spent, devices, push, gone>>
  BY DEF CreateUser
<1>3. CASE InsertUser(a)
  <2>1. PICK t \in Token : /\ owner[t] = None /\ owner' = [owner EXCEPT ![t] = a]
                           /\ req' = [req EXCEPT ![r].at = "store", ![r].new = t]
    BY <1>3 DEF CreateUser, generateAuthResponse
  <2>2. users = {} /\ users' = {a}
    BY <1>3 DEF CreateUser, InsertUser
  <2> DEFINE x == [req[r] EXCEPT !.at = "store", !.new = t]
  <2>3. req' = [req EXCEPT ![r] = x]
    BY <2>1
  <2>4. req[r] \in RequestType
    BY DEF AccountInv, TypeOK, RequestType
  <2>5. /\ x \in RequestType /\ x.at = "store" /\ x.new = t /\ x.acct = a
        /\ x.late = req[r].late /\ x.blind = req[r].blind
    BY <2>4 DEF RequestType, Stage
  <2>6. req[r].late = FALSE \/ req[r].blind = TRUE
    BY <1>1, <2>4 DEF AccountInv, LateInv, RequestType
  <2>7. a \in Account /\ a \notin gone
    BY <1>1 DEF Unknown, Existed
  <2>8. owner[t] = None /\ owner' = [owner EXCEPT ![t] = a]
    BY <2>1
  <2> HIDE DEF x, a
  <2>9. /\ x.at \in {"revoke", "store"} /\ x.at # "revoke"
        /\ x.late = FALSE \/ x.blind = TRUE
        /\ a \in users' /\ users = {} /\ users' = {a}
    BY <2>2, <2>5, <2>6
  <2> QED BY <1>1, <1>2, <2>3, <2>5, <2>7, <2>8, <2>9, SignInv
<1>4. CASE ~InsertUser(a)
  <2>1. Ends(r) /\ UNCHANGED <<users, known, session, devices, push, gone>>
    BY <1>4 DEF CreateUser, session
  <2> QED BY <2>1, EndsInv
<1> QED BY <1>3, <1>4

\* A login signs a pair for the account it found.
LEMMA LoginInv ==
  ASSUME AccountInv, NEW r \in Request, Login(r)
  PROVE  AccountInv'
<1>1. PICK a \in users, t \in Token :
        /\ owner[t] = None /\ owner' = [owner EXCEPT ![t] = a]
        /\ req' = [req EXCEPT ![r].at = "store", ![r].acct = a, ![r].new = t]
  BY DEF Login, GetByEmail, generateAuthResponse
<1> DEFINE x == [Idle EXCEPT !.at = "store", !.acct = a, !.new = t]
<1>2. req' = [req EXCEPT ![r] = x] /\ UNCHANGED <<users, known, row, held, spent, devices, push, gone>>
  BY <1>1 DEF Login
<1>3. a \in Account /\ a \notin gone
  BY DEF AccountInv, TypeOK
<1>4. /\ x \in RequestType /\ x.at = "store" /\ x.new = t /\ x.acct = a /\ x.late = FALSE
  BY <1>3 DEF Idle, RequestType, Stage
<1>5. \A q \in Request : req[q].at = "create" => req[q].acct # a
  BY DEF AccountInv, CreateInv, Unknown, Existed
<1> HIDE DEF x
<1>6. owner[t] = None /\ owner' = [owner EXCEPT ![t] = a]
  BY <1>1
<1>7. /\ x.at \in {"revoke", "store"} /\ x.at # "revoke"
      /\ x.late = FALSE \/ x.blind = TRUE
      /\ a \in users' /\ users' = users
  BY <1>2, <1>4
<1> QED BY <1>2, <1>3, <1>4, <1>5, <1>6, <1>7, SignInv

\* A refresh signs a pair if the account still exists.
LEMMA LoadUserInv ==
  ASSUME AccountInv, NEW r \in Request, LoadUser(r)
  PROVE  AccountInv'
<1> DEFINE a == req[r].acct
<1>1. /\ req[r].at = "load" /\ req[r].old \in held /\ owner[req[r].old] = a /\ a \in Existed
  BY DEF LoadUser, AccountInv, RequestInv
<1>2. UNCHANGED <<users, known, row, held, spent, devices, push, gone>>
  BY DEF LoadUser
<1>3. CASE GetByID(a)
  <2>1. PICK t \in Token : /\ owner[t] = None /\ owner' = [owner EXCEPT ![t] = a]
                           /\ req' = [req EXCEPT ![r].at = "revoke", ![r].new = t]
    BY <1>3 DEF LoadUser, generateAuthResponse
  <2>2. a \in users /\ a \in Account /\ a \notin gone
    BY <1>3 DEF GetByID, AccountInv, TypeOK
  <2> DEFINE x == [req[r] EXCEPT !.at = "revoke", !.new = t]
  <2>3. req' = [req EXCEPT ![r] = x]
    BY <2>1
  <2>4. req[r] \in RequestType
    BY DEF AccountInv, TypeOK, RequestType
  <2>5. /\ x \in RequestType /\ x.at = "revoke" /\ x.new = t /\ x.acct = a /\ x.old = req[r].old
        /\ x.late = req[r].late /\ x.blind = req[r].blind
    BY <2>4 DEF RequestType, Stage
  <2>6. req[r].late = FALSE \/ req[r].blind = TRUE
    BY <2>2, <2>4 DEF AccountInv, LateInv, RequestType
  <2>7. \A q \in Request : req[q].at = "create" => req[q].acct # a
    BY <1>1 DEF AccountInv, CreateInv, Unknown
  <2>8. owner[t] = None /\ owner' = [owner EXCEPT ![t] = a]
    BY <2>1
  <2> HIDE DEF x, a
  <2>9. /\ x.at \in {"revoke", "store"} /\ x.old \in held /\ owner[x.old] = a
        /\ x.late = FALSE \/ x.blind = TRUE
        /\ a \in users' /\ users' = users
    BY <1>1, <1>2, <2>2, <2>5, <2>6
  <2> QED BY <1>2, <2>2, <2>3, <2>5, <2>7, <2>8, <2>9, SignInv
<1>4. CASE ~GetByID(a)
  <2>1. Ends(r) /\ UNCHANGED <<users, known, session, devices, push, gone>>
    BY <1>4 DEF LoadUser, session
  <2> QED BY <2>1, EndsInv
<1> QED BY <1>3, <1>4

\* The pair is sent, whether or not its row was written.
LEMMA StoreInv ==
  ASSUME AccountInv, NEW r \in Request, Store(r)
  PROVE  AccountInv'
<1> DEFINE a == req[r].acct
           t == req[r].new
<1>1. /\ t \in Token \ held /\ owner[t] = a /\ a \in Existed /\ req[r].at = "store"
  BY DEF Store, AccountInv, RequestInv
<1>2. /\ (a \in users /\ row' = [row EXCEPT ![t] = "stored"]) \/ row' = row
      /\ held' = held \union {t} /\ known' = known \union {a}
      /\ req' = [req EXCEPT ![r] = Idle]
      /\ UNCHANGED <<users, owner, spent, devices, pushOwner, stray, sweep, gone>>
  BY DEF Store, Ends, push
<1>3. /\ req' \in [Request -> RequestType]
      /\ req'[r] = Idle /\ \A q \in Request : q # r => req'[q] = req[q]
  BY <1>2, IdleType, RequestChange DEF AccountInv
<1>4. /\ req'[r].at = "idle" /\ req'[r].acct = None /\ req'[r].late = FALSE
  BY <1>3 DEF Idle
<1>5. /\ row' \in [Token -> {"none", "stored", "revoked"}]
      /\ \A z \in Token : row'[z] = row[z] \/ (z = t /\ a \in users)
  BY <1>1, <1>2 DEF AccountInv, TypeOK
<1>6. \A q \in Request : q # r /\ req[q].at \in {"revoke", "store"} => req[q].new # t
  BY <1>1 DEF AccountInv, NewInv
<1> HIDE DEF a, t
<1> USE DEF Existed, Unknown
<1>7. TypeOK'
  <2>1. known' \subseteq users' \union gone' /\ held' \subseteq Token /\ spent' \subseteq held'
    BY <1>1, <1>2 DEF AccountInv, TypeOK
  <2>2. pushOwner' \in [PushToken -> known' \union {None}]
    BY <1>2 DEF AccountInv, TypeOK
  <2> QED BY <1>2, <1>3, <1>5, <2>1, <2>2 DEF AccountInv, TypeOK, RequestType
<1>8. CreateInv'
  BY <1>2, <1>3, <1>4, AccountsAssumption DEF AccountInv, CreateInv
<1>9. RequestInv'
  BY <1>2, <1>3, <1>4, <1>6 DEF AccountInv, RequestInv
<1>10. NewInv'
  BY <1>3, <1>4 DEF AccountInv, NewInv
<1>11. OwnerInv'
  BY <1>1, <1>2, AccountsAssumption DEF AccountInv, OwnerInv, TypeOK
<1>12. SpentInv'
  BY <1>1, <1>2, <1>5 DEF AccountInv, SpentInv, TypeOK
<1>13. LateInv'
  BY <1>2, <1>3, <1>4 DEF AccountInv, LateInv
<1>14. SweptInv'
  BY <1>2, <1>3, <1>4 DEF AccountInv, SweptInv, PushTokensOf
<1>15. OneUser'
  BY <1>2 DEF AccountInv, OneUser
<1>16. DeletedIsGone'
  BY <1>1, <1>2, <1>5 DEF AccountInv, DeletedIsGone, PushTokensOf, TypeOK
<1> QED BY <1>7, <1>8, <1>9, <1>10, <1>11, <1>12, <1>13, <1>14, <1>15, <1>16 DEF AccountInv

\* The rotation is written down for a token that has a row, and no row of a
\* deleted account comes back.
LEMMA RevokeInv ==
  ASSUME AccountInv, NEW r \in Request, Revoke(r)
  PROVE  AccountInv'
<1> DEFINE t == req[r].old
<1>1. req[r].at = "revoke" /\ t \in held /\ t \in Token /\ "store" \in Stage
  BY DEF Revoke, AccountInv, RequestInv, TypeOK, Stage
<1>2. /\ \/ /\ row' = [row EXCEPT ![t] = IF @ = "stored" THEN "revoked" ELSE @]
            /\ spent' = IF row[t] = "none" THEN spent ELSE spent \union {t}
         \/ row' = row /\ spent' = spent
      /\ GoOn(r, "store")
      /\ UNCHANGED <<users, known, owner, held, devices, pushOwner, stray, sweep, gone>>
  BY DEF Revoke, push
<1>3. /\ req' \in [Request -> RequestType] /\ req'[r].at = "store"
      /\ req'[r].acct = req[r].acct /\ req'[r].old = req[r].old /\ req'[r].new = req[r].new
      /\ req'[r].late = req[r].late /\ req'[r].blind = req[r].blind
      /\ \A q \in Request : q # r => req'[q] = req[q]
  BY <1>1, <1>2, GoOnChange
<1>4. /\ row' \in [Token -> {"none", "stored", "revoked"}]
      /\ \A z \in Token : row'[z] = row[z] \/ (row[z] = "stored" /\ row'[z] = "revoked")
      /\ \A z \in spent' : z \in spent \/ row'[z] = "revoked"
      /\ spent' \subseteq held
  BY <1>1, <1>2 DEF AccountInv, TypeOK
<1> HIDE DEF t
<1> USE DEF Existed, Unknown
<1>5. TypeOK'
  BY <1>2, <1>3, <1>4 DEF AccountInv, TypeOK, RequestType
<1>6. CreateInv' /\ RequestInv'
  BY <1>1, <1>2, <1>3 DEF AccountInv, CreateInv, RequestInv
<1>7. NewInv'
  BY <1>1, <1>3 DEF AccountInv, NewInv
<1>8. OwnerInv' /\ OneUser'
  BY <1>2 DEF AccountInv, OwnerInv, OneUser
<1>9. SpentInv'
  BY <1>2, <1>4 DEF AccountInv, SpentInv, TypeOK
<1>10. LateInv'
  BY <1>1, <1>2, <1>3 DEF AccountInv, LateInv
<1>11. SweptInv'
  BY <1>2, <1>3 DEF AccountInv, SweptInv, PushTokensOf
<1>12. DeletedIsGone'
  BY <1>2, <1>4 DEF AccountInv, DeletedIsGone, PushTokensOf
<1> QED BY <1>5, <1>6, <1>7, <1>8, <1>9, <1>10, <1>11, <1>12 DEF AccountInv

\* The push tokens of the account are deleted, or counted as stray.
LEMMA DeleteDeviceTokensInv ==
  ASSUME AccountInv, NEW r \in Request, DeleteDeviceTokens(r)
  PROVE  AccountInv'
<1> DEFINE a == req[r].acct
           mine == PushTokensOf(a)
<1>1. req[r].at = "deviceTokens" /\ "revokeAll" \in Stage /\ a \in Existed
  BY DEF DeleteDeviceTokens, AccountInv, RequestInv, Stage
<1>2. /\ \/ /\ pushOwner' = [p \in PushToken |-> IF p \in mine THEN None ELSE pushOwner[p]]
            /\ stray' = stray \ mine
         \/ stray' = stray \union mine /\ pushOwner' = pushOwner
      /\ GoOn(r, "revokeAll")
      /\ UNCHANGED <<users, known, owner, row, held, spent, devices, sweep, gone>>
  BY DEF DeleteDeviceTokens, session
<1>3. /\ req' \in [Request -> RequestType] /\ req'[r].at = "revokeAll"
      /\ req'[r].acct = req[r].acct /\ req'[r].old = req[r].old /\ req'[r].new = req[r].new
      /\ req'[r].late = req[r].late /\ req'[r].blind = req[r].blind
      /\ \A q \in Request : q # r => req'[q] = req[q]
  BY <1>1, <1>2, GoOnChange
<1>4. /\ pushOwner' \in [PushToken -> known \union {None}] /\ stray' \subseteq PushToken
      /\ \A b \in Account : PushTokensOf(b) \subseteq stray => {p \in PushToken : pushOwner'[p] = b} \subseteq stray'
      /\ {p \in PushToken : pushOwner'[p] = a} \subseteq stray'
  BY <1>1, <1>2, AccountsAssumption DEF AccountInv, TypeOK, PushTokensOf, Existed
<1> HIDE DEF a, mine
<1> USE DEF Existed, Unknown
<1>5. TypeOK'
  BY <1>2, <1>3, <1>4 DEF AccountInv, TypeOK, RequestType
<1>6. CreateInv' /\ RequestInv'
  BY <1>1, <1>2, <1>3 DEF AccountInv, CreateInv, RequestInv
<1>7. NewInv'
  BY <1>1, <1>3 DEF AccountInv, NewInv
<1>8. OwnerInv' /\ OneUser' /\ SpentInv'
  BY <1>2 DEF AccountInv, OwnerInv, OneUser, SpentInv
<1>9. LateInv'
  BY <1>1, <1>2, <1>3 DEF AccountInv, LateInv
<1>10. SweptInv'
  <2> SUFFICES ASSUME NEW q \in Request, req'[q].at \in {"revokeAll", "deleteUser"}
               PROVE  {p \in PushToken : pushOwner'[p] = req'[q].acct} \subseteq stray'
    BY DEF SweptInv, PushTokensOf
  <2>1. CASE q = r
    BY <1>3, <1>4, <2>1 DEF a
  <2>2. CASE q # r
    <3>1. req'[q] = req[q] /\ PushTokensOf(req[q].acct) \subseteq stray /\ req[q].acct \in Account
      BY <1>3, <2>2 DEF AccountInv, SweptInv, RequestInv, TypeOK
    <3> QED BY <1>4, <3>1
  <2> QED BY <2>1, <2>2
<1>11. DeletedIsGone'
  <2>1. \A b \in gone : {p \in PushToken : pushOwner'[p] = b} \subseteq stray'
    BY <1>4 DEF AccountInv, DeletedIsGone, TypeOK
  <2> QED BY <1>2, <2>1 DEF AccountInv, DeletedIsGone, PushTokensOf
<1> QED BY <1>5, <1>6, <1>7, <1>8, <1>9, <1>10, <1>11 DEF AccountInv

\* The rows of the account's tokens are revoked, or the statement fails.
LEMMA RevokeAllInv ==
  ASSUME AccountInv, NEW r \in Request, RevokeAllForUser(r)
  PROVE  AccountInv'
<1>1. /\ req[r].at = "revokeAll" /\ "deleteUser" \in Stage
      /\ PushTokensOf(req[r].acct) \subseteq stray /\ req[r].acct \in Existed
  BY DEF RevokeAllForUser, AccountInv, SweptInv, RequestInv, Stage
<1>2. /\ \/ row' = [t \in Token |-> IF owner[t] = req[r].acct /\ row[t] = "stored"
                                     THEN "revoked" ELSE row[t]]
         \/ row' = row
      /\ GoOn(r, "deleteUser")
      /\ UNCHANGED <<users, known, owner, held, spent, devices, pushOwner, stray, sweep, gone>>
  BY DEF RevokeAllForUser, push
<1>3. /\ req' \in [Request -> RequestType] /\ req'[r].at = "deleteUser"
      /\ req'[r].acct = req[r].acct /\ req'[r].old = req[r].old /\ req'[r].new = req[r].new
      /\ req'[r].late = req[r].late /\ req'[r].blind = req[r].blind
      /\ \A q \in Request : q # r => req'[q] = req[q]
  BY <1>1, <1>2, GoOnChange
<1>4. /\ row' \in [Token -> {"none", "stored", "revoked"}]
      /\ \A z \in Token : row'[z] = row[z] \/ (row[z] = "stored" /\ row'[z] = "revoked")
  BY <1>2 DEF AccountInv, TypeOK
<1> USE DEF Existed, Unknown
<1>5. TypeOK'
  BY <1>2, <1>3, <1>4 DEF AccountInv, TypeOK, RequestType
<1>6. CreateInv' /\ RequestInv'
  BY <1>1, <1>2, <1>3 DEF AccountInv, CreateInv, RequestInv
<1>7. NewInv'
  BY <1>1, <1>3 DEF AccountInv, NewInv
<1>8. OwnerInv' /\ OneUser'
  BY <1>2 DEF AccountInv, OwnerInv, OneUser
<1>9. SpentInv'
  BY <1>2, <1>4 DEF AccountInv, SpentInv, TypeOK
<1>10. LateInv'
  BY <1>1, <1>2, <1>3 DEF AccountInv, LateInv
<1>11. SweptInv'
  BY <1>1, <1>2, <1>3 DEF AccountInv, SweptInv, PushTokensOf
<1>12. DeletedIsGone'
  BY <1>2, <1>4 DEF AccountInv, DeletedIsGone, PushTokensOf
<1> QED BY <1>5, <1>6, <1>7, <1>8, <1>9, <1>10, <1>11, <1>12 DEF AccountInv

\* The user is deleted with the rows that refer to it.
LEMMA DeleteUserInv ==
  ASSUME AccountInv, NEW r \in Request, DeleteUser(r)
  PROVE  AccountInv'
<1> DEFINE a == req[r].acct
<1>1. /\ req[r].at = "deleteUser" /\ a \in Existed /\ PushTokensOf(a) \subseteq stray
  BY DEF DeleteUser, AccountInv, RequestInv, SweptInv
<1>2. /\ users' = users \ {a} /\ gone' = gone \union (users \intersect {a})
      /\ row' = [t \in Token |-> IF owner[t] = a THEN "none" ELSE row[t]]
      /\ devices' = {d \in devices : d[1] # a}
      /\ req' = [req EXCEPT ![r] = Idle]
      /\ UNCHANGED <<known, owner, held, spent, pushOwner, stray, sweep>>
  BY DEF DeleteUser, Ends, push
<1>3. /\ req' \in [Request -> RequestType]
      /\ req'[r] = Idle /\ \A q \in Request : q # r => req'[q] = req[q]
  BY <1>2, IdleType, RequestChange DEF AccountInv
<1>4. /\ req'[r].at = "idle" /\ req'[r].acct = None /\ req'[r].late = FALSE
  BY <1>3 DEF Idle
<1>5. users' \union gone' = users \union gone /\ gone \subseteq gone' /\ a \in gone' /\ gone' \subseteq gone \union {a}
  BY <1>1, <1>2 DEF Existed
<1>6. /\ row' \in [Token -> {"none", "stored", "revoked"}]
      /\ \A z \in Token : row'[z] = row[z] \/ owner[z] = a
      /\ \A z \in Token : row[z] = "none" \/ owner[z] = a => row'[z] = "none"
  BY <1>2 DEF AccountInv, TypeOK
<1> HIDE DEF a
<1> USE DEF Existed, Unknown
<1>7. TypeOK'
  <2>1. users' \subseteq Account /\ gone' \subseteq Account \ users' /\ known' \subseteq users' \union gone'
    BY <1>2, <1>5 DEF AccountInv, TypeOK
  <2>2. devices' \subseteq users' \X Device
    BY <1>2 DEF AccountInv, TypeOK
  <2> QED BY <1>2, <1>3, <1>6, <2>1, <2>2 DEF AccountInv, TypeOK, RequestType
<1>8. CreateInv'
  BY <1>3, <1>4, <1>5, AccountsAssumption DEF AccountInv, CreateInv
<1>9. RequestInv'
  BY <1>2, <1>3, <1>4, <1>5 DEF AccountInv, RequestInv
<1>10. NewInv'
  BY <1>3, <1>4 DEF AccountInv, NewInv
<1>11. OwnerInv'
  BY <1>2, <1>5 DEF AccountInv, OwnerInv
<1>12. SpentInv'
  BY <1>2, <1>5, <1>6 DEF AccountInv, SpentInv, TypeOK
<1>13. LateInv'
  BY <1>3, <1>4, <1>5 DEF AccountInv, LateInv
<1>14. SweptInv'
  BY <1>2, <1>3, <1>4 DEF AccountInv, SweptInv, PushTokensOf
<1>15. OneUser'
  BY <1>2 DEF AccountInv, OneUser
<1>16. DeletedIsGone'
  <2> SUFFICES ASSUME NEW b \in gone'
               PROVE  /\ \A t \in Token : owner'[t] = b => row'[t] = "none"
                      /\ \A d \in Device : <<b, d>> \notin devices'
                      /\ {p \in PushToken : pushOwner'[p] = b} \subseteq stray'
    BY DEF DeletedIsGone, PushTokensOf
  <2>1. CASE b = a
    BY <1>1, <1>2, <1>6, <2>1 DEF PushTokensOf
  <2>2. CASE b \in gone
    BY <1>2, <1>6, <2>2 DEF AccountInv, DeletedIsGone, PushTokensOf
  <2> QED BY <1>5, <2>1, <2>2
<1> QED BY <1>7, <1>8, <1>9, <1>10, <1>11, <1>12, <1>13, <1>14, <1>15, <1>16 DEF AccountInv

\* Devices come and go for an account that exists.
LEMMA DevicesInv ==
  ASSUME AccountInv, NEW a \in Account, NEW d \in Device,
         RegisterDevice(a, d) \/ DeleteDevice(a, d)
  PROVE  AccountInv'
<1>1. /\ UNCHANGED <<users, known, owner, row, held, spent, pushOwner, stray, sweep, req, gone>>
      /\ (a \in users /\ devices' = devices \union {<<a, d>>}) \/ devices' = devices \ {<<a, d>>}
  BY DEF RegisterDevice, DeleteDevice, session, push
<1>2. devices' \subseteq users \X Device
  BY <1>1 DEF AccountInv, TypeOK
<1>3. TypeOK'
  BY <1>1, <1>2 DEF AccountInv, TypeOK
<1>4. CreateInv' /\ RequestInv' /\ NewInv'
  BY <1>1 DEF AccountInv, CreateInv, RequestInv, NewInv, Unknown, Existed
<1>5. OwnerInv' /\ SpentInv' /\ OneUser'
  BY <1>1 DEF AccountInv, OwnerInv, SpentInv, OneUser, Existed
<1>6. LateInv' /\ SweptInv'
  BY <1>1 DEF AccountInv, LateInv, SweptInv, PushTokensOf
<1>7. DeletedIsGone'
  <2>1. \A b \in gone, e \in Device : <<b, e>> \notin devices'
    BY <1>2 DEF AccountInv, TypeOK
  <2> QED BY <1>1, <2>1 DEF AccountInv, DeletedIsGone, PushTokensOf
<1> QED BY <1>3, <1>4, <1>5, <1>6, <1>7 DEF AccountInv

\* Push tokens change hands: one that comes to an account that is being deleted,
\* or is gone, counts as stray.
LEMMA PushInv ==
  ASSUME AccountInv,
         UNCHANGED <<users, known, session, devices, req, gone>>,
         sweep' \in (PushToken \X Account) \union {None},
         pushOwner' \in [PushToken -> known \union {None}], stray' \subseteq PushToken,
         \A b \in Account : /\ PushTokensOf(b) \subseteq stray
                            /\ \/ b \in gone
                               \/ \E r \in Request : req[r].acct = b /\ req[r].at \in {"revokeAll", "deleteUser"}
                            => {p \in PushToken : pushOwner'[p] = b} \subseteq stray'
  PROVE  AccountInv'
<1>1. UNCHANGED <<users, known, owner, row, held, spent, devices, req, gone>>
  BY DEF session
<1>2. TypeOK'
  BY <1>1 DEF AccountInv, TypeOK
<1>3. CreateInv' /\ RequestInv' /\ NewInv'
  BY <1>1 DEF AccountInv, CreateInv, RequestInv, NewInv, Unknown, Existed
<1>4. OwnerInv' /\ SpentInv' /\ OneUser' /\ LateInv'
  BY <1>1 DEF AccountInv, OwnerInv, SpentInv, OneUser, LateInv, Existed
<1>5. SweptInv'
  <2> SUFFICES ASSUME NEW r \in Request, req[r].at \in {"revokeAll", "deleteUser"}
               PROVE  {p \in PushToken : pushOwner'[p] = req[r].acct} \subseteq stray'
    BY <1>1 DEF SweptInv, PushTokensOf
  <2>1. req[r].acct \in Account /\ PushTokensOf(req[r].acct) \subseteq stray
    BY DEF AccountInv, SweptInv, RequestInv, Existed, TypeOK
  <2> QED BY <2>1
<1>6. DeletedIsGone'
  <2>1. \A b \in gone : {p \in PushToken : pushOwner'[p] = b} \subseteq stray'
    BY DEF AccountInv, DeletedIsGone, TypeOK
  <2> QED BY <1>1, <2>1 DEF AccountInv, DeletedIsGone, PushTokensOf
<1> QED BY <1>2, <1>3, <1>4, <1>5, <1>6 DEF AccountInv

LEMMA RegisterDeviceTokenInv ==
  ASSUME AccountInv, NEW a \in Account, NEW p \in PushToken, RegisterDeviceToken(a, p)
  PROVE  AccountInv'
<1> DEFINE past == a \notin users \/ \E r \in Request : req[r].acct = a /\ req[r].at \in {"revokeAll", "deleteUser"}
<1>1. /\ UNCHANGED <<users, known, session, devices, req, gone>> /\ sweep' = sweep
      /\ pushOwner' = [pushOwner EXCEPT ![p] = a] /\ a \in known
      /\ stray' = IF past THEN stray \union {p} ELSE stray \ {p}
  BY DEF RegisterDeviceToken, AuthMiddleware
<1>2. /\ sweep' \in (PushToken \X Account) \union {None}
      /\ pushOwner' \in [PushToken -> known \union {None}]
      /\ pushOwner'[p] = a /\ \A q \in PushToken : q # p => pushOwner'[q] = pushOwner[q]
  BY <1>1 DEF AccountInv, TypeOK
<1>3. stray' \subseteq PushToken
  BY <1>1 DEF AccountInv, TypeOK
<1>4. ASSUME NEW b \in Account, PushTokensOf(b) \subseteq stray,
             \/ b \in gone
             \/ \E r \in Request : req[r].acct = b /\ req[r].at \in {"revokeAll", "deleteUser"}
      PROVE  {q \in PushToken : pushOwner'[q] = b} \subseteq stray'
  <2>1. b = a => past
    BY <1>4 DEF AccountInv, TypeOK
  <2> HIDE DEF past
  <2> QED BY <1>1, <1>2, <1>4, <2>1 DEF PushTokensOf
<1> HIDE DEF past
<1> QED BY <1>1, <1>2, <1>3, <1>4, PushInv

LEMMA SweepInv ==
  ASSUME AccountInv, NEW a \in Account, NEW p \in PushToken,
         UnregisterDevice(a, p) \/ SendPush(a, p)
  PROVE  AccountInv'
<1>1. /\ UNCHANGED <<users, known, session, devices, req, gone>>
      /\ sweep' = <<p, a>> /\ pushOwner' = pushOwner /\ stray' = stray
  BY DEF UnregisterDevice, SendPush
<1>2. /\ sweep' \in (PushToken \X Account) \union {None}
      /\ pushOwner' \in [PushToken -> known \union {None}] /\ stray' \subseteq PushToken
  BY <1>1 DEF AccountInv, TypeOK
<1>3. \A b \in Account : PushTokensOf(b) \subseteq stray =>
                           {q \in PushToken : pushOwner'[q] = b} \subseteq stray'
  BY <1>1 DEF PushTokensOf
<1> QED BY <1>1, <1>2, <1>3, PushInv

LEMMA DeleteByTokenInv ==
  ASSUME AccountInv, DeleteByToken
  PROVE  AccountInv'
<1> DEFINE p == sweep[1]
<1>1. /\ UNCHANGED <<users, known, session, devices, req, gone>>
      /\ sweep' = None /\ pushOwner' = [pushOwner EXCEPT ![p] = None] /\ stray' = stray \ {p}
  BY DEF DeleteByToken
<1>2. p \in PushToken
  BY DEF DeleteByToken, AccountInv, TypeOK
<1> HIDE DEF p
<1>3. /\ sweep' \in (PushToken \X Account) \union {None}
      /\ pushOwner' \in [PushToken -> known \union {None}] /\ stray' \subseteq PushToken
      /\ pushOwner'[p] = None /\ \A q \in PushToken : q # p => pushOwner'[q] = pushOwner[q]
  BY <1>1, <1>2 DEF AccountInv, TypeOK
<1>4. \A b \in Account : PushTokensOf(b) \subseteq stray =>
                           {q \in PushToken : pushOwner'[q] = b} \subseteq stray'
  BY <1>1, <1>3, AccountsAssumption DEF PushTokensOf
<1> QED BY <1>1, <1>3, <1>4, PushInv

-----------------------------------------------------------------------------
(***************************************************************************)
(* Theorems.                                                               *)
(***************************************************************************)
LEMMA InitInv == Init => AccountInv
<1> SUFFICES ASSUME Init PROVE AccountInv
  OBVIOUS
<1>1. /\ users = {} /\ known = {} /\ gone = {} /\ held = {} /\ spent = {} /\ devices = {}
      /\ stray = {} /\ sweep = None
      /\ owner = [t \in Token |-> None] /\ row = [t \in Token |-> "none"]
      /\ pushOwner = [p \in PushToken |-> None]
  BY DEF Init
<1>2. \A r \in Request : /\ req[r] = Idle /\ req[r].at = "idle" /\ req[r].acct = None /\ req[r].late = FALSE
  BY DEF Init, Idle
<1>3. req \in [Request -> RequestType]
  BY IdleType DEF Init
<1>4. TypeOK
  BY <1>1, <1>3 DEF TypeOK, RequestType
<1>5. CreateInv /\ RequestInv /\ NewInv /\ LateInv /\ SweptInv
  BY <1>2 DEF CreateInv, RequestInv, NewInv, LateInv, SweptInv
<1>6. OwnerInv /\ SpentInv /\ OneUser /\ DeletedIsGone
  BY <1>1 DEF OwnerInv, SpentInv, OneUser, DeletedIsGone
<1> QED BY <1>4, <1>5, <1>6 DEF AccountInv

LEMMA NextInv == AccountInv /\ [Next]_vars => AccountInv'
<1> SUFFICES ASSUME AccountInv, [Next]_vars PROVE AccountInv'
  OBVIOUS
<1>1. CASE \E r \in Request :
             \/ CreateUser(r) \/ Login(r) \/ Store(r) \/ LoadUser(r) \/ Revoke(r)
             \/ DeleteDeviceTokens(r) \/ RevokeAllForUser(r) \/ DeleteUser(r) \/ Aborts(r)
             \/ \E a \in Account : Register(r, a) \/ DeleteAccount(r, a)
             \/ \E t \in Token, blind \in BOOLEAN : RefreshToken(r, t, blind)
  <2>1. PICK r \in Request :
             \/ CreateUser(r) \/ Login(r) \/ Store(r) \/ LoadUser(r) \/ Revoke(r)
             \/ DeleteDeviceTokens(r) \/ RevokeAllForUser(r) \/ DeleteUser(r) \/ Aborts(r)
             \/ \E a \in Account : Register(r, a) \/ DeleteAccount(r, a)
             \/ \E t \in Token, blind \in BOOLEAN : RefreshToken(r, t, blind)
    BY <1>1
  <2>2. Aborts(r) => AccountInv'
    BY EndsInv DEF Aborts
  <2>3. (\E a \in Account : Register(r, a) \/ DeleteAccount(r, a)) => AccountInv'
    BY RegisterInv, DeleteAccountInv
  <2>4. (\E t \in Token, blind \in BOOLEAN : RefreshToken(r, t, blind)) => AccountInv'
    BY RefreshInv
  <2>5. CreateUser(r) \/ Login(r) \/ Store(r) \/ LoadUser(r) \/ Revoke(r) => AccountInv'
    BY CreateUserInv, LoginInv, StoreInv, LoadUserInv, RevokeInv
  <2>6. DeleteDeviceTokens(r) \/ RevokeAllForUser(r) \/ DeleteUser(r) => AccountInv'
    BY DeleteDeviceTokensInv, RevokeAllInv, DeleteUserInv
  <2> QED BY <2>1, <2>2, <2>3, <2>4, <2>5, <2>6
<1>2. CASE \E a \in Account, d \in Device : RegisterDevice(a, d) \/ DeleteDevice(a, d)
  BY <1>2, DevicesInv
<1>3. CASE \E a \in Account, p \in PushToken :
             RegisterDeviceToken(a, p) \/ UnregisterDevice(a, p) \/ SendPush(a, p)
  BY <1>3, RegisterDeviceTokenInv, SweepInv
<1>4. CASE DeleteByToken
  BY <1>4, DeleteByTokenInv
<1>5. CASE UNCHANGED vars
  <2>1. UNCHANGED <<users, known, owner, row, held, spent, devices, pushOwner, stray, sweep, req, gone>>
    BY <1>5 DEF vars, session, push
  <2>2. TypeOK' /\ CreateInv' /\ RequestInv' /\ NewInv' /\ OwnerInv'
    BY <2>1 DEF AccountInv, TypeOK, CreateInv, RequestInv, NewInv, OwnerInv, Unknown, Existed
  <2>3. SpentInv' /\ LateInv' /\ SweptInv' /\ OneUser' /\ DeletedIsGone'
    BY <2>1 DEF AccountInv, SpentInv, LateInv, SweptInv, OneUser, DeletedIsGone, PushTokensOf
  <2> QED BY <2>2, <2>3 DEF AccountInv
<1> QED BY <1>1, <1>2, <1>3, <1>4, <1>5 DEF Next

\* The inductive invariant holds of every behaviour of auth_service.go,
\* device_service.go and push_service.go.
THEOREM AccountInvariant == Spec => []AccountInv
  BY InitInv, NextInv, PTL DEF Spec

\* TypeOK holds for any number of accounts, requests and tokens.
THEOREM AccountTypeCorrect == Spec => []TypeOK
<1>1. AccountInv => TypeOK
  BY DEF AccountInv
<1> QED BY <1>1, AccountInvariant, PTL

\* However many registrations of an address found it free, one account comes of
\* them: the unique e-mail address of INSERT INTO users decides.
THEOREM OneAccount == Spec => []OneAccountPerEmail
<1>1. AccountInv => OneAccountPerEmail
  <2> SUFFICES ASSUME AccountInv PROVE Cardinality(users) <= 1
    BY DEF OneAccountPerEmail
  <2>1. CASE users = {}
    BY <2>1, FS_EmptySet
  <2>2. CASE users # {}
    <3>1. PICK a \in users : TRUE
      BY <2>2
    <3>2. users = {a}
      BY <3>1 DEF AccountInv, OneUser
    <3> QED BY <3>2, FS_Singleton
  <2> QED BY <2>1, <2>2
<1> QED BY <1>1, AccountInvariant, PTL

\* A refresh token whose rotation was written down gives no pair to a request that
\* looked its row up afterwards, whatever fails, and across the deletion of accounts.
THEOREM RotatedRefused == Spec => []RotatedIsRefused
<1>1. AccountInv => RotatedIsRefused
  BY DEF AccountInv, LateInv, RotatedIsRefused
<1> QED BY <1>1, AccountInvariant, PTL

\* Nothing but stray push tokens is left of a deleted account, however its deletion
\* interleaves with logins, refreshes and registrations of devices.
THEOREM DeletedAreGone == Spec => []DeletedIsGone
<1>1. AccountInv => DeletedIsGone
  BY DEF AccountInv
<1> QED BY <1>1, AccountInvariant, PTL

-----------------------------------------------------------------------------
(***************************************************************************)
(* Platform connections and publish jobs of an account (Publish): for any  *)
(* number of connect and publish requests, and any of the platforms.       *)
(***************************************************************************)
\* The row came from a request that is over, and it was not deleted.
ConnInv == conn # NoRow => conn.id \in Flow /\ flow[conn.id].stage = "over" /\ conn.id \notin deleted

\* What the job of a log has done at the platform.
PostOf(l) ==
  /\ posts[l] <= IF job[l].at \in Sent \union {"over"} THEN 1 + unsure[l] ELSE unsure[l]
  /\ posts[l] <= job[l].retried + (IF job[l].at \in Sent \union {"error", "tell", "over"} THEN 1 ELSE 0)
  /\ unsure[l] <= job[l].retried + (IF job[l].at \in {"error", "tell", "over"} THEN 1 ELSE 0)
  /\ log[l] = "none" => job[l].at = "none"
PostInv == \A l \in Log : PostOf(l)

PublishInv == PublishTypeOK /\ ConnInv /\ PostInv

-----------------------------------------------------------------------------
(***************************************************************************)
(* Connections.                                                            *)
(***************************************************************************)
Auth == [stage : {"none", "waiting", "store", "over"}, seen : Row \union {NoRow}]

\* A request over a connection leaves the jobs alone.
LEMMA ConnStep ==
  ASSUME PublishInv, UNCHANGED <<platform, publishing>>,
         {conn', verifying', disconnecting'} \subseteq Row \union {NoRow},
         flow' \in [Flow -> Auth],
         deleted' \subseteq {f \in Flow : flow'[f].stage = "over"}, ConnInv'
  PROVE  PublishInv'
<1>1. /\ platform' = platform /\ log' = log /\ job' = job /\ posts' = posts
      /\ unsure' = unsure /\ told' = told
  BY DEF publishing
<1>2. PublishTypeOK'
  BY <1>1 DEF PublishInv, PublishTypeOK, Auth
<1>3. PostInv'
  BY <1>1 DEF PublishInv, PostInv, PostOf
<1> QED BY <1>2, <1>3 DEF PublishInv

\* A request that ends keeps the other requests as they are.
LEMMA CancelFacts ==
  ASSUME flow \in [Flow -> Auth], NEW f \in Flow, CancelAuth(f)
  PROVE  /\ flow' \in [Flow -> Auth] /\ flow'[f].stage = "over"
         /\ \A g \in Flow : flow[g].stage = "over" => flow'[g].stage = "over"
  BY DEF CancelAuth, Auth

\* A request that goes on was not over.
LEMMA AuthInv ==
  ASSUME PublishInv, NEW f \in Flow, StartAuth(f) \/ PollAuthOf(f) \/ Connect(f)
  PROVE  PublishInv'
<1>1. /\ flow \in [Flow -> Auth] /\ {conn, verifying, disconnecting} \subseteq Row \union {NoRow}
      /\ deleted \subseteq {g \in Flow : flow[g].stage = "over"} /\ ConnInv
  BY DEF PublishInv, PublishTypeOK, Auth
<1>2. /\ UNCHANGED <<platform, publishing>>
      /\ conn' = conn /\ verifying' = verifying /\ disconnecting' = disconnecting
      /\ deleted' = deleted
  BY DEF StartAuth, PollAuthOf, Connect
<1>3. /\ flow' \in [Flow -> Auth]
      /\ \A g \in Flow : flow[g].stage = "over" => flow'[g].stage = "over"
  <2>1. CASE CancelAuth(f)
    BY <1>1, <2>1, CancelFacts
  <2>2. CASE flow[f].stage = "none" /\ flow' = [flow EXCEPT ![f].stage = "waiting"]
    BY <1>1, <2>2 DEF Auth
  <2>3. CASE /\ flow[f].stage = "waiting"
             /\ flow' = [flow EXCEPT ![f] = [stage |-> "store", seen |-> GetByPlatform]]
    BY <1>1, <2>3 DEF Auth, GetByPlatform
  <2> QED BY <2>1, <2>2, <2>3 DEF StartAuth, PollAuthOf, Connect
<1>4. deleted' \subseteq {g \in Flow : flow'[g].stage = "over"}
  BY <1>1, <1>2, <1>3
<1>5. ConnInv'
  BY <1>1, <1>2, <1>3 DEF ConnInv
<1>6. {conn', verifying', disconnecting'} \subseteq Row \union {NoRow}
  BY <1>1, <1>2
<1> QED BY <1>2, <1>3, <1>4, <1>5, <1>6, ConnStep

\* Update writes over the row of the same id, or nothing.
LEMMA UpdateFacts ==
  ASSUME NEW r \in Row, Update(r), conn \in Row \union {NoRow}
  PROVE  /\ conn' \in Row \union {NoRow}
         /\ conn' # NoRow => conn # NoRow /\ conn'.id = conn.id
  BY DEF Update

\* The credentials are stored under the request's own id, or under an id that is
\* still there.
LEMMA StoreAuthInv ==
  ASSUME PublishInv, NEW f \in Flow, StoreAuth(f)
  PROVE  PublishInv'
<1>1. /\ flow \in [Flow -> Auth] /\ {conn, verifying, disconnecting} \subseteq Row \union {NoRow}
      /\ deleted \subseteq {g \in Flow : flow[g].stage = "over"} /\ ConnInv
  BY DEF PublishInv, PublishTypeOK, Auth
<1>2. /\ UNCHANGED <<platform, publishing>> /\ flow[f].stage = "store"
      /\ verifying' = verifying /\ disconnecting' = disconnecting /\ deleted' = deleted
      /\ CancelAuth(f)
  BY DEF StoreAuth
<1>3. /\ flow' \in [Flow -> Auth] /\ flow'[f].stage = "over"
      /\ \A g \in Flow : flow[g].stage = "over" => flow'[g].stage = "over"
  BY <1>1, <1>2, CancelFacts
<1>4. deleted' \subseteq {g \in Flow : flow'[g].stage = "over"} /\ f \notin deleted
  BY <1>1, <1>2, <1>3
<1>5. CASE flow[f].seen = NoRow
  <2>1. Create([id |-> f, auth |-> f])
    BY <1>5 DEF StoreAuth
  <2>2. conn' \in Row \union {NoRow}
    BY <1>1, <2>1 DEF Create, Row
  <2>3. ConnInv'
    <3>1. CASE conn = NoRow
      <4>1. conn' = [id |-> f, auth |-> f]
        BY <2>1, <3>1 DEF Create
      <4>2. conn'.id = f
        BY <4>1
      <4> QED BY <1>2, <1>3, <1>4, <4>2 DEF ConnInv
    <3>2. CASE conn # NoRow
      <4>1. conn' = conn
        BY <2>1, <3>2 DEF Create
      <4> QED BY <1>1, <1>2, <1>3, <3>2, <4>1 DEF ConnInv
    <3> QED BY <3>1, <3>2
  <2> QED BY <1>1, <1>2, <1>3, <1>4, <2>2, <2>3, ConnStep
<1>6. CASE flow[f].seen # NoRow
  <2> DEFINE r == [flow[f].seen EXCEPT !.auth = f]
  <2>1. r \in Row /\ Update(r)
    BY <1>1, <1>6 DEF StoreAuth, Auth, Row
  <2> HIDE DEF r
  <2>2. conn' \in Row \union {NoRow} /\ (conn' # NoRow => conn # NoRow /\ conn'.id = conn.id)
    BY <1>1, <2>1, UpdateFacts
  <2>3. ConnInv'
    BY <1>1, <1>2, <1>3, <2>2 DEF ConnInv
  <2> QED BY <1>1, <1>2, <1>3, <1>4, <2>2, <2>3, ConnStep
<1> QED BY <1>5, <1>6

\* Verify and Disconnect read a row, and write or delete it later by its id.
LEMMA RowInv ==
  ASSUME PublishInv, Verify \/ VerifyWrites \/ Disconnect \/ DisconnectDeletes
  PROVE  PublishInv'
<1>1. /\ flow \in [Flow -> Auth] /\ {conn, verifying, disconnecting} \subseteq Row \union {NoRow}
      /\ deleted \subseteq {g \in Flow : flow[g].stage = "over"} /\ ConnInv
  BY DEF PublishInv, PublishTypeOK, Auth
<1>2. UNCHANGED <<platform, publishing>> /\ flow' = flow
  BY DEF Verify, VerifyWrites, Disconnect, DisconnectDeletes
<1>3. CASE Verify \/ Disconnect
  <2>1. /\ conn' = conn /\ deleted' = deleted
        /\ {verifying', disconnecting'} \subseteq {conn, verifying, disconnecting}
    BY <1>3 DEF Verify, Disconnect, GetByPlatform
  <2>2. ConnInv'
    BY <1>1, <1>2, <2>1 DEF ConnInv
  <2> QED BY <1>1, <1>2, <2>1, <2>2, ConnStep
<1>4. CASE VerifyWrites
  <2>1. /\ Update(verifying) /\ verifying \in Row
        /\ verifying' = NoRow /\ disconnecting' = disconnecting /\ deleted' = deleted
    BY <1>1, <1>4 DEF VerifyWrites
  <2>2. conn' \in Row \union {NoRow} /\ (conn' # NoRow => conn # NoRow /\ conn'.id = conn.id)
    BY <1>1, <2>1, UpdateFacts
  <2>3. ConnInv'
    BY <1>1, <1>2, <2>1, <2>2 DEF ConnInv
  <2> QED BY <1>1, <1>2, <2>1, <2>2, <2>3, ConnStep
<1>5. CASE DisconnectDeletes
  <2>1. Delete(disconnecting) /\ disconnecting' = NoRow /\ verifying' = verifying
    BY <1>5 DEF DisconnectDeletes
  <2>2. CASE conn # NoRow /\ conn.id = disconnecting.id
    <3>1. conn' = NoRow /\ deleted' = deleted \union {conn.id}
      BY <2>1, <2>2 DEF Delete
    <3>2. deleted' \subseteq {g \in Flow : flow'[g].stage = "over"}
      BY <1>1, <1>2, <2>2, <3>1 DEF ConnInv
    <3>3. ConnInv'
      BY <3>1 DEF ConnInv
    <3> QED BY <1>1, <1>2, <2>1, <3>1, <3>2, <3>3, ConnStep
  <2>3. CASE ~(conn # NoRow /\ conn.id = disconnecting.id)
    <3>1. conn' = conn /\ deleted' = deleted
      BY <2>1, <2>3 DEF Delete
    <3>2. ConnInv'
      BY <1>1, <1>2, <3>1 DEF ConnInv
    <3> QED BY <1>1, <1>2, <2>1, <3>1, <3>2, ConnStep
  <2> QED BY <2>2, <2>3
<1> QED BY <1>3, <1>4, <1>5

-----------------------------------------------------------------------------
(***************************************************************************)
(* Jobs.                                                                   *)
(***************************************************************************)
JobState == [at : JobStage, retried : 0..MaxRetry]
Status == {"none", "pending"}

JobsTyped ==
  /\ log \in [Log -> Status] /\ job \in [Log -> JobState]
  /\ posts \in [Log -> Nat] /\ unsure \in [Log -> Nat]
  /\ told \in [Log -> SUBSET {"complete", "failed"}]

\* A step of one job leaves the others and the connections alone.
OneJob(l) ==
  /\ UNCHANGED <<platform, connection>>
  /\ \A k \in Log \ {l} : /\ job'[k] = job[k] /\ log'[k] = log[k] /\ posts'[k] = posts[k]
                          /\ unsure'[k] = unsure[k] /\ told'[k] = told[k]

LEMMA JobTypes == PublishTypeOK => JobsTyped
<1> SUFFICES ASSUME PublishTypeOK PROVE JobsTyped
  OBVIOUS
<1>1. /\ log \in [Log -> Status] /\ job \in [Log -> JobState]
      /\ told \in [Log -> SUBSET {"complete", "failed"}]
  BY DEF PublishTypeOK, JobState, Status
<1>2. posts \in [Log -> 0..4] /\ unsure \in [Log -> 0..4]
  BY DEF PublishTypeOK, MaxRetry
<1>3. posts \in [Log -> Nat] /\ unsure \in [Log -> Nat]
  BY <1>2
<1> QED BY <1>1, <1>3 DEF JobsTyped

LEMMA JobStepInv ==
  ASSUME PublishInv, NEW l \in Log, OneJob(l), JobsTyped', PostOf(l)'
  PROVE  PublishInv'
<1>1. /\ platform' = platform /\ conn' = conn /\ flow' = flow /\ verifying' = verifying
      /\ disconnecting' = disconnecting /\ deleted' = deleted
  BY DEF OneJob, connection
<1>2. PostInv'
  <2> SUFFICES ASSUME NEW k \in Log, k # l PROVE PostOf(k)'
    BY DEF PostInv
  <2>1. PostOf(k)
    BY DEF PublishInv, PostInv
  <2>2. /\ job'[k] = job[k] /\ log'[k] = log[k] /\ posts'[k] = posts[k]
        /\ unsure'[k] = unsure[k] /\ told'[k] = told[k]
    BY DEF OneJob
  <2> QED BY <1>1, <2>1, <2>2 DEF PostOf
<1>3. ConnInv'
  BY <1>1 DEF PublishInv, ConnInv
<1>4. posts' \in [Log -> 0..MaxRetry + 1] /\ unsure' \in [Log -> 0..MaxRetry + 1]
  <2> SUFFICES ASSUME NEW k \in Log
               PROVE  posts'[k] \in 0..MaxRetry + 1 /\ unsure'[k] \in 0..MaxRetry + 1
    BY DEF JobsTyped
  <2>1. posts'[k] \in Nat /\ unsure'[k] \in Nat /\ job'[k].retried \in 0..3
    BY DEF JobsTyped, JobState, MaxRetry
  <2>2. posts'[k] <= job'[k].retried + 1 /\ unsure'[k] <= job'[k].retried + 1
    <3>1. PostOf(k)'
      BY <1>2 DEF PostInv
    <3> QED BY <2>1, <3>1 DEF PostOf
  <2> QED BY <2>1, <2>2 DEF MaxRetry
<1>5. PublishTypeOK'
  BY <1>1, <1>4 DEF PublishInv, PublishTypeOK, JobsTyped, JobState, Status
<1> QED BY <1>2, <1>3, <1>5 DEF PublishInv

\* The job of l gets somewhere else.
LEMMA AtFacts ==
  ASSUME JobsTyped, NEW l \in Log, NEW stage \in JobStage, At(l, stage)
  PROVE  /\ job' \in [Log -> JobState] /\ job'[l].at = stage /\ job'[l].retried = job[l].retried
         /\ \A k \in Log \ {l} : job'[k] = job[k]
  BY DEF JobsTyped, JobState, At

\* A job that is run again has one retry more; one that is not is over.
LEMMA RetryFacts ==
  ASSUME JobsTyped, NEW l \in Log, Retry(l)
  PROVE  /\ job' \in [Log -> JobState] /\ \A k \in Log \ {l} : job'[k] = job[k]
         /\ job[l].retried \in 0..MaxRetry
         /\ \/ job'[l].at = "queued" /\ job'[l].retried = job[l].retried + 1
            \/ job'[l].at = "over" /\ job'[l].retried = job[l].retried
<1>1. job \in [Log -> JobState] /\ job[l] \in JobState /\ job[l].retried \in 0..3
  BY DEF JobsTyped, JobState, MaxRetry
<1>2. CASE job[l].retried < MaxRetry
  <2>1. job' = [job EXCEPT ![l] = [at |-> "queued", retried |-> job[l].retried + 1]]
    BY <1>1, <1>2 DEF Retry
  <2>2. [at |-> "queued", retried |-> job[l].retried + 1] \in JobState
    BY <1>1, <1>2 DEF JobState, JobStage, MaxRetry
  <2> QED BY <1>1, <2>1, <2>2 DEF MaxRetry
<1>3. CASE ~(job[l].retried < MaxRetry)
  <2>1. job' = [job EXCEPT ![l] = [job[l] EXCEPT !.at = "over"]]
    BY <1>1, <1>3 DEF Retry
  <2>2. [job[l] EXCEPT !.at = "over"] \in JobState
    BY <1>1 DEF JobState, JobStage
  <2>3. job'[l] = [job[l] EXCEPT !.at = "over"] /\ job' \in [Log -> JobState]
    BY <1>1, <2>1, <2>2
  <2>4. job'[l].at = "over" /\ job'[l].retried = job[l].retried
    BY <1>1, <2>3 DEF JobState
  <2> QED BY <1>1, <2>1, <2>3, <2>4 DEF MaxRetry
<1> QED BY <1>2, <1>3

\* The parts of the invariant the steps below start from.
LEMMA PostFacts ==
  ASSUME PublishInv, NEW l \in Log
  PROVE  /\ JobsTyped /\ PostOf(l)
         /\ posts[l] \in Nat /\ unsure[l] \in Nat /\ job[l].retried \in Nat
<1>1. JobsTyped
  BY JobTypes DEF PublishInv
<1>2. posts[l] \in Nat /\ unsure[l] \in Nat /\ job[l].retried \in Nat
  BY <1>1 DEF JobsTyped, JobState, MaxRetry
<1> QED BY <1>1, <1>2 DEF PublishInv, PostInv

\* Steps that change neither posts nor what is known of them.
LEMMA QuietJobInv ==
  ASSUME PublishInv, NEW l \in Log, NEW stage \in JobStage,
         UNCHANGED <<platform, connection, posts, unsure, told>>,
         \/ job[l].at \notin Sent \union {"error", "tell", "over"} /\ stage \notin Sent
         \/ job[l].at = "error" /\ stage = "tell"
         \/ job[l].at \in Sent /\ stage \in Sent \union {"over"},
         At(l, stage), log' \in [Log -> Status], log'[l] # "none",
         \A k \in Log \ {l} : log'[k] = log[k]
  PROVE  PublishInv'
<1>1. /\ JobsTyped /\ PostOf(l)
      /\ posts[l] \in Nat /\ unsure[l] \in Nat /\ job[l].retried \in Nat
  BY PostFacts
<1>2. /\ job' \in [Log -> JobState] /\ job'[l].at = stage /\ job'[l].retried = job[l].retried
      /\ \A k \in Log \ {l} : job'[k] = job[k]
  BY <1>1, AtFacts
<1>3. JobsTyped'
  BY <1>1, <1>2 DEF JobsTyped
<1>4. OneJob(l)
  BY <1>2 DEF OneJob
<1>5. PostOf(l)'
  BY <1>1, <1>2 DEF PostOf, Sent
<1> QED BY <1>3, <1>4, <1>5, JobStepInv

\* The steps that call neither the adapter nor the owner: the log keeps its status.
LEMMA JobGoesOnInv ==
  ASSUME PublishInv, NEW l \in Log,
         \/ PublishRequest(l) \/ EnqueuePublishJob(l) \/ ServerDies(l)
         \/ HandleTask(l) \/ LoadConnection(l) \/ AdapterPrepares(l)
         \/ PublishFailed(l) \/ UpdateStatusWithPostID(l) \/ JobReturns(l)
  PROVE  PublishInv'
<1>1. JobsTyped /\ PostOf(l) /\ log \in [Log -> Status]
  BY PostFacts DEF JobsTyped
<1>2. UNCHANGED <<platform, connection, posts, unsure, told>>
  BY DEF PublishRequest, EnqueuePublishJob, ServerDies, HandleTask, LoadConnection,
         AdapterPrepares, PublishFailed, UpdateStatusWithPostID, JobReturns
<1>3. {"requested", "queued", "lookup", "prepare", "submit", "error", "tell", "push", "over"}
        \subseteq JobStage
  BY DEF JobStage
<1>4. CASE PublishRequest(l)
  <2>1. PICK stage \in {"requested", "over"} : At(l, stage)
    BY <1>4 DEF PublishRequest
  <2>2. log[l] = "none" /\ log' = [log EXCEPT ![l] = "pending"]
    BY <1>4 DEF PublishRequest
  <2>3. job[l].at = "none" /\ log' \in [Log -> Status] /\ log'[l] = "pending"
    BY <1>1, <2>2 DEF PostOf, Status
  <2>4. \A k \in Log \ {l} : log'[k] = log[k]
    BY <1>1, <2>2
  <2> QED BY <1>2, <1>3, <2>1, <2>3, <2>4, QuietJobInv DEF Sent
<1>5. CASE ~PublishRequest(l)
  <2>1. log' = log /\ job[l].at # "none"
    BY <1>5 DEF EnqueuePublishJob, ServerDies, HandleTask, LoadConnection, AdapterPrepares,
                PublishFailed, UpdateStatusWithPostID, JobReturns, UpdateStatus
  <2>2. log'[l] # "none"
    BY <1>1, <2>1 DEF PostOf
  <2>3. \E stage \in JobStage :
          /\ At(l, stage)
          /\ \/ job[l].at \notin Sent \union {"error", "tell", "over"} /\ stage \notin Sent
             \/ job[l].at = "error" /\ stage = "tell"
             \/ job[l].at \in Sent /\ stage \in Sent \union {"over"}
    <3>1. CASE EnqueuePublishJob(l) \/ ServerDies(l) \/ HandleTask(l)
      BY <1>3, <3>1 DEF EnqueuePublishJob, ServerDies, HandleTask, Sent
    <3>2. CASE LoadConnection(l) \/ AdapterPrepares(l)
      BY <1>3, <3>2 DEF LoadConnection, AdapterPrepares, Sent
    <3>3. CASE PublishFailed(l) \/ UpdateStatusWithPostID(l) \/ JobReturns(l)
      BY <1>3, <3>3 DEF PublishFailed, UpdateStatusWithPostID, JobReturns, Sent
    <3> QED BY <1>5, <3>1, <3>2, <3>3
  <2> QED BY <1>1, <1>2, <2>1, <2>2, <2>3, QuietJobInv
<1> QED BY <1>4, <1>5

\* A try that submits has a result from then on, or is counted as unsure.
LEMMA AdapterSubmitsInv ==
  ASSUME PublishInv, NEW l \in Log, AdapterSubmits(l)
  PROVE  PublishInv'
<1>1. /\ JobsTyped /\ PostOf(l)
      /\ posts[l] \in Nat /\ unsure[l] \in Nat /\ job[l].retried \in Nat
  BY PostFacts
<1>2. PICK ok \in BOOLEAN : \E posted \in Posted(platform, ok) :
        /\ posts' = [posts EXCEPT ![l] = IF posted THEN @ + 1 ELSE @]
        /\ unsure' = [unsure EXCEPT ![l] = IF ok THEN @ ELSE @ + 1]
        /\ At(l, IF ok THEN "finish" ELSE "error")
  BY DEF AdapterSubmits
<1>3. PICK posted \in Posted(platform, ok) :
        /\ posts' = [posts EXCEPT ![l] = IF posted THEN @ + 1 ELSE @]
        /\ unsure' = [unsure EXCEPT ![l] = IF ok THEN @ ELSE @ + 1]
        /\ At(l, IF ok THEN "finish" ELSE "error")
  BY <1>2
<1>4. /\ UNCHANGED <<platform, connection, log, told>> /\ job[l].at = "submit"
  BY DEF AdapterSubmits
<1>6. /\ posts' \in [Log -> Nat] /\ posts'[l] = IF posted THEN posts[l] + 1 ELSE posts[l]
      /\ unsure' \in [Log -> Nat] /\ unsure'[l] = IF ok THEN unsure[l] ELSE unsure[l] + 1
      /\ \A k \in Log \ {l} : posts'[k] = posts[k] /\ unsure'[k] = unsure[k]
  BY <1>1, <1>3 DEF JobsTyped
<1> DEFINE stage == IF ok THEN "finish" ELSE "error"
<1>7. stage \in JobStage /\ stage \in {"finish", "error"} /\ (ok <=> stage = "finish")
  BY DEF JobStage
<1>8. At(l, stage)
  BY <1>3
<1>9. /\ job' \in [Log -> JobState] /\ job'[l].at = stage /\ job'[l].retried = job[l].retried
      /\ \A k \in Log \ {l} : job'[k] = job[k]
  BY <1>1, <1>7, <1>8, AtFacts
<1> HIDE DEF stage
<1>10. JobsTyped'
  BY <1>1, <1>4, <1>6, <1>9 DEF JobsTyped
<1>11. OneJob(l)
  BY <1>4, <1>6, <1>9 DEF OneJob
<1>12. PostOf(l)'
  <2>1. posts[l] <= unsure[l] /\ posts[l] <= job[l].retried /\ unsure[l] <= job[l].retried
    BY <1>1, <1>4 DEF PostOf, Sent
  <2>2. posts'[l] \in {posts[l], posts[l] + 1} /\ posts'[l] \in Nat
    BY <1>1, <1>6
  <2>3. \/ unsure'[l] = unsure[l] /\ job'[l].at = "finish"
        \/ unsure'[l] = unsure[l] + 1 /\ job'[l].at = "error"
    BY <1>6, <1>7, <1>9
  <2> QED BY <1>1, <1>4, <1>9, <2>1, <2>2, <2>3 DEF PostOf, Sent
<1> QED BY <1>10, <1>11, <1>12, JobStepInv

\* A try that has passed submit goes on to save, or ends without a result.
LEMMA AdapterFinishesInv ==
  ASSUME PublishInv, NEW l \in Log, AdapterFinishes(l)
  PROVE  PublishInv'
<1>1. /\ JobsTyped /\ PostOf(l)
      /\ posts[l] \in Nat /\ unsure[l] \in Nat /\ job[l].retried \in Nat
  BY PostFacts
<1>2. /\ UNCHANGED <<platform, connection, log, posts, told>> /\ job[l].at = "finish"
  BY DEF AdapterFinishes
<1>3. /\ posts[l] <= 1 + unsure[l] /\ posts[l] <= job[l].retried + 1 /\ unsure[l] <= job[l].retried
  BY <1>1, <1>2 DEF PostOf, Sent
<1>4. {"save", "error"} \subseteq JobStage
  BY DEF JobStage
<1>5. CASE At(l, "save") /\ UNCHANGED unsure
  <2>1. /\ job' \in [Log -> JobState] /\ job'[l].at = "save" /\ job'[l].retried = job[l].retried
        /\ \A k \in Log \ {l} : job'[k] = job[k]
    BY <1>1, <1>4, <1>5, AtFacts
  <2>2. JobsTyped' /\ OneJob(l)
    BY <1>1, <1>2, <1>5, <2>1 DEF JobsTyped, OneJob
  <2>3. PostOf(l)'
    BY <1>1, <1>2, <1>3, <1>5, <2>1 DEF PostOf, Sent
  <2> QED BY <2>2, <2>3, JobStepInv
<1>6. CASE At(l, "error") /\ unsure' = [unsure EXCEPT ![l] = @ + 1]
  <2>1. /\ job' \in [Log -> JobState] /\ job'[l].at = "error" /\ job'[l].retried = job[l].retried
        /\ \A k \in Log \ {l} : job'[k] = job[k]
    BY <1>1, <1>4, <1>6, AtFacts
  <2>2. /\ unsure' \in [Log -> Nat] /\ unsure'[l] = unsure[l] + 1
        /\ \A k \in Log \ {l} : unsure'[k] = unsure[k]
    BY <1>1, <1>6 DEF JobsTyped
  <2>3. JobsTyped' /\ OneJob(l)
    BY <1>1, <1>2, <2>1, <2>2 DEF JobsTyped, OneJob
  <2>4. PostOf(l)'
    BY <1>1, <1>2, <1>3, <2>1, <2>2 DEF PostOf, Sent
  <2> QED BY <2>3, <2>4, JobStepInv
<1> QED BY <1>5, <1>6 DEF AdapterFinishes

\* The owner is told, and the job goes on or is run again.
LEMMA ToldInv ==
  ASSUME PublishInv, NEW l \in Log, FailureTold(l) \/ Published(l)
  PROVE  PublishInv'
<1>1. /\ JobsTyped /\ PostOf(l)
      /\ posts[l] \in Nat /\ unsure[l] \in Nat /\ job[l].retried \in Nat
  BY PostFacts
<1>2. UNCHANGED <<platform, connection, log, posts, unsure>> /\ job[l].at \in {"tell", "push"}
  BY DEF FailureTold, Published
<1>3. /\ told' \in [Log -> SUBSET {"complete", "failed"}]
      /\ \A k \in Log \ {l} : told'[k] = told[k]
  BY <1>1 DEF FailureTold, Published, sendPublishPush, JobsTyped
<1>4. /\ job' \in [Log -> JobState] /\ \A k \in Log \ {l} : job'[k] = job[k]
      /\ \/ job[l].at = "tell" /\ job'[l].at = "queued" /\ job'[l].retried = job[l].retried + 1
         \/ job[l].at = "tell" /\ job'[l].at = "over" /\ job'[l].retried = job[l].retried
         \/ job[l].at = "push" /\ job'[l].at = "return" /\ job'[l].retried = job[l].retried
  <2>1. CASE FailureTold(l)
    BY <1>1, <2>1, RetryFacts DEF FailureTold
  <2>2. CASE Published(l)
    <3>1. At(l, "return") /\ "return" \in JobStage /\ job[l].at = "push"
      BY <2>2 DEF Published, JobStage
    <3> QED BY <1>1, <3>1, AtFacts
  <2> QED BY <2>1, <2>2
<1>5. JobsTyped' /\ OneJob(l)
  BY <1>1, <1>2, <1>3, <1>4 DEF JobsTyped, OneJob
<1>6. PostOf(l)'
  <2>1. log[l] # "none"
    BY <1>1, <1>2 DEF PostOf
  <2> QED BY <1>1, <1>2, <1>4, <2>1 DEF PostOf, Sent
<1> QED BY <1>5, <1>6, JobStepInv

\* A worker that dies leaves a post it cannot know of only after submit.
LEMMA WorkerDiesInv ==
  ASSUME PublishInv, NEW l \in Log, WorkerDies(l)
  PROVE  PublishInv'
<1>1. /\ JobsTyped /\ PostOf(l)
      /\ posts[l] \in Nat /\ unsure[l] \in Nat /\ job[l].retried \in Nat
  BY PostFacts
<1>2. /\ UNCHANGED <<platform, connection, log, posts, told>> /\ job[l].at \in Working
      /\ Retry(l)
      /\ unsure' = [unsure EXCEPT ![l] = IF job[l].at \in Sent THEN @ + 1 ELSE @]
  BY DEF WorkerDies
<1>3. /\ job' \in [Log -> JobState] /\ \A k \in Log \ {l} : job'[k] = job[k]
      /\ \/ job'[l].at = "queued" /\ job'[l].retried = job[l].retried + 1
         \/ job'[l].at = "over" /\ job'[l].retried = job[l].retried
  BY <1>1, <1>2, RetryFacts
<1>4. /\ unsure' \in [Log -> Nat] /\ \A k \in Log \ {l} : unsure'[k] = unsure[k]
      /\ unsure'[l] = IF job[l].at \in Sent THEN unsure[l] + 1 ELSE unsure[l]
  BY <1>1, <1>2 DEF JobsTyped
<1>5. JobsTyped' /\ OneJob(l)
  BY <1>1, <1>2, <1>3, <1>4 DEF JobsTyped, OneJob
<1>6. job[l].at # "over"
  BY <1>2 DEF Working, Sent
<1>7. /\ posts[l] <= unsure'[l] /\ posts[l] <= job[l].retried + 1 /\ unsure'[l] <= job[l].retried + 1
  <2>1. CASE job[l].at \in Sent
    BY <1>1, <1>4, <2>1 DEF PostOf, Sent
  <2>2. CASE job[l].at \notin Sent
    BY <1>1, <1>4, <1>6, <2>2 DEF PostOf
  <2> QED BY <2>1, <2>2
<1>8. log[l] # "none"
  BY <1>1, <1>2 DEF PostOf, Working, Sent
<1>9. PostOf(l)'
  <2>1. unsure'[l] \in Nat
    BY <1>4
  <2> QED BY <1>1, <1>2, <1>3, <1>7, <1>8, <2>1 DEF PostOf, Sent
<1> QED BY <1>5, <1>9, JobStepInv

-----------------------------------------------------------------------------
(***************************************************************************)
(* Theorems about publishing.                                              *)
(***************************************************************************)
LEMMA PublishInitInv == PublishInit => PublishInv
<1> SUFFICES ASSUME PublishInit PROVE PublishInv
  OBVIOUS
<1>1. PublishTypeOK /\ ConnInv
  BY DEF PublishInit, PublishTypeOK, ConnInv, JobStage, MaxRetry
<1>2. PostInv
  BY DEF PublishInit, PostInv, PostOf, Sent
<1> QED BY <1>1, <1>2 DEF PublishInv

LEMMA PublishNextInv == PublishInv /\ [PublishNext]_PublishVars => PublishInv'
<1> SUFFICES ASSUME PublishInv, [PublishNext]_PublishVars PROVE PublishInv'
  OBVIOUS
<1>1. ASSUME NEW f \in Flow, StartAuth(f) \/ PollAuthOf(f) \/ Connect(f) PROVE PublishInv'
  BY <1>1, AuthInv
<1>2. ASSUME NEW f \in Flow, StoreAuth(f) PROVE PublishInv'
  BY <1>2, StoreAuthInv
<1>3. CASE Verify \/ VerifyWrites \/ Disconnect \/ DisconnectDeletes
  BY <1>3, RowInv
<1>4. ASSUME NEW l \in Log,
             \/ PublishRequest(l) \/ EnqueuePublishJob(l) \/ ServerDies(l)
             \/ HandleTask(l) \/ LoadConnection(l) \/ AdapterPrepares(l)
             \/ PublishFailed(l) \/ UpdateStatusWithPostID(l) \/ JobReturns(l)
      PROVE  PublishInv'
  BY <1>4, JobGoesOnInv
<1>5. ASSUME NEW l \in Log, AdapterSubmits(l) PROVE PublishInv'
  BY <1>5, AdapterSubmitsInv
<1>6. ASSUME NEW l \in Log, AdapterFinishes(l) PROVE PublishInv'
  BY <1>6, AdapterFinishesInv
<1>7. ASSUME NEW l \in Log, FailureTold(l) \/ Published(l) PROVE PublishInv'
  BY <1>7, ToldInv
<1>8. ASSUME NEW l \in Log, WorkerDies(l) PROVE PublishInv'
  BY <1>8, WorkerDiesInv
<1>9. CASE UNCHANGED PublishVars
  <2>1. /\ UNCHANGED <<platform, publishing>> /\ conn' = conn /\ flow' = flow
        /\ verifying' = verifying /\ disconnecting' = disconnecting /\ deleted' = deleted
    BY <1>9 DEF PublishVars, connection
  <2>2. ConnInv' /\ flow' \in [Flow -> Auth]
    BY <2>1 DEF PublishInv, ConnInv, PublishTypeOK, Auth
  <2>3. /\ {conn', verifying', disconnecting'} \subseteq Row \union {NoRow}
        /\ deleted' \subseteq {f \in Flow : flow'[f].stage = "over"}
    BY <2>1 DEF PublishInv, PublishTypeOK
  <2> QED BY <2>1, <2>2, <2>3, ConnStep
<1> QED
  BY <1>1, <1>2, <1>3, <1>4, <1>5, <1>6, <1>7, <1>8, <1>9 DEF PublishNext, JobStep

\* The invariant holds in every state, for any requests and any platforms.
THEOREM PublishInvariant == PublishSpec => []PublishInv
<1>1. PublishInit => PublishInv
  BY PublishInitInv
<1>2. PublishInv /\ [PublishNext]_PublishVars => PublishInv'
  BY PublishNextInv
<1> QED BY <1>1, <1>2, PTL DEF PublishSpec

\* What was disconnected stays disconnected: Update and Create write no row whose
\* id was deleted, whatever a Connect or a Verify read before (platform_service.go).
THEOREM DisconnectedForGood == PublishSpec => []DisconnectedStays
<1>1. PublishInv => DisconnectedStays
  BY DEF PublishInv, ConnInv, DisconnectedStays
<1> QED BY <1>1, PublishInvariant, PTL

\* A note is posted again only after a try that ended after submit without a result.
THEOREM PostsAreExplained == PublishSpec => []PostsExplained
<1>1. PublishInv => PostsExplained
  <2> SUFFICES ASSUME PublishInv, NEW l \in Log PROVE posts[l] <= 1 + unsure[l]
    BY DEF PostsExplained
  <2> QED BY PostFacts DEF PostOf
<1> QED BY <1>1, PublishInvariant, PTL

-----------------------------------------------------------------------------
(***************************************************************************)
(* Who is told of a post.  PostOf bounds the posts of a job by its tries   *)
(* without a result until it submits again; from the push on, the owner    *)
(* was told.                                                               *)
(***************************************************************************)
ReportOf(l) ==
  job[l].at \in {"return", "over"} => posts[l] <= unsure[l] \/ "complete" \in told[l]
ReportInv == \A l \in Log : ReportOf(l)

JobAction(l) ==
  \/ PublishRequest(l) \/ EnqueuePublishJob(l) \/ ServerDies(l) \/ JobStep(l) \/ WorkerDies(l)

\* A step is one of a job, or leaves every job alone.
LEMMA StepKinds ==
  ASSUME [PublishNext]_PublishVars
  PROVE  UNCHANGED publishing \/ \E l \in Log : JobAction(l)
<1>1. ASSUME NEW f \in Flow, StartAuth(f) \/ PollAuthOf(f) \/ StoreAuth(f) \/ Connect(f)
      PROVE  UNCHANGED publishing
  BY <1>1 DEF StartAuth, PollAuthOf, StoreAuth, Connect
<1>2. CASE Verify \/ VerifyWrites \/ Disconnect \/ DisconnectDeletes
  BY <1>2 DEF Verify, VerifyWrites, Disconnect, DisconnectDeletes
<1>3. CASE UNCHANGED PublishVars
  BY <1>3 DEF PublishVars
<1> QED BY <1>1, <1>2, <1>3 DEF PublishNext, JobAction

\* The step of one job leaves the others alone.
LEMMA OthersKept ==
  ASSUME JobsTyped, NEW l \in Log, JobAction(l), NEW k \in Log, k # l
  PROVE  /\ job'[k] = job[k] /\ posts'[k] = posts[k]
         /\ unsure'[k] = unsure[k] /\ told'[k] = told[k]
<1>1. CASE PublishRequest(l) \/ EnqueuePublishJob(l) \/ ServerDies(l) \/ WorkerDies(l)
  BY <1>1 DEF PublishRequest, EnqueuePublishJob, ServerDies, WorkerDies, At, Retry, JobsTyped
<1>2. CASE JobStep(l)
  <2>1. CASE HandleTask(l) \/ LoadConnection(l) \/ AdapterPrepares(l) \/ PublishFailed(l)
             \/ UpdateStatusWithPostID(l) \/ JobReturns(l)
    BY <2>1 DEF HandleTask, LoadConnection, AdapterPrepares, PublishFailed,
                UpdateStatusWithPostID, JobReturns, At, JobsTyped
  <2>2. CASE AdapterSubmits(l) \/ AdapterFinishes(l)
    BY <2>2 DEF AdapterSubmits, AdapterFinishes, At, JobsTyped
  <2>3. CASE FailureTold(l) \/ Published(l)
    BY <2>3 DEF FailureTold, Published, sendPublishPush, At, Retry, JobsTyped
  <2> QED BY <1>2, <2>1, <2>2, <2>3 DEF JobStep
<1> QED BY <1>1, <1>2 DEF JobAction

\* A job that comes to its end has told its owner, or has no more posts than tries
\* without a result.
LEMMA ReportStep ==
  ASSUME PublishInv, NEW l \in Log, ReportOf(l), JobAction(l)
  PROVE  ReportOf(l)'
<1>1. /\ JobsTyped /\ PostOf(l)
      /\ posts[l] \in Nat /\ unsure[l] \in Nat /\ job[l].retried \in Nat
  BY PostFacts
<1>2. job[l].at \notin Sent \union {"over"} => posts[l] <= unsure[l]
  BY <1>1 DEF PostOf
<1>3. CASE PublishRequest(l) \/ EnqueuePublishJob(l) \/ ServerDies(l) \/ HandleTask(l)
           \/ LoadConnection(l) \/ AdapterPrepares(l) \/ PublishFailed(l)
  <2>1. UNCHANGED <<posts, unsure, told>>
    BY <1>3 DEF PublishRequest, EnqueuePublishJob, ServerDies, HandleTask, LoadConnection,
                AdapterPrepares, PublishFailed
  <2>2. job[l].at \notin Sent \union {"over"}
    <3>1. PublishRequest(l) => job[l].at = "none"
      BY <1>1 DEF PublishRequest, PostOf
    <3> QED BY <1>3, <3>1 DEF EnqueuePublishJob, ServerDies, HandleTask, LoadConnection,
                              AdapterPrepares, PublishFailed, Sent
  <2> QED BY <1>2, <2>1, <2>2 DEF ReportOf
<1>4. CASE AdapterSubmits(l) \/ AdapterFinishes(l) \/ UpdateStatusWithPostID(l)
  <2>1. PICK stage \in {"finish", "error", "save", "push"} : At(l, stage)
    BY <1>4 DEF AdapterSubmits, AdapterFinishes, UpdateStatusWithPostID
  <2>2. job'[l].at = stage
    BY <1>1, <2>1, AtFacts DEF JobStage
  <2> QED BY <2>1, <2>2 DEF ReportOf
<1>5. CASE Published(l)
  <2>1. "complete" \in told'[l]
    BY <1>1, <1>5 DEF Published, sendPublishPush, JobsTyped
  <2> QED BY <2>1 DEF ReportOf
<1>6. CASE JobReturns(l)
  <2>1. job[l].at = "return" /\ UNCHANGED <<posts, unsure, told>>
    BY <1>6 DEF JobReturns
  <2> QED BY <2>1 DEF ReportOf
<1>7. CASE FailureTold(l)
  <2>1. job[l].at = "tell" /\ UNCHANGED <<posts, unsure>>
    BY <1>7 DEF FailureTold
  <2> QED BY <1>2, <2>1 DEF ReportOf, Sent
<1>8. CASE WorkerDies(l)
  <2>1. /\ posts' = posts /\ job[l].at \in Working
        /\ unsure'[l] = IF job[l].at \in Sent THEN unsure[l] + 1 ELSE unsure[l]
    BY <1>1, <1>8 DEF WorkerDies, JobsTyped
  <2>2. posts[l] <= unsure'[l]
    BY <1>1, <2>1 DEF PostOf, Sent, Working
  <2> QED BY <2>1, <2>2 DEF ReportOf
<1> QED BY <1>3, <1>4, <1>5, <1>6, <1>7, <1>8 DEF JobAction, JobStep

\* When a job is over, its owner was told of the post, or every post comes from a try
\* that ended after submit without a result: the status write, whose error is only logged, does not stop the push
\* (publish_job_handler.go).
THEOREM PostsAreReported == PublishSpec => []PostsReported
<1>1. PublishInit => ReportInv
  BY DEF PublishInit, ReportInv, ReportOf
<1>2. PublishInv /\ ReportInv /\ [PublishNext]_PublishVars => ReportInv'
  <2> SUFFICES ASSUME PublishInv, ReportInv, [PublishNext]_PublishVars, NEW k \in Log
               PROVE  ReportOf(k)'
    BY DEF ReportInv
  <2>1. JobsTyped /\ ReportOf(k)
    BY PostFacts DEF ReportInv
  <2>2. CASE UNCHANGED publishing
    BY <2>1, <2>2 DEF publishing, ReportOf
  <2>3. CASE JobAction(k)
    BY <2>1, <2>3, ReportStep
  <2>4. ASSUME NEW l \in Log, JobAction(l), k # l PROVE ReportOf(k)'
    BY <2>1, <2>4, OthersKept DEF ReportOf
  <2> QED BY <2>2, <2>3, <2>4, StepKinds
<1>3. PublishInv /\ ReportInv => PostsReported
  BY DEF ReportInv, ReportOf, PostsReported
<1> QED BY <1>1, <1>2, <1>3, PublishInvariant, PTL DEF PublishSpec
=============================================================================
