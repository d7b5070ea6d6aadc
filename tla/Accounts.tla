------------------------------- MODULE Accounts -------------------------------
(***************************************************************************)
(* Accounts, refresh tokens, devices and push tokens                       *)
(* (service/auth_service.go, device_service.go, push_service.go, their     *)
(* repositories and handlers, handler/middleware.go).                      *)
(*                                                                         *)
(* A request is one goroutine; each of its statements is a step, between   *)
(* which other requests run.  The errors of most statements are logged and *)
(* the request goes on.  All accounts are registered with the same e-mail  *)
(* address: that is where they can meet.                                   *)
(***************************************************************************)
EXTENDS Naturals, FiniteSets

CONSTANTS Account,    \* user ids, one for each registration
          Request,    \* requests served at the same time
          Token,      \* refresh tokens (jti)
          PushToken, Device,
          None

ASSUME AccountsAssumption == None \notin Account \union Token \union PushToken

VARIABLES users,     \* rows of users
          known,     \* accounts whose owner got an access token
          owner,     \* per refresh token: the account it was signed for
          row,       \* per refresh token: its row in refresh_tokens
          held,      \* refresh tokens sent to a client
          devices,   \* rows of devices
          pushOwner, \* device_tokens: the account a push token belongs to
          req,       \* per request: next statement, account, tokens
          sweep,     \* a push token about to be deleted, and for whom
          \* history variables
          gone,      \* deleted accounts
          stray,     \* push tokens DeleteAccount missed
          spent      \* refresh tokens whose rotation was written down

session == <<owner, row, held, spent>>
push == <<pushOwner, stray, sweep>>
vars == <<users, known, session, devices, push, req, gone>>

Idle == [at |-> "idle", acct |-> None, old |-> None, new |-> None, late |-> FALSE, blind |-> FALSE]
Stage == {"idle", "create", "load", "revoke", "store",
          "deviceTokens", "revokeAll", "deleteUser"}

TypeOK ==
  /\ users \subseteq Account /\ gone \subseteq Account \ users /\ known \subseteq users \union gone
  /\ owner \in [Token -> Account \union {None}]
  /\ row \in [Token -> {"none", "stored", "revoked"}]
  /\ held \subseteq Token /\ spent \subseteq held
  /\ devices \subseteq users \X Device
  /\ pushOwner \in [PushToken -> known \union {None}] /\ stray \subseteq PushToken
  /\ req \in [Request -> [at : Stage, acct : Account \union {None}, old : Token \union {None},
                          new : Token \union {None}, late : BOOLEAN, blind : BOOLEAN]]
  /\ sweep \in (PushToken \X Account) \union {None}

Init ==
  /\ users = {} /\ known = {} /\ gone = {}
  /\ owner = [t \in Token |-> None] /\ row = [t \in Token |-> "none"]
  /\ held = {} /\ spent = {} /\ devices = {}
  /\ pushOwner = [p \in PushToken |-> None] /\ stray = {} /\ sweep = None
  /\ req = [r \in Request |-> Idle]

GoOn(r, stage) == req' = [req EXCEPT ![r].at = stage]
Ends(r) == req' = [req EXCEPT ![r] = Idle]

-----------------------------------------------------------------------------
(***************************************************************************)
(* Registration and login.                                                 *)
(***************************************************************************)
GetByEmail == users

Register(r, a) ==
  /\ req[r] = Idle /\ a \notin users \union gone
  /\ \A q \in Request : req[q].acct # a
  /\ GetByEmail = {}
  /\ req' = [req EXCEPT ![r].at = "create", ![r].acct = a]
  /\ UNCHANGED <<users, known, session, devices, push, gone>>

\* A token pair is signed before anything is stored about it.
generateAuthResponse(t, a) == owner[t] = None /\ owner' = [owner EXCEPT ![t] = a]

\* Mutant: the e-mail address is not unique in the table.
InsertUserAlways(a) == TRUE

\* INSERT INTO users: email and username are unique.
InsertUser(a) == users = {}

CreateUser(r) ==
  LET a == req[r].acct
  IN  /\ req[r].at = "create"
      /\ IF InsertUser(a)
         THEN /\ users' = users \union {a}
              /\ \E t \in Token : /\ generateAuthResponse(t, a)
                                  /\ req' = [req EXCEPT ![r].at = "store", ![r].new = t]
         ELSE Ends(r) /\ UNCHANGED <<users, owner>>
      /\ UNCHANGED <<known, row, held, spent, devices, push, gone>>

Login(r) ==
  /\ req[r] = Idle
  /\ \E a \in GetByEmail, t \in Token :
       /\ generateAuthResponse(t, a)
       /\ req' = [req EXCEPT ![r].at = "store", ![r].acct = a, ![r].new = t]
  /\ UNCHANGED <<users, known, row, held, spent, devices, push, gone>>

\* INSERT INTO refresh_tokens refers to the user; its error is logged.  Then the
\* pair is sent.
Store(r) ==
  LET a == req[r].acct
      t == req[r].new
  IN  /\ req[r].at = "store"
      /\ \/ a \in users /\ row' = [row EXCEPT ![t] = "stored"]
         \/ UNCHANGED row
      /\ held' = held \union {t}
      /\ known' = known \union {a}
      /\ Ends(r)
      /\ UNCHANGED <<users, owner, spent, devices, push, gone>>

-----------------------------------------------------------------------------
(***************************************************************************)
(* Rotation of refresh tokens.                                             *)
(***************************************************************************)
\* No row counts as not revoked.
IsRevoked(t) == row[t] = "revoked"

\* A failed lookup counts as not revoked too (blind).
RefreshToken(r, t, blind) ==
  /\ req[r] = Idle /\ t \in held
  /\ blind \/ ~IsRevoked(t)
  /\ req' = [req EXCEPT ![r] = [Idle EXCEPT !.at = "load", !.acct = owner[t], !.old = t,
                                            !.late = t \in spent, !.blind = blind]]
  /\ UNCHANGED <<users, known, session, devices, push, gone>>

GetByID(a) == a \in users

LoadUser(r) ==
  LET a == req[r].acct
  IN  /\ req[r].at = "load"
      /\ IF GetByID(a)
         THEN \E t \in Token : /\ generateAuthResponse(t, a)
                               /\ req' = [req EXCEPT ![r].at = "revoke", ![r].new = t]
         ELSE Ends(r) /\ UNCHANGED owner
      /\ UNCHANGED <<users, known, row, held, spent, devices, push, gone>>

\* Mutant: a revoked token loses its row.
RevokeDeletes(r) ==
  LET t == req[r].old
  IN  /\ req[r].at = "revoke"
      /\ row' = [row EXCEPT ![t] = "none"]
      /\ spent' = spent \union {t}
      /\ GoOn(r, "store")
      /\ UNCHANGED <<users, known, owner, held, devices, push, gone>>

\* UPDATE ... WHERE revoked = FALSE: nothing happens to a token without a row,
\* and an error is logged.
Revoke(r) ==
  LET t == req[r].old
  IN  /\ req[r].at = "revoke"
      /\ \/ /\ row' = [row EXCEPT ![t] = IF @ = "stored" THEN "revoked" ELSE @]
            /\ spent' = IF row[t] = "none" THEN spent ELSE spent \union {t}
         \/ UNCHANGED <<row, spent>>
      /\ GoOn(r, "store")
      /\ UNCHANGED <<users, known, owner, held, devices, push, gone>>

-----------------------------------------------------------------------------
(***************************************************************************)
(* Deletion: push tokens, refresh tokens, then the user and what refers to *)
(* it.                                                                     *)
(***************************************************************************)
\* A valid access token, and the right auth_key_hash.
DeleteAccount(r, a) ==
  /\ req[r] = Idle /\ a \in known
  /\ GetByID(a)
  /\ req' = [req EXCEPT ![r].at = "deviceTokens", ![r].acct = a]
  /\ UNCHANGED <<users, known, session, devices, push, gone>>

\* Mutant: the push tokens are left to a cascade that does not reach them.
DeleteDeviceTokensLeft(r) ==
  /\ req[r].at = "deviceTokens"
  /\ GoOn(r, "revokeAll")
  /\ UNCHANGED <<users, known, session, devices, push, gone>>

PushTokensOf(a) == {p \in PushToken : pushOwner[p] = a}

DeleteDeviceTokens(r) ==
  LET mine == PushTokensOf(req[r].acct)
  IN  /\ req[r].at = "deviceTokens"
      /\ \/ /\ pushOwner' = [p \in PushToken |-> IF p \in mine THEN None ELSE pushOwner[p]]
            /\ stray' = stray \ mine
         \/ stray' = stray \union mine /\ UNCHANGED pushOwner
      /\ GoOn(r, "revokeAll")
      /\ UNCHANGED <<users, known, session, devices, sweep, gone>>

RevokeAllForUser(r) ==
  /\ req[r].at = "revokeAll"
  /\ \/ row' = [t \in Token |-> IF owner[t] = req[r].acct /\ row[t] = "stored"
                                  THEN "revoked" ELSE row[t]]
     \/ UNCHANGED row
  /\ GoOn(r, "deleteUser")
  /\ UNCHANGED <<users, known, owner, held, spent, devices, push, gone>>

\* DELETE FROM users; the rows that refer to the user go with it.
DeleteUser(r) ==
  LET a == req[r].acct
  IN  /\ req[r].at = "deleteUser"
      /\ users' = users \ {a}
      /\ gone' = gone \union (users \intersect {a})
      /\ row' = [t \in Token |-> IF owner[t] = a THEN "none" ELSE row[t]]
      /\ devices' = {d \in devices : d[1] # a}
      /\ Ends(r)
      /\ UNCHANGED <<known, owner, held, spent, push>>

\* The statement that decides fails, the client is gone, or the server dies.
Aborts(r) ==
  /\ req[r] # Idle
  /\ Ends(r)
  /\ UNCHANGED <<users, known, session, devices, push, gone>>

-----------------------------------------------------------------------------
(***************************************************************************)
(* Devices and push tokens.  AuthMiddleware looks at the access token      *)
(* only: it is good until it expires, whatever became of the account.      *)
(***************************************************************************)
AuthMiddleware(a) == a \in known

\* An upsert; the row refers to the user.
RegisterDevice(a, d) ==
  /\ AuthMiddleware(a) /\ a \in users
  /\ devices' = devices \union {<<a, d>>}
  /\ UNCHANGED <<users, known, session, push, req, gone>>

DeleteDevice(a, d) ==
  /\ AuthMiddleware(a) /\ <<a, d>> \in devices
  /\ devices' = devices \ {<<a, d>>}
  /\ UNCHANGED <<users, known, session, push, req, gone>>

\* device_tokens has no foreign key: the row is written even when the account is
\* being deleted, or is gone.
RegisterDeviceToken(a, p) ==
  /\ AuthMiddleware(a)
  /\ pushOwner' = [pushOwner EXCEPT ![p] = a]
  /\ stray' = IF a \notin users \/ \E r \in Request : req[r].acct = a /\ req[r].at \in {"revokeAll", "deleteUser"}
                THEN stray \union {p} ELSE stray \ {p}
  /\ UNCHANGED <<users, known, session, devices, sweep, req, gone>>

\* The owner is compared, and then the token is deleted whoever owns it by then.
UnregisterDevice(a, p) ==
  /\ AuthMiddleware(a) /\ sweep = None
  /\ pushOwner[p] = a
  /\ sweep' = <<p, a>>
  /\ UNCHANGED <<users, known, session, devices, pushOwner, stray, req, gone>>

\* FCM knows one of the listed tokens no longer.
SendPush(a, p) ==
  /\ sweep = None
  /\ p \in PushTokensOf(a)
  /\ sweep' = <<p, a>>
  /\ UNCHANGED <<users, known, session, devices, pushOwner, stray, req, gone>>

DeleteByToken ==
  /\ sweep # None
  /\ pushOwner' = [pushOwner EXCEPT ![sweep[1]] = None]
  /\ stray' = stray \ {sweep[1]}
  /\ sweep' = None
  /\ UNCHANGED <<users, known, session, devices, req, gone>>

-----------------------------------------------------------------------------
Next ==
  \/ \E r \in Request :
       \/ CreateUser(r) \/ Login(r) \/ Store(r) \/ LoadUser(r) \/ Revoke(r)
       \/ DeleteDeviceTokens(r) \/ RevokeAllForUser(r) \/ DeleteUser(r) \/ Aborts(r)
       \/ \E a \in Account : Register(r, a) \/ DeleteAccount(r, a)
       \/ \E t \in Token, blind \in BOOLEAN : RefreshToken(r, t, blind)
  \/ \E a \in Account : \/ \E d \in Device : RegisterDevice(a, d) \/ DeleteDevice(a, d)
                        \/ \E p \in PushToken : \/ RegisterDeviceToken(a, p)
                                                \/ UnregisterDevice(a, p) \/ SendPush(a, p)
  \/ DeleteByToken

Spec == Init /\ [][Next]_vars

-----------------------------------------------------------------------------
(***************************************************************************)
(* Properties                                                              *)
(***************************************************************************)
\* Two registrations of an address that both found it free end with one account.
OneAccountPerEmail == Cardinality(users) <= 1

\* A refresh token whose rotation was written down gives no new pair to a request
\* that starts afterwards, unless that request's lookup failed: with the
\* deletion of accounts, the cascades and all the statements that fail.
RotatedIsRefused ==
  \A r \in Request : req[r].at \in {"revoke", "store"} /\ req[r].late => req[r].blind

\* Of a deleted account nothing is left but the push tokens that were registered
\* after DeleteAccount had removed them, or that it failed to remove.
DeletedIsGone ==
  \A a \in gone : /\ \A t \in Token : owner[t] = a => row[t] = "none"
                  /\ \A d \in Device : <<a, d>> \notin devices
                  /\ PushTokensOf(a) \subseteq stray
=============================================================================
