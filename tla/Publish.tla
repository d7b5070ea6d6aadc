-------------------------------- MODULE Publish --------------------------------
(***************************************************************************)
(* Platform connections and publish jobs of one user on one platform       *)
(* (service/platform_service.go, service/publish_service.go,               *)
(* queue/publish_job_handler.go, their repositories and handlers), over    *)
(* the steps of the platform's adapter.                                    *)
(*                                                                         *)
(* The server connects, verifies and disconnects, and stores publish       *)
(* requests.  With a queue it enqueues a job for each, which the worker    *)
(* runs; the deployed server is built without one (cmd/server/main.go).    *)
(* Every statement is a step of its own.  asynq (external) runs a job      *)
(* again when it returned an error or its worker died, MaxRetry times.     *)
(***************************************************************************)
EXTENDS PlatformAdapters, FiniteSets

CONSTANTS Platform,  \* the platforms looked at
          Flow,      \* connect requests; also names the row and the credentials
          Log,       \* publish requests
          Queue,     \* is there a queue?  FALSE: the server as it is deployed
          NoRow

ASSUME PublishAssumption ==
  Platform \subseteq Browser \union Http /\ NoRow \notin Flow /\ Queue \subseteq BOOLEAN

MaxRetry == 3

VARIABLES platform,
          \* connections
          conn,          \* the platform_connections row of (user, platform)
          flow,          \* connect requests: their stage and the row they read
          verifying,     \* the row a Verify request read
          disconnecting, \* the row a Disconnect request read
          \* publish jobs
          log,           \* publish_logs.status
          job,           \* per log: where its job is, and its retries
          \* history variables
          deleted,       \* ids of deleted rows
          posts,         \* posts on the platform
          unsure,        \* tries that ended after submit without a result
          told           \* push notifications sent

connection == <<conn, flow, verifying, disconnecting, deleted>>
publishing == <<log, job, posts, unsure, told>>
PublishVars == <<platform, connection, publishing>>

Row == [id : Flow, auth : Flow]
JobStage == {"none", "requested", "queued", "lookup", "prepare", "submit", "finish",
             "error", "tell", "save", "push", "return", "over"}
Sent == {"finish", "save", "push", "return"}
Working == {"lookup", "prepare", "submit", "error", "tell"} \union Sent

PublishTypeOK ==
  /\ platform \in Platform
  /\ {conn, verifying, disconnecting} \subseteq Row \union {NoRow}
  /\ flow \in [Flow -> [stage : {"none", "waiting", "store", "over"}, seen : Row \union {NoRow}]]
  /\ log \in [Log -> {"none", "pending"}]
  /\ job \in [Log -> [at : JobStage, retried : 0..MaxRetry]]
  /\ deleted \subseteq {f \in Flow : flow[f].stage = "over"}
  /\ posts \in [Log -> 0..MaxRetry + 1] /\ unsure \in [Log -> 0..MaxRetry + 1]
  /\ told \in [Log -> SUBSET {"complete", "failed"}]

PublishInit ==
  /\ platform \in Platform
  /\ conn = NoRow /\ verifying = NoRow /\ disconnecting = NoRow /\ deleted = {}
  /\ flow = [f \in Flow |-> [stage |-> "none", seen |-> NoRow]]
  /\ log = [l \in Log |-> "none"]
  /\ job = [l \in Log |-> [at |-> "none", retried |-> 0]]
  /\ posts = [l \in Log |-> 0] /\ unsure = [l \in Log |-> 0]
  /\ told = [l \in Log |-> {}]

-----------------------------------------------------------------------------
(***************************************************************************)
(* The platform_connections table: one row per user and platform.          *)
(***************************************************************************)
GetByPlatform == conn
Create(row) == conn' = IF conn = NoRow THEN row ELSE conn

\* Mutant: a row that is gone is written again.
UpdateUpserts(row) == conn' = row

\* The whole row is written, if its id is still there.
Update(row) == conn' = IF conn # NoRow /\ conn.id = row.id THEN row ELSE conn

Delete(row) ==
  /\ conn' = IF conn # NoRow /\ conn.id = row.id THEN NoRow ELSE conn
  /\ deleted' = IF conn # NoRow /\ conn.id = row.id THEN deleted \union {row.id} ELSE deleted

-----------------------------------------------------------------------------
(***************************************************************************)
(* Connect: one request starts the authentication, polls, and stores the   *)
(* credentials.  Its session ends with it (CancelAuth), 2 minutes before   *)
(* cleanupExpiredSessions would remove it.                                 *)
(***************************************************************************)
CancelAuth(f) == flow' = [flow EXCEPT ![f].stage = "over", ![f].seen = NoRow]

StartAuth(f) ==
  /\ flow[f].stage = "none"
  /\ \/ flow' = [flow EXCEPT ![f].stage = "waiting"]
     \/ CanFail(StartAuthSteps(platform)) /\ CancelAuth(f)
  /\ UNCHANGED <<platform, conn, verifying, disconnecting, deleted, publishing>>

PollAuthOf(f) ==
  /\ flow[f].stage = "waiting"
  /\ \E result \in PollAuth(platform) \ {"pending"} :
       IF result = "failed" THEN CancelAuth(f)
       ELSE flow' = [flow EXCEPT ![f] = [stage |-> "store", seen |-> GetByPlatform]]
  /\ UNCHANGED <<platform, conn, verifying, disconnecting, deleted, publishing>>

\* The second of two concurrent Creates meets the unique key; its credentials
\* are dropped.
StoreAuth(f) ==
  /\ flow[f].stage = "store"
  /\ IF flow[f].seen = NoRow THEN Create([id |-> f, auth |-> f])
     ELSE Update([flow[f].seen EXCEPT !.auth = f])
  /\ CancelAuth(f)
  /\ UNCHANGED <<platform, verifying, disconnecting, deleted, publishing>>

\* 3 minutes are over, the client has left, or a statement failed.
Connect(f) ==
  /\ flow[f].stage \in {"waiting", "store"}
  /\ CancelAuth(f)
  /\ UNCHANGED <<platform, conn, verifying, disconnecting, deleted, publishing>>

Verify ==
  /\ verifying = NoRow /\ GetByPlatform # NoRow
  /\ verifying' = GetByPlatform
  /\ UNCHANGED <<platform, conn, flow, disconnecting, deleted, publishing>>

\* The row as it was read is written back, with last_verified set.
VerifyWrites ==
  /\ verifying # NoRow
  /\ Update(verifying)
  /\ verifying' = NoRow
  /\ UNCHANGED <<platform, flow, disconnecting, deleted, publishing>>

Disconnect ==
  /\ disconnecting = NoRow /\ GetByPlatform # NoRow
  /\ disconnecting' = GetByPlatform
  /\ UNCHANGED <<platform, conn, flow, verifying, deleted, publishing>>

\* After RevokeAuth, whose errors are logged.
DisconnectDeletes ==
  /\ disconnecting # NoRow
  /\ Delete(disconnecting)
  /\ disconnecting' = NoRow
  /\ UNCHANGED <<platform, flow, verifying, publishing>>

-----------------------------------------------------------------------------
(***************************************************************************)
(* Publish requests.                                                       *)
(***************************************************************************)
\* UPDATE publish_logs: the statement passes a parameter ($2) it does not use,
\* whose type Postgres cannot tell, and is refused.  Every caller logs the error
\* and goes on.
UpdateStatus(l, status) == log' = log

At(l, stage) == job' = [job EXCEPT ![l].at = stage]

PublishRequest(l) ==
  /\ log[l] = "none"
  /\ log' = [log EXCEPT ![l] = "pending"]
  /\ \E queue \in Queue : At(l, IF queue THEN "requested" ELSE "over")
  /\ UNCHANGED <<platform, connection, posts, unsure, told>>

EnqueuePublishJob(l) ==
  /\ job[l].at = "requested"
  /\ \/ At(l, "queued") /\ log' = log
     \/ At(l, "over") /\ UpdateStatus(l, "failed")
  /\ UNCHANGED <<platform, connection, posts, unsure, told>>

\* The server dies between the row and the queue.
ServerDies(l) ==
  /\ job[l].at = "requested"
  /\ At(l, "over")
  /\ UNCHANGED <<platform, connection, log, posts, unsure, told>>

-----------------------------------------------------------------------------
(***************************************************************************)
(* The job, up to the adapter.                                             *)
(***************************************************************************)
HandleTask(l) ==
  /\ job[l].at = "queued"
  /\ UpdateStatus(l, "publishing")
  /\ At(l, "lookup")
  /\ UNCHANGED <<platform, connection, posts, unsure, told>>

\* No row, or the statement failed: the job ends, without a retry.
LoadConnection(l) ==
  /\ job[l].at = "lookup"
  /\ \/ GetByPlatform # NoRow /\ At(l, "prepare") /\ log' = log
     \/ At(l, "over") /\ UpdateStatus(l, "failed")
  /\ UNCHANGED <<platform, connection, posts, unsure, told>>

\* The adapter's steps before submit.
AdapterPrepares(l) ==
  /\ job[l].at = "prepare"
  /\ \/ At(l, "submit")
     \/ CanFail(Prepare(platform)) /\ At(l, "error")
  /\ UNCHANGED <<platform, connection, log, posts, unsure, told>>

AdapterSubmits(l) ==
  /\ job[l].at = "submit"
  /\ \E ok \in BOOLEAN : \E posted \in Posted(platform, ok) :
       /\ posts' = [posts EXCEPT ![l] = IF posted THEN @ + 1 ELSE @]
       /\ unsure' = [unsure EXCEPT ![l] = IF ok THEN @ ELSE @ + 1]
       /\ At(l, IF ok THEN "finish" ELSE "error")
  /\ UNCHANGED <<platform, connection, log, told>>

\* The adapter's steps after submit: an error here hides a post that is there.
AdapterFinishes(l) ==
  /\ job[l].at = "finish"
  /\ \/ At(l, "save") /\ UNCHANGED unsure
     \/ /\ CanFail(Finish(platform)) /\ At(l, "error")
        /\ unsure' = [unsure EXCEPT ![l] = @ + 1]
  /\ UNCHANGED <<platform, connection, log, posts, told>>

-----------------------------------------------------------------------------
(***************************************************************************)
(* The job's end.                                                          *)
(***************************************************************************)
\* asynq: run the job again, or archive it.
Retry(l) ==
  job' = [job EXCEPT ![l] = IF @.retried < MaxRetry
                              THEN [at |-> "queued", retried |-> @.retried + 1]
                              ELSE [@ EXCEPT !.at = "over"]]

sendPublishPush(l, result) == told' = [told EXCEPT ![l] = @ \union {result}]

PublishFailed(l) ==
  /\ job[l].at = "error"
  /\ UpdateStatus(l, "failed")
  /\ At(l, "tell")
  /\ UNCHANGED <<platform, connection, posts, unsure, told>>

\* The error is returned to asynq.
FailureTold(l) ==
  /\ job[l].at = "tell"
  /\ sendPublishPush(l, "failed")
  /\ Retry(l)
  /\ UNCHANGED <<platform, connection, log, posts, unsure>>

\* Mutant: an error of the status write is returned to asynq.
UpdateStatusWithPostIDReturns(l) ==
  /\ job[l].at = "save"
  /\ UpdateStatus(l, "published")
  /\ Retry(l)
  /\ UNCHANGED <<platform, connection, posts, unsure, told>>

\* Refused as UpdateStatus is.
UpdateStatusWithPostID(l) ==
  /\ job[l].at = "save"
  /\ UpdateStatus(l, "published")
  /\ At(l, "push")
  /\ UNCHANGED <<platform, connection, posts, unsure, told>>

Published(l) ==
  /\ job[l].at = "push"
  /\ sendPublishPush(l, "complete")
  /\ At(l, "return")
  /\ UNCHANGED <<platform, connection, log, posts, unsure>>

\* Mutant: an error of the push notification is returned to asynq.
JobReturnsError(l) ==
  /\ job[l].at = "return"
  /\ At(l, "over") \/ Retry(l)
  /\ UNCHANGED <<platform, connection, log, posts, unsure, told>>

JobReturns(l) ==
  /\ job[l].at = "return"
  /\ At(l, "over")
  /\ UNCHANGED <<platform, connection, log, posts, unsure, told>>

\* The worker dies, or gives up 5 seconds after a signal; asynq finds the lease
\* expired.
WorkerDies(l) ==
  /\ job[l].at \in Working
  /\ Retry(l)
  /\ unsure' = [unsure EXCEPT ![l] = IF job[l].at \in Sent THEN @ + 1 ELSE @]
  /\ UNCHANGED <<platform, connection, log, posts, told>>

-----------------------------------------------------------------------------
JobStep(l) ==
  \/ HandleTask(l) \/ LoadConnection(l) \/ AdapterPrepares(l) \/ AdapterSubmits(l)
  \/ AdapterFinishes(l) \/ PublishFailed(l) \/ FailureTold(l) \/ UpdateStatusWithPostID(l)
  \/ Published(l) \/ JobReturns(l)

PublishNext ==
  \/ \E f \in Flow : StartAuth(f) \/ PollAuthOf(f) \/ StoreAuth(f) \/ Connect(f)
  \/ Verify \/ VerifyWrites \/ Disconnect \/ DisconnectDeletes
  \/ \E l \in Log : \/ PublishRequest(l) \/ EnqueuePublishJob(l) \/ ServerDies(l)
                    \/ JobStep(l) \/ WorkerDies(l)

PublishSpec == PublishInit /\ [][PublishNext]_PublishVars

-----------------------------------------------------------------------------
(***************************************************************************)
(* Properties                                                              *)
(***************************************************************************)
\* What was disconnected stays disconnected: a Connect or a Verify that read the
\* row before it was deleted does not bring it back.
DisconnectedStays == conn # NoRow => conn.id \notin deleted

\* A note is posted a second time only when an earlier try ended after submit
\* without a result: an error of the adapter or the death of the worker.
PostsExplained == \A l \in Log : posts[l] <= 1 + unsure[l]

\* When the job is over, its owner was told "Publish Complete" or every post comes
\* from such a try: a status write that fails does not keep the news back.
PostsReported ==
  \A l \in Log : job[l].at = "over" /\ "complete" \notin told[l] => posts[l] <= unsure[l]
=============================================================================
