-------------------------------- MODULE AIProxy --------------------------------
(***************************************************************************)
(* Who pays for an AI request of one user: the user's own key, or the      *)
(* server's key within the rate limit and the daily quota                  *)
(* (service/ai_proxy_service.go, llm_config_resolver.go,                   *)
(* llm_config_service.go, quota_service.go, rate_limiter.go,               *)
(* redis_rate_limiter.go, queue/ai_job_handler.go and the repositories).   *)
(*                                                                         *)
(* Server and worker are processes of their own: each has its rate limiter *)
(* and its cache of the last reset; the tables are shared.  Time is        *)
(* counted in ticks of a part of a day.                                    *)
(***************************************************************************)
EXTENDS Integers, FiniteSets, SequencesExt

CONSTANTS ProxyRequest,  \* requests served by the server at the same time
          Job,           \* AI jobs the worker runs at the same time
          Config, None,
          ServerLimiter, \* "redis", or "memory" without Redis; the worker's is in memory
          DayLength,     \* ticks of a day, and of the limiters' window
          Limit,         \* requests per window, 50
          DailyLimit,    \* daily_ai_limit, 50 or 500
          MaxTime,       \* bound
          MaxRequests,   \* bound: requests started
          MaxFaults      \* bound: failures of Redis and of the quota's reset

ASSUME ProxyAssumption ==
  /\ {DayLength, Limit, DailyLimit} \subseteq Nat \ {0}
  /\ {MaxTime, MaxRequests, MaxFaults} \subseteq Nat
  /\ ProxyRequest \intersect Job = {}
  /\ ServerLimiter \in {"redis", "memory"}
  /\ None \notin [used : Nat, resetAt : Nat]

Request == ProxyRequest \union Job
Process == {"server", "worker"}
InMemory == IF ServerLimiter = "memory" THEN Process ELSE {"worker"}
ProcessOf(r) == IF r \in Job THEN "worker" ELSE "server"
Time == 0..MaxTime
Today(t) == t \div DayLength

VARIABLES now,
          configs,   \* llm_configs of the user, oldest first
          quota,     \* the row of user_quotas, or None
          window,    \* per limiter: the calls it has recorded
          lastReset, \* per process: the cached day of the last reset
          req,       \* requests
          started,   \* requests started so far
          faults,
          \* history variables
          calls,     \* calls of each limiter, and charges to the quota
          admitted,  \* per limiter: calls it let through
          waved,     \* of them: because Redis did not answer
          charged    \* charges to the quota

tables == <<configs, quota>>
limiter == <<window, admitted, waved>>
vars == <<now, tables, limiter, lastReset, req, started, faults, charged, calls>>

Row == [id : Config, isDefault : BOOLEAN, readable : BOOLEAN]
Idle == [at |-> "idle", since |-> 0, kept |-> {}]
Stage == {"idle", "tokens", "default", "list", "allow", "reset", "charge"}
\* A call has a time, and differs from the others of the same time: a member of
\* Redis' sorted set, a timestamp of the slice.
Entry == [call : Nat, at : Time]
Counter == Process \union {"quota"}

TypeOK ==
  /\ now \in Time
  /\ configs \in Seq(Row)
  /\ quota \in [used : 0..DailyLimit, resetAt : 0..now] \union {None}
  /\ {window, admitted, waved} \subseteq [Process -> SUBSET Entry]
  /\ charged \subseteq Entry /\ calls \in [Counter -> Nat]
  /\ lastReset \in [Process -> -1..Today(now)]
  /\ req \in [Request -> [at : Stage, since : 0..now, kept : SUBSET Config]]
  /\ started \in 0..MaxRequests /\ faults \in 0..MaxFaults

\* No code of the repository writes the first row of user_quotas.
Init ==
  /\ now = 0 /\ configs = <<>>
  /\ quota \in {None, [used |-> 0, resetAt |-> 0]}
  /\ window = [p \in Process |-> {}]
  /\ admitted = window /\ waved = window /\ charged = {}
  /\ calls = [k \in Counter |-> 0]
  /\ lastReset = [p \in Process |-> -1]
  /\ req = [r \in Request |-> Idle]
  /\ started = 0 /\ faults = 0

Starts(r) == req[r] = Idle /\ started < MaxRequests /\ started' = started + 1
At(r, stage) == [req[r] EXCEPT !.at = stage]
Becomes(r, state) == req' = [req EXCEPT ![r] = state]
Ends(r) == Becomes(r, Idle)
\* The day is taken and compared with the process's cache; on another day the
\* row is reset first, at stage.
resetIfNeeded(r, stage, next) ==
  Becomes(r, IF lastReset[ProcessOf(r)] = Today(now) THEN next
             ELSE [At(r, stage) EXCEPT !.since = now])

-----------------------------------------------------------------------------
(***************************************************************************)
(* Model configurations.                                                   *)
(***************************************************************************)
Ids == {configs[i].id : i \in DOMAIN configs}

\* The validated base URL, the encrypted key; any number of rows may be default.
Create(c, isDefault) ==
  /\ c \notin Ids
  /\ configs' = Append(configs, [id |-> c, isDefault |-> isDefault, readable |-> TRUE])
  /\ UNCHANGED <<now, quota, limiter, lastReset, req, started, faults, charged, calls>>

\* Fields left out keep their value, except is_default, which becomes false; a
\* key in the body is not looked at.  Without user_id in the body the statement
\* finds no row.
Update(c, isDefault) ==
  /\ c \in Ids
  /\ configs' = [i \in DOMAIN configs |->
                   IF configs[i].id = c THEN [configs[i] EXCEPT !.isDefault = isDefault]
                   ELSE configs[i]]
  /\ UNCHANGED <<now, quota, limiter, lastReset, req, started, faults, charged, calls>>

Delete(c) ==
  /\ c \in Ids
  /\ configs' = RemoveAt(configs, CHOOSE i \in DOMAIN configs : configs[i].id = c)
  /\ req' = [r \in Request |-> [req[r] EXCEPT !.kept = @ \ {c}]]
  /\ UNCHANGED <<now, quota, limiter, lastReset, started, faults, charged, calls>>

-----------------------------------------------------------------------------
(***************************************************************************)
(* The request's way to a configuration.                                   *)
(***************************************************************************)
Readable == {configs[i].id : i \in {j \in DOMAIN configs : configs[j].readable}}

\* POST /ai/proxy: max_tokens is capped by the plan, which GetQuota reads.
Proxy(r) ==
  /\ r \in ProxyRequest /\ Starts(r)
  /\ resetIfNeeded(r, "tokens", At(r, "default"))
  /\ UNCHANGED <<now, tables, limiter, lastReset, faults, charged, calls>>

\* A job, or an action of the agent, which calls the proxy service itself.
HandleTask(r) ==
  /\ Starts(r)
  /\ Becomes(r, At(r, "default"))
  /\ UNCHANGED <<now, tables, limiter, lastReset, faults, charged, calls>>

\* With the user's key the rate limit and the quota are left alone; a key that
\* cannot be decrypted counts as no configuration.
With(r, row) == IF row.readable THEN Ends(r)
                ELSE Becomes(r, [Idle EXCEPT !.at = "allow"])

\* Any default row; without one, or if the query fails, the list is next.
GetDefaultByUser(r) ==
  /\ req[r].at = "default"
  /\ \/ \E i \in DOMAIN configs : configs[i].isDefault /\ With(r, configs[i])
     \/ Becomes(r, [at |-> "list", since |-> 0, kept |-> Readable])
  /\ UNCHANGED <<now, tables, limiter, lastReset, started, faults, charged, calls>>

\* Mutant: only a default row counts.
ListByUserUnused(r) ==
  /\ req[r].at = "list"
  /\ Becomes(r, At(r, "allow"))
  /\ UNCHANGED <<now, tables, limiter, lastReset, started, faults, charged, calls>>

\* The newest row; a failed query counts as none.
ListByUser(r) ==
  /\ req[r].at = "list"
  /\ \/ configs # <<>> /\ With(r, configs[Len(configs)])
     \/ configs = <<>> /\ Becomes(r, At(r, "allow"))
     \/ Becomes(r, [Idle EXCEPT !.at = "allow"])
  /\ UNCHANGED <<now, tables, limiter, lastReset, started, faults, charged, calls>>

-----------------------------------------------------------------------------
(***************************************************************************)
(* The rate limiters: a sliding window of a day.                           *)
(***************************************************************************)
InWindow(t) == t > now - DayLength
Kept(w) == {e \in w : InWindow(e.at)}
Count(w) == Cardinality(Kept(w))
Recorded(w, k) == Kept(w) \union {[call |-> calls[k], at |-> now]}
Counted(k) == calls' = [calls EXCEPT ![k] = @ + 1]

Admit(r, p) ==
  /\ admitted' = [admitted EXCEPT ![p] = Recorded(@, p)]
  /\ resetIfNeeded(r, "reset", [At(r, "charge") EXCEPT !.since = now])
Refuse(r) == Ends(r) /\ UNCHANGED admitted

\* RateLimiter: a refused request is not recorded.
MemoryAllow(r, p) ==
  /\ p \in InMemory
  /\ IF Count(window[p]) >= Limit
     THEN window' = [window EXCEPT ![p] = Kept(@)] /\ Refuse(r)
     ELSE window' = [window EXCEPT ![p] = Recorded(@, p)] /\ Admit(r, p)
  /\ UNCHANGED <<waved, faults>>

\* RedisRateLimiter: one pipeline counts and then records, whatever the answer.
RedisAllow(r, p) ==
  /\ p \notin InMemory
  /\ window' = [window EXCEPT ![p] = Recorded(@, p)]
  /\ IF Count(window[p]) < Limit THEN Admit(r, p) ELSE Refuse(r)
  /\ UNCHANGED <<waved, faults>>

\* Redis does not answer, before or after it has run the pipeline: the request is
\* let through.
RedisFails(r, p) ==
  /\ p \notin InMemory /\ faults < MaxFaults
  /\ Admit(r, p)
  /\ waved' = [waved EXCEPT ![p] = Recorded(@, p)]
  /\ faults' = faults + 1
  /\ window' \in {window, [window EXCEPT ![p] = Recorded(@, p)]}

Allow(r) ==
  LET p == ProcessOf(r)
  IN  /\ req[r].at = "allow"
      /\ MemoryAllow(r, p) \/ RedisAllow(r, p) \/ RedisFails(r, p)
      /\ Counted(p)
      /\ UNCHANGED <<now, tables, lastReset, started, charged>>

\* Mutant: entries of the present count as the only live ones.
isWindowExpiredEarly(w) == \A e \in w : e.at < now

isWindowExpired(w) == \A e \in w : ~InWindow(e.at)

\* Every 100th call, of whichever user, drops the expired windows.
evictLocked(p) ==
  /\ p \in InMemory
  /\ window[p] # {}
  /\ isWindowExpired(window[p])
  /\ window' = [window EXCEPT ![p] = {}]
  /\ UNCHANGED <<now, tables, admitted, waved, lastReset, req, started, faults, charged, calls>>

-----------------------------------------------------------------------------
(***************************************************************************)
(* The quota.                                                              *)
(***************************************************************************)
\* Mutant: the row is reset whenever it is asked for.
DueAlways == quota # None

Due == quota # None /\ quota.resetAt < now - DayLength

\* Mutant: the day is cached whether or not the row was written.
ResetFailsCached(r) ==
  /\ faults' = faults + 1
  /\ lastReset' = [lastReset EXCEPT ![ProcessOf(r)] = Today(req[r].since)]
  /\ UNCHANGED quota

\* The statement fails: logged, and the request goes on.
ResetFails(r) ==
  /\ faults' = faults + 1
  /\ UNCHANGED <<lastReset, quota>>

\* The row is reset if that is due, and then the day is cached.
ResetIfNeeded(r, after, afterFailure) ==
  /\ \/ /\ quota' = IF Due THEN [used |-> 0, resetAt |-> now] ELSE quota
        /\ lastReset' = [lastReset EXCEPT ![ProcessOf(r)] = Today(req[r].since)]
        /\ Becomes(r, after)
        /\ UNCHANGED faults
     \/ /\ faults < MaxFaults /\ ResetFails(r)
        /\ Becomes(r, afterFailure)
  /\ UNCHANGED <<now, configs, limiter, started, charged, calls>>

\* GetQuota for the cap on max_tokens, and IncrementUsage.
GetQuota(r) ==
  LET next == [Idle EXCEPT !.at = "default"]
  IN  req[r].at = "tokens" /\ ResetIfNeeded(r, next, next)
IncrementUsage(r) ==
  /\ req[r].at = "reset"
  /\ ResetIfNeeded(r, At(r, "charge"), [At(r, "charge") EXCEPT !.since = 0])

\* daily_ai_used < daily_ai_limit
BelowLimit == quota.used < DailyLimit

\* One statement compares and counts.  No row, or none below the limit, is
\* ErrQuotaExceeded; so is, for the client, a failed statement.  Then the default
\* LLM is called, and for the proxy the fallback if that fails: whatever they
\* answer, the charge is not given back.
TryIncrementUsage(r) ==
  /\ req[r].at = "charge"
  /\ \/ /\ quota # None /\ BelowLimit
        /\ quota' = [quota EXCEPT !.used = @ + 1]
        /\ charged' = Recorded(charged, "quota") /\ Counted("quota")
     \/ UNCHANGED <<quota, charged, calls>>
  /\ Ends(r)
  /\ UNCHANGED <<now, configs, limiter, lastReset, started, faults>>

-----------------------------------------------------------------------------
\* Processes end: their caches and their limiters in memory are gone, a job is
\* run again by asynq (external).
Die(ps) ==
  /\ lastReset' = [p \in Process |-> IF p \in ps THEN -1 ELSE lastReset[p]]
  /\ LET lost == ps \intersect InMemory
     IN  /\ window' = [p \in Process |-> IF p \in lost THEN {} ELSE window[p]]
         /\ admitted' = [p \in Process |-> IF p \in lost THEN {} ELSE admitted[p]]
  /\ req' = [r \in Request |-> IF ProcessOf(r) \in ps THEN Idle ELSE req[r]]
  /\ UNCHANGED <<now, quota, waved, started, faults, charged, calls>>

ProcessDies(p) ==
  /\ \E r \in Request : ProcessOf(r) = p /\ req[r] # Idle
  /\ Die({p}) /\ UNCHANGED configs

\* Server and worker are started again, with another master key.
MasterKeyReplaced ==
  /\ \E i \in DOMAIN configs : configs[i].readable
  /\ configs' = [i \in DOMAIN configs |-> [configs[i] EXCEPT !.readable = FALSE]]
  /\ Die(Process)

\* Time passes; what is out of every window is forgotten by the history.
Tick ==
  /\ now < MaxTime
  /\ now' = now + 1
  /\ LET Late(w) == {e \in w : e.at > now' - DayLength}
     IN  /\ admitted' = [p \in Process |-> Late(admitted[p])]
         /\ waved' = [p \in Process |-> Late(waved[p])]
         /\ charged' = Late(charged)
  /\ UNCHANGED <<tables, window, lastReset, req, started, faults, calls>>

Next ==
  \/ \E r \in Request :
       \/ Proxy(r) \/ HandleTask(r) \/ GetDefaultByUser(r) \/ ListByUser(r) \/ Allow(r)
       \/ GetQuota(r) \/ IncrementUsage(r) \/ TryIncrementUsage(r)
  \/ \E c \in Config : \/ \E d \in BOOLEAN : Create(c, d) \/ Update(c, d)
                       \/ Delete(c)
  \/ \E p \in Process : evictLocked(p) \/ ProcessDies(p)
  \/ MasterKeyReplaced \/ Tick

Spec == Init /\ [][Next]_vars

-----------------------------------------------------------------------------
(***************************************************************************)
(* Properties                                                              *)
(***************************************************************************)
\* In no window of a day a limiter lets more than Limit requests through, beside
\* those for which Redis did not answer, however the windows are swept.
WindowBounded ==
  \A p \in Process : Count(admitted[p]) <= Limit + Count(waved[p])

\* While a user keeps a readable configuration, and has no unreadable one, a
\* request is not sent on the server's account, unless the lookups failed.
OwnKeyIsUsed ==
  \A r \in Request :
    req[r].at \in {"allow", "reset", "charge"}
      => req[r].kept = {}

\* A request is charged to a quota that was reset less than two days before:
\* the cached day may delay a reset that is due, but not beyond the next day,
\* whichever process the requests come to, and however often it restarts.
ResetWithinTwoDays ==
  \A r \in Request :
    req[r].at = "charge" /\ quota # None
      => quota.resetAt > req[r].since - 2 * DayLength

\* Two processes that reset the quota each for itself give no third day's worth:
\* in a window of a day at most twice the daily limit is charged.
ChargesPerDay == Count(charged) <= 2 * DailyLimit
=============================================================================
