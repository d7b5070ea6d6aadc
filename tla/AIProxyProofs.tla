---------------------------- MODULE AIProxyProofs ----------------------------
(***************************************************************************)
(* Theorems about the rate limit, the quota and the choice of the key, for *)
(* any number of requests, jobs and configurations, any limits, and any    *)
(* length of the day; and about the answers of the providers behind it.    *)
(***************************************************************************)
EXTENDS AIProxy, LLMStream, FiniteSetTheorems, SequenceTheorems, TLAPS

RequestType == [at : Stage, since : 0..now, kept : SUBSET Config]

-----------------------------------------------------------------------------
(***************************************************************************)
(* The inductive invariant.                                                *)
(***************************************************************************)
\* What a request saw and nobody deleted is still in the table.
KeyInv == \A r \in Request : req[r].kept # {} => req[r].at = "list" /\ req[r].kept \subseteq Ids

\* Calls are numbered, of the past, and finitely many.
Past(w, k) == IsFiniteSet(w) /\ \A e \in w : e.call < calls[k] /\ e.at <= now
Live(w) == \A e \in w : InWindow(e.at)

\* What a limiter let through, and Redis answered for, is in its window: that is
\* what it counts.
LimitOf(p) ==
  /\ Past(window[p], p)
  /\ Past(admitted[p], p) /\ Live(admitted[p])
  /\ Past(waved[p], p) /\ Live(waved[p])
  /\ p \in InMemory => waved[p] = {}
  /\ admitted[p] \ waved[p] \subseteq window[p]
  /\ Cardinality(admitted[p] \ waved[p]) <= Limit
LimitInv == \A p \in Process : LimitOf(p)

\* The charges of a day are those counted since the last reset, and some before
\* it, which the quota allowed before.
Split(old) ==
  /\ \A e \in old : e.at <= quota.resetAt
  /\ Cardinality(old) <= DailyLimit
  /\ Cardinality(charged \ old) <= quota.used
ChargeInv ==
  /\ Past(charged, "quota") /\ Live(charged)
  /\ quota = None => charged = {}
  /\ quota # None => \E old \in SUBSET charged : Split(old)

\* A cached day is at most a day ahead of the last reset.
CacheInv ==
  quota # None => \A p \in Process :
    lastReset[p] # -1 => quota.resetAt >= lastReset[p] * DayLength - DayLength

ProxyInv ==
  TypeOK /\ KeyInv /\ LimitInv /\ ChargeInv /\ CacheInv /\ ResetWithinTwoDays

-----------------------------------------------------------------------------
(***************************************************************************)
(* Days, requests, entries.                                                *)
(***************************************************************************)
\* What day a time is in.
LEMMA DayBounds ==
  ASSUME NEW t \in Nat
  PROVE  /\ Today(t) \in Nat /\ Today(t) * DayLength <= t
         /\ t < Today(t) * DayLength + DayLength
<1>1. DayLength \in Nat \ {0}
  BY ProxyAssumption
<1> QED BY <1>1, SMT DEF Today

\* Days follow each other.
LEMMA DaysOrdered ==
  ASSUME NEW s \in Nat, NEW t \in Nat, s <= t
  PROVE  Today(s) <= Today(t)
<1>1. DayLength \in Nat \ {0}
  BY ProxyAssumption
<1> QED BY <1>1, SMT DEF Today

LEMMA ProcessFact ==
  /\ \A r : ProcessOf(r) \in Process
  /\ Process \subseteq Counter /\ "quota" \in Counter \ Process
  BY DEF ProcessOf, Process, Counter

LEMMA IdleType == now \in Nat => Idle \in RequestType /\ Idle.at = "idle" /\ Idle.kept = {}
  BY DEF Idle, RequestType, Stage

\* What the row of the quota holds.
LEMMA QuotaType ==
  ASSUME TypeOK, quota # None
  PROVE  /\ quota \in [used : 0..DailyLimit, resetAt : 0..now]
         /\ quota.used \in Nat /\ quota.used <= DailyLimit
         /\ quota.resetAt \in Nat /\ quota.resetAt <= now
  BY ProxyAssumption DEF TypeOK, Time

LEMMA RequestTyped ==
  ASSUME TypeOK, NEW r \in Request
  PROVE  now \in Nat /\ req[r] \in RequestType /\ req[r].since \in 0..now
  BY ProxyAssumption DEF TypeOK, Time, RequestType

\* The records a request goes through before it is let through.
LEMMA EarlyType ==
  ASSUME now \in Nat, NEW stage \in Stage, NEW since \in 0..now, NEW kept \in SUBSET Config,
         NEW x, x = [at |-> stage, since |-> since, kept |-> kept]
  PROVE  x \in RequestType /\ x.at = stage /\ x.since = since /\ x.kept = kept
  BY DEF RequestType

\* What one request becomes, and that the others stay.
LEMMA RequestStep ==
  ASSUME ProxyInv, NEW r \in Request, NEW x \in RequestType, Becomes(r, x), now' = now
  PROVE  /\ req' \in [Request -> RequestType]
         /\ req' \in [Request -> [at : Stage, since : 0..now', kept : SUBSET Config]]
         /\ req'[r] = x /\ \A q \in Request : q # r => req'[q] = req[q]
  BY DEF ProxyInv, TypeOK, RequestType, Becomes

\* A request goes on while the tables and the caches stay.
LEMMA RequestParts ==
  ASSUME ProxyInv, NEW r \in Request, NEW x \in RequestType, Becomes(r, x),
         UNCHANGED <<now, tables, lastReset>>,
         x.kept # {} => x.at = "list" /\ x.kept \subseteq Ids,
         x.at = "charge" /\ quota # None => quota.resetAt > x.since - 2 * DayLength
  PROVE  /\ req' \in [Request -> [at : Stage, since : 0..now', kept : SUBSET Config]]
         /\ KeyInv' /\ CacheInv' /\ ResetWithinTwoDays'
<1>1. /\ req' \in [Request -> [at : Stage, since : 0..now', kept : SUBSET Config]]
      /\ req'[r] = x /\ \A q \in Request : q # r => req'[q] = req[q]
  BY RequestStep
<1>2. now' = now /\ configs' = configs /\ quota' = quota /\ lastReset' = lastReset
  BY DEF tables
<1>3. KeyInv'
  BY <1>1, <1>2 DEF ProxyInv, KeyInv, Ids
<1>4. CacheInv'
  BY <1>2 DEF ProxyInv, CacheInv
<1>5. ResetWithinTwoDays'
  BY <1>1, <1>2 DEF ProxyInv, ResetWithinTwoDays
<1> QED BY <1>1, <1>3, <1>4, <1>5

LEMMA SameLimits ==
  ASSUME LimitInv, UNCHANGED <<now, limiter>>, \A p \in Process : calls'[p] = calls[p]
  PROVE  LimitInv'
<1>1. now' = now /\ window' = window /\ admitted' = admitted /\ waved' = waved
  BY DEF limiter
<1> QED BY <1>1 DEF LimitInv, LimitOf, Past, Live, InWindow

LEMMA SameCharges ==
  ASSUME ChargeInv, UNCHANGED <<now, quota, charged>>, calls'["quota"] = calls["quota"]
  PROVE  ChargeInv'
  BY DEF ChargeInv, Split, Past, Live, InWindow

-----------------------------------------------------------------------------
(***************************************************************************)
(* Steps on the table of configurations.                                   *)
(***************************************************************************)
\* Rows come and go; what a request saw and lost is out of its kept set.
LEMMA ConfigStep ==
  ASSUME ProxyInv, configs' \in Seq(Row), req' \in [Request -> RequestType],
         \A r \in Request : req'[r].at = req[r].at /\ req'[r].since = req[r].since
                              /\ req'[r].kept \subseteq req[r].kept,
         \A r \in Request : req[r].kept \subseteq Ids => req'[r].kept \subseteq Ids',
         UNCHANGED <<now, quota, limiter, lastReset, started, faults, charged, calls>>
  PROVE  ProxyInv'
<1>1. /\ UNCHANGED <<now, quota, lastReset, started, faults, charged, calls>>
      /\ UNCHANGED <<now, limiter>>
      /\ window' = window /\ admitted' = admitted /\ waved' = waved
  BY DEF limiter
<1>2. TypeOK'
  BY <1>1 DEF ProxyInv, TypeOK, RequestType
<1>3. KeyInv'
  BY DEF ProxyInv, KeyInv
<1>4. LimitInv'
  BY <1>1, SameLimits DEF ProxyInv
<1>5. ChargeInv'
  BY <1>1, SameCharges DEF ProxyInv
<1>6. CacheInv' /\ ResetWithinTwoDays'
  BY <1>1 DEF ProxyInv, CacheInv, ResetWithinTwoDays
<1> QED BY <1>2, <1>3, <1>4, <1>5, <1>6 DEF ProxyInv

LEMMA CreateInv ==
  ASSUME ProxyInv, NEW c \in Config, NEW d \in BOOLEAN, Create(c, d)
  PROVE  ProxyInv'
<1>1. /\ configs' = Append(configs, [id |-> c, isDefault |-> d, readable |-> TRUE])
      /\ UNCHANGED <<now, quota, limiter, lastReset, req, started, faults, charged, calls>>
  BY DEF Create
<1>2. configs \in Seq(Row) /\ req \in [Request -> RequestType]
  BY DEF ProxyInv, TypeOK, RequestType
<1>3. [id |-> c, isDefault |-> d, readable |-> TRUE] \in Row
  BY DEF Row
<1>4. configs' \in Seq(Row)
  BY <1>1, <1>2, <1>3
<1>5. \A i \in DOMAIN configs : i \in DOMAIN configs' /\ configs'[i] = configs[i]
  BY <1>1, <1>2, <1>3
<1>6. Ids \subseteq Ids'
  BY <1>5 DEF Ids
<1>7. UNCHANGED <<now, quota, limiter, lastReset, started, faults, charged, calls>> /\ req' = req
  BY <1>1
<1> QED BY <1>2, <1>4, <1>6, <1>7, ConfigStep

LEMMA UpdateInv ==
  ASSUME ProxyInv, NEW c \in Config, NEW d \in BOOLEAN, Update(c, d)
  PROVE  ProxyInv'
<1>1. /\ configs' = [i \in DOMAIN configs |->
                       IF configs[i].id = c THEN [configs[i] EXCEPT !.isDefault = d] ELSE configs[i]]
      /\ UNCHANGED <<now, quota, limiter, lastReset, started, faults, charged, calls>> /\ req' = req
  BY DEF Update
<1>2. configs \in Seq(Row) /\ req \in [Request -> RequestType]
  BY DEF ProxyInv, TypeOK, RequestType
<1>3. DOMAIN configs = 1..Len(configs) /\ Len(configs) \in Nat
  BY <1>2
<1>4. \A i \in DOMAIN configs : configs'[i] \in Row /\ configs'[i].id = configs[i].id
  <2> SUFFICES ASSUME NEW i \in DOMAIN configs
               PROVE  configs'[i] \in Row /\ configs'[i].id = configs[i].id
    OBVIOUS
  <2>1. configs[i] \in Row
    BY <1>2
  <2>2. configs'[i] = configs[i] \/ configs'[i] = [configs[i] EXCEPT !.isDefault = d]
    BY <1>1
  <2>3. [configs[i] EXCEPT !.isDefault = d] \in Row
    BY <2>1 DEF Row
  <2>4. [configs[i] EXCEPT !.isDefault = d].id = configs[i].id
    BY <2>1 DEF Row
  <2> QED BY <2>1, <2>2, <2>3, <2>4
<1>5. configs' \in [1..Len(configs) -> Row]
  BY <1>1, <1>3, <1>4
<1>6. configs' \in Seq(Row)
  BY <1>3, <1>5
<1>7. Ids \subseteq Ids'
  BY <1>1, <1>4 DEF Ids
<1> QED BY <1>1, <1>2, <1>6, <1>7, ConfigStep

\* What is left of a sequence without its element at i.
LEMMA RemoveAtRest ==
  ASSUME NEW S, NEW s \in Seq(S), NEW i \in DOMAIN s
  PROVE  /\ RemoveAt(s, i) \in Seq(S)
         /\ \A j \in DOMAIN s : j # i => \E k \in DOMAIN RemoveAt(s, i) : RemoveAt(s, i)[k] = s[j]
<1> DEFINE a == SubSeq(s, 1, i - 1)
           b == SubSeq(s, i + 1, Len(s))
<1>1. Len(s) \in Nat /\ i \in 1..Len(s)
  OBVIOUS
<1>2. a \in Seq(S) /\ Len(a) = i - 1 /\ \A j \in 1..(i - 1) : a[j] = s[j]
  BY <1>1
<1>3. b \in Seq(S) /\ Len(b) = Len(s) - i /\ \A j \in 1..(Len(s) - i) : b[j] = s[i + j]
  BY <1>1
<1>4. RemoveAt(s, i) = a \o b
  BY DEF RemoveAt
<1> HIDE DEF a, b
<1>5. /\ a \o b \in Seq(S) /\ Len(a \o b) = Len(s) - 1
      /\ \A k \in 1..(i - 1) : (a \o b)[k] = s[k]
      /\ \A k \in i..(Len(s) - 1) : (a \o b)[k] = s[k + 1]
  <2>1. /\ a \o b \in Seq(S) /\ Len(a \o b) = Len(a) + Len(b)
        /\ \A k \in 1..(Len(a) + Len(b)) : (a \o b)[k] = IF k <= Len(a) THEN a[k] ELSE b[k - Len(a)]
    BY <1>2, <1>3, ConcatProperties
  <2>2. Len(a) + Len(b) = Len(s) - 1
    BY <1>1, <1>2, <1>3
  <2>3. ASSUME NEW k \in 1..(i - 1) PROVE (a \o b)[k] = s[k]
    BY <1>1, <1>2, <2>1, <2>2
  <2>4. ASSUME NEW k \in i..(Len(s) - 1) PROVE (a \o b)[k] = s[k + 1]
    <3>1. k \in 1..(Len(a) + Len(b)) /\ ~(k <= Len(a)) /\ k - Len(a) = k - i + 1
      BY <1>1, <1>2, <2>2
    <3>2. k - i + 1 \in 1..(Len(s) - i) /\ i + (k - i + 1) = k + 1
      BY <1>1
    <3> QED BY <1>3, <2>1, <3>1, <3>2
  <2> QED BY <2>1, <2>2, <2>3, <2>4
<1>6. ASSUME NEW j \in DOMAIN s, j # i
      PROVE  \E k \in DOMAIN (a \o b) : (a \o b)[k] = s[j]
  <2>1. DOMAIN (a \o b) = 1..(Len(s) - 1)
    BY <1>5
  <2>2. CASE j < i
    BY <1>1, <1>5, <1>6, <2>1, <2>2
  <2>3. CASE j > i
    <3>1. j - 1 \in i..(Len(s) - 1) /\ (j - 1) + 1 = j
      BY <1>1, <2>3
    <3>2. (a \o b)[j - 1] = s[j]
      BY <1>5, <3>1
    <3>3. j - 1 \in DOMAIN (a \o b)
      BY <1>1, <2>1, <3>1
    <3> QED BY <3>2, <3>3
  <2> QED BY <1>1, <1>6, <2>2, <2>3
<1> QED BY <1>4, <1>5, <1>6

LEMMA DeleteInv ==
  ASSUME ProxyInv, NEW c \in Config, Delete(c)
  PROVE  ProxyInv'
<1> DEFINE i == CHOOSE i \in DOMAIN configs : configs[i].id = c
<1>1. /\ configs' = RemoveAt(configs, i) /\ c \in Ids
      /\ req' = [r \in Request |-> [req[r] EXCEPT !.kept = @ \ {c}]]
      /\ UNCHANGED <<now, quota, limiter, lastReset, started, faults, charged, calls>>
  BY DEF Delete
<1>2. configs \in Seq(Row) /\ req \in [Request -> RequestType]
  BY DEF ProxyInv, TypeOK, RequestType
<1>3. i \in DOMAIN configs /\ configs[i].id = c
  BY <1>1 DEF Ids
<1> HIDE DEF i
<1>4. configs' \in Seq(Row)
  BY <1>1, <1>2, <1>3, RemoveAtRest
<1>5. Ids \ {c} \subseteq Ids'
  <2> SUFFICES ASSUME NEW x \in Ids, x # c
               PROVE  \E k \in DOMAIN configs' : configs'[k].id = x
    BY DEF Ids
  <2>1. PICK j \in DOMAIN configs : configs[j].id = x
    BY DEF Ids
  <2>2. j # i
    BY <1>3, <2>1
  <2>3. PICK k \in DOMAIN configs' : configs'[k] = configs[j]
    BY <1>1, <1>2, <1>3, <2>2, RemoveAtRest
  <2> QED BY <2>1, <2>3
<1>6. /\ req' \in [Request -> RequestType]
      /\ \A r \in Request : /\ req'[r].at = req[r].at /\ req'[r].since = req[r].since
                            /\ req'[r].kept = req[r].kept \ {c}
  BY <1>1, <1>2 DEF RequestType
<1> QED BY <1>1, <1>4, <1>5, <1>6, ConfigStep

-----------------------------------------------------------------------------
(***************************************************************************)
(* Steps of a request up to the limiter.                                   *)
(***************************************************************************)
\* A step of a request that changes nothing else.
LEMMA RequestOnly ==
  ASSUME ProxyInv, NEW r \in Request, NEW x \in RequestType, Becomes(r, x),
         UNCHANGED <<now, tables, limiter, lastReset, faults, charged, calls>>,
         started' \in 0..MaxRequests,
         x.kept # {} => x.at = "list" /\ x.kept \subseteq Ids,
         x.at # "charge"
  PROVE  ProxyInv'
<1>1. /\ req' \in [Request -> [at : Stage, since : 0..now', kept : SUBSET Config]]
      /\ KeyInv' /\ CacheInv' /\ ResetWithinTwoDays'
  BY RequestParts
<1>2. /\ UNCHANGED <<now, configs, quota, lastReset, faults, charged, calls>>
      /\ UNCHANGED <<now, limiter>>
      /\ window' = window /\ admitted' = admitted /\ waved' = waved
  BY DEF limiter, tables
<1>3. TypeOK'
  BY <1>1, <1>2 DEF ProxyInv, TypeOK
<1>4. LimitInv' /\ ChargeInv'
  BY <1>2, SameLimits, SameCharges DEF ProxyInv
<1> QED BY <1>1, <1>3, <1>4 DEF ProxyInv

\* A request starts, a job or a proxy request.
LEMMA StartInv ==
  ASSUME ProxyInv, NEW r \in Request, Proxy(r) \/ HandleTask(r)
  PROVE  ProxyInv'
<1>1. now \in Nat /\ started' \in 0..MaxRequests /\ req[r] = Idle
  BY ProxyAssumption DEF Proxy, HandleTask, Starts, ProxyInv, TypeOK, Time
<1>2. UNCHANGED <<now, tables, limiter, lastReset, faults, charged, calls>>
  BY DEF Proxy, HandleTask
<1>3. \E x \in RequestType : Becomes(r, x) /\ x.kept = {} /\ x.at # "charge"
  <2>1. PICK x \in {[Idle EXCEPT !.at = "default"], [[Idle EXCEPT !.at = "tokens"] EXCEPT !.since = now]} :
          Becomes(r, x)
    BY <1>1 DEF Proxy, HandleTask, resetIfNeeded, At
  <2>2. \/ x = [at |-> "default", since |-> 0, kept |-> {}]
        \/ x = [at |-> "tokens", since |-> now, kept |-> {}]
    BY <2>1 DEF Idle
  <2>3. {"default", "tokens"} \subseteq Stage /\ {0, now} \subseteq 0..now /\ {} \in SUBSET Config
    BY <1>1 DEF Stage
  <2>4. x \in RequestType /\ x.kept = {} /\ x.at # "charge"
    BY <1>1, <2>2, <2>3, EarlyType
  <2> QED BY <2>1, <2>4
<1> QED BY <1>1, <1>2, <1>3, RequestOnly

\* The configuration is looked for.
LEMMA LookupInv ==
  ASSUME ProxyInv, NEW r \in Request, GetDefaultByUser(r) \/ ListByUser(r)
  PROVE  ProxyInv'
<1>1. now \in Nat /\ started \in 0..MaxRequests /\ req[r] \in RequestType /\ configs \in Seq(Row)
  BY DEF ProxyInv, TypeOK, Time, RequestType
<1>2. UNCHANGED <<now, tables, limiter, lastReset, started, faults, charged, calls>>
  BY DEF GetDefaultByUser, ListByUser
<1>3. Readable \subseteq Ids /\ Ids \subseteq Config
  <2>1. \A i \in DOMAIN configs : configs[i] \in Row
    BY <1>1
  <2>2. \A i \in DOMAIN configs : configs[i].id \in Config
    BY <2>1 DEF Row
  <2>3. Ids \subseteq Config
    BY <2>2 DEF Ids
  <2>4. Readable \subseteq Ids
    BY Zenon DEF Readable, Ids
  <2> QED BY <2>3, <2>4
<1> DEFINE allow == [Idle EXCEPT !.at = "allow"]
           list == [at |-> "list", since |-> 0, kept |-> Readable]
<1>4. /\ allow \in RequestType /\ allow.at = "allow" /\ allow.kept = {}
      /\ list \in RequestType /\ list.at = "list" /\ list.kept = Readable
      /\ Idle \in RequestType /\ Idle.at = "idle" /\ Idle.kept = {}
  <2>a. allow = [at |-> "allow", since |-> 0, kept |-> {}]
    BY DEF Idle
  <2>1. list = [at |-> "list", since |-> 0, kept |-> Readable]
    OBVIOUS
  <2>2. "allow" \in Stage /\ "list" \in Stage /\ 0 \in 0..now /\ Readable \in SUBSET Config
    BY <1>1, <1>3 DEF Stage
  <2> HIDE DEF allow, list
  <2>3. allow \in RequestType /\ allow.at = "allow" /\ allow.kept = {}
    <3>1. allow.at = "allow" /\ allow.kept = {}
      BY <2>a
    <3>2. allow \in RequestType
      BY <1>1, <2>a, <2>2 DEF RequestType
    <3> QED BY <3>1, <3>2
  <2>4. list \in RequestType /\ list.at = "list" /\ list.kept = Readable
    BY <1>1, <2>1, <2>2, EarlyType
  <2> QED BY <1>1, <2>3, <2>4, IdleType
<1>5. CASE GetDefaultByUser(r)
  <2>1. PICK x \in {allow, list, Idle} : Becomes(r, x)
    BY <1>5 DEF GetDefaultByUser, With, Ends
  <2>2. started' \in 0..MaxRequests
    BY <1>1, <1>2
  <2> HIDE DEF allow, list
  <2>3. /\ x \in RequestType /\ x.at # "charge"
        /\ x.kept # {} => x.at = "list" /\ x.kept \subseteq Ids
    BY <1>3, <1>4, <2>1
  <2>4. UNCHANGED <<now, tables, limiter, lastReset, faults, charged, calls>>
    BY <1>2
  <2> QED BY <2>1, <2>2, <2>3, <2>4, RequestOnly
<1>6. CASE ListByUser(r)
  <2>1. \E x \in {allow, Idle, [req[r] EXCEPT !.at = "allow"]} :
          Becomes(r, x) /\ (x = [req[r] EXCEPT !.at = "allow"] => configs = <<>> \/ x = allow)
    BY <1>6 DEF ListByUser, With, Ends, At
  <2>2. PICK x \in {allow, Idle, [req[r] EXCEPT !.at = "allow"]} :
          Becomes(r, x) /\ (x = [req[r] EXCEPT !.at = "allow"] => configs = <<>> \/ x = allow)
    BY <2>1
  <2>3. configs = <<>> => req[r].kept = {}
    BY <1>1 DEF ProxyInv, KeyInv, Ids
  <2>4. [req[r] EXCEPT !.at = "allow"] \in RequestType
    BY <1>1 DEF RequestType, Stage
  <2>5. [req[r] EXCEPT !.at = "allow"].at = "allow" /\ [req[r] EXCEPT !.at = "allow"].kept = req[r].kept
    BY <1>1 DEF RequestType
  <2> HIDE DEF allow, list
  <2>6. x \in RequestType /\ x.at # "charge" /\ x.kept = {}
    BY <1>4, <2>2, <2>3, <2>4, <2>5
  <2>7. started' \in 0..MaxRequests /\ UNCHANGED <<now, tables, limiter, lastReset, faults, charged, calls>>
    BY <1>1, <1>2
  <2> QED BY <2>2, <2>6, <2>7, RequestOnly
<1> QED BY <1>5, <1>6

-----------------------------------------------------------------------------
(***************************************************************************)
(* The limiters.                                                           *)
(***************************************************************************)
\* The call that is being made.
Call(k) == [call |-> calls[k], at |-> now]

LEMMA CallFresh ==
  ASSUME ProxyInv, NEW k \in Counter
  PROVE  /\ Call(k) \in Entry /\ Call(k).call = calls[k] /\ Call(k).at = now /\ InWindow(Call(k).at)
         /\ calls[k] \in Nat /\ now \in Nat
         /\ \A w : Past(w, k) => Call(k) \notin w
<1>1. calls[k] \in Nat /\ now \in Time /\ now \in Nat /\ DayLength \in Nat \ {0}
  BY ProxyAssumption DEF ProxyInv, TypeOK, Time
<1>2. Call(k) \in Entry /\ Call(k).call = calls[k] /\ Call(k).at = now
  BY <1>1 DEF Call, Entry
<1>3. InWindow(Call(k).at)
  BY <1>1, <1>2 DEF InWindow
<1>4. \A w : Past(w, k) => Call(k) \notin w
  BY <1>1, <1>2 DEF Past
<1> QED BY <1>1, <1>2, <1>3, <1>4

\* A limiter that counts less than its limit has let less than it through.
LEMMA RoomLeft ==
  ASSUME NEW p \in Process, LimitOf(p), Count(window[p]) < Limit
  PROVE  Cardinality(admitted[p] \ waved[p]) + 1 <= Limit
<1>1. IsFiniteSet(Kept(window[p]))
  <2>1. Kept(window[p]) \in SUBSET window[p]
    BY DEF Kept
  <2> QED BY <2>1, FS_Subset DEF LimitOf, Past
<1>2. admitted[p] \ waved[p] \in SUBSET Kept(window[p])
  BY DEF LimitOf, Live, Kept
<1>3. Cardinality(admitted[p] \ waved[p]) <= Cardinality(Kept(window[p]))
  BY <1>1, <1>2, FS_Subset
<1>4. Cardinality(Kept(window[p])) \in Nat /\ Cardinality(admitted[p] \ waved[p]) \in Nat
  BY <1>1, <1>2, FS_Subset, FS_CardinalityType
<1>5. Limit \in Nat
  BY ProxyAssumption
<1> QED BY <1>3, <1>4, <1>5 DEF Count

\* A call: what the limiter has recorded by then, has let through, and has let
\* through because Redis did not answer.
Answers(p, w, a, v) ==
  /\ w \in {window[p], Kept(window[p]), Kept(window[p]) \union {Call(p)}}
  /\ \/ a = admitted[p] /\ v = waved[p]
     \/ /\ a = admitted[p] \union {Call(p)} /\ v = waved[p]
        /\ w = Kept(window[p]) \union {Call(p)} /\ Count(window[p]) < Limit
     \/ /\ a = admitted[p] \union {Call(p)} /\ v = waved[p] \union {Call(p)}
        /\ p \notin InMemory

LimiterType == {window, admitted, waved} \subseteq [Process -> SUBSET Entry]

\* A call of one limiter, whatever it records and answers.
LEMMA LimiterStep ==
  ASSUME ProxyInv, NEW p \in Process, NEW w, NEW a, NEW v, Answers(p, w, a, v),
         window' = [window EXCEPT ![p] = w], admitted' = [admitted EXCEPT ![p] = a],
         waved' = [waved EXCEPT ![p] = v], Counted(p), now' = now
  PROVE  /\ LimitInv' /\ calls' \in [Counter -> Nat] /\ calls'["quota"] = calls["quota"]
         /\ LimiterType'
<1> DEFINE e == Call(p)
<1>0. /\ w \in {window[p], Kept(window[p]), Kept(window[p]) \union {Call(p)}}
      /\ \/ a = admitted[p] /\ v = waved[p]
         \/ /\ a = admitted[p] \union {Call(p)} /\ v = waved[p]
            /\ w = Kept(window[p]) \union {Call(p)} /\ Count(window[p]) < Limit
         \/ /\ a = admitted[p] \union {Call(p)} /\ v = waved[p] \union {Call(p)}
            /\ p \notin InMemory
  BY DEF Answers
<1>1. p \in Counter /\ "quota" \in Counter /\ p # "quota" /\ Process \subseteq Counter
  BY ProcessFact
<1>2. /\ e \in Entry /\ e.call = calls[p] /\ e.at = now /\ InWindow(e.at)
      /\ calls[p] \in Nat /\ now \in Nat
      /\ \A x : Past(x, p) => e \notin x
  BY <1>1, CallFresh
<1>3. /\ calls' \in [Counter -> Nat] /\ calls'[p] = calls[p] + 1
      /\ \A k \in Counter : k # p => calls'[k] = calls[k]
  BY <1>1, <1>2 DEF Counted, ProxyInv, TypeOK
<1>4. /\ window \in [Process -> SUBSET Entry] /\ admitted \in [Process -> SUBSET Entry]
      /\ waved \in [Process -> SUBSET Entry]
  BY DEF ProxyInv, TypeOK
<1>5. LimitOf(p)
  BY DEF ProxyInv, LimitInv
<1> HIDE DEF e
<1>6. Kept(window[p]) \subseteq window[p]
  BY DEF Kept
<1>7. w \in SUBSET Entry /\ a \in SUBSET Entry /\ v \in SUBSET Entry
  BY <1>0, <1>2, <1>4, <1>6 DEF e
<1>8. /\ window'[p] = w /\ admitted'[p] = a /\ waved'[p] = v
      /\ window' \in [Process -> SUBSET Entry] /\ admitted' \in [Process -> SUBSET Entry]
      /\ waved' \in [Process -> SUBSET Entry]
      /\ \A q \in Process : q # p => /\ window'[q] = window[q] /\ admitted'[q] = admitted[q]
                                     /\ waved'[q] = waved[q]
  BY <1>4, <1>7
<1>9. IsFiniteSet(w) /\ IsFiniteSet(a) /\ IsFiniteSet(v)
  <2>1. IsFiniteSet(window[p]) /\ IsFiniteSet(admitted[p]) /\ IsFiniteSet(waved[p])
    BY <1>5 DEF LimitOf, Past
  <2>2. IsFiniteSet(Kept(window[p]))
    BY <1>6, <2>1, FS_Subset
  <2>3. \A x : IsFiniteSet(x) => IsFiniteSet(x \union {Call(p)})
    BY FS_AddElement
  <2> QED BY <1>0, <2>1, <2>2, <2>3
<1>10. /\ w \subseteq window[p] \union {e} /\ a \subseteq admitted[p] \union {e}
       /\ v \subseteq waved[p] \union {e}
  BY <1>0, <1>6 DEF e
<1>11. \A x \in w \union a \union v : x.call < calls[p] + 1 /\ x.at <= now
  <2>1. \A x \in window[p] \union admitted[p] \union waved[p] : x \in Entry /\ x.call < calls[p] /\ x.at <= now
    BY <1>4, <1>5 DEF LimitOf, Past
  <2>2. \A x \in Entry : x.call \in Nat
    BY DEF Entry
  <2> QED BY <1>2, <1>10, <2>1, <2>2
<1>12. \A x \in a \union v : InWindow(x.at)
  BY <1>2, <1>5, <1>10 DEF LimitOf, Live
<1>13. a \ v \subseteq w
  BY <1>0, <1>2, <1>5, <1>12 DEF LimitOf, Kept, Live, e
<1>14. Cardinality(a \ v) <= Limit
  <2>1. e \notin admitted[p] /\ e \notin waved[p] /\ IsFiniteSet(admitted[p] \ waved[p])
    BY <1>2, <1>5, FS_Difference DEF LimitOf, Past
  <2>2. CASE a \ v = admitted[p] \ waved[p]
    BY <1>5, <2>2 DEF LimitOf
  <2>3. CASE a = admitted[p] \union {e} /\ v = waved[p] /\ Count(window[p]) < Limit
    <3>1. a \ v = (admitted[p] \ waved[p]) \union {e} /\ e \notin admitted[p] \ waved[p]
      BY <2>1, <2>3
    <3>2. Cardinality(a \ v) = Cardinality(admitted[p] \ waved[p]) + 1
      BY <2>1, <3>1, FS_AddElement
    <3> QED BY <1>5, <2>3, <3>2, RoomLeft
  <2>4. CASE a = admitted[p] \union {e} /\ v = waved[p] \union {e}
    <3>1. a \ v = admitted[p] \ waved[p]
      BY <2>1, <2>4
    <3> QED BY <2>2, <3>1
  <2> QED BY <1>0, <2>2, <2>3, <2>4 DEF e
<1>15. p \in InMemory => v = {}
  BY <1>0, <1>5 DEF LimitOf
<1>16. LimitInv'
  <2> SUFFICES ASSUME NEW q \in Process PROVE LimitOf(q)'
    BY DEF LimitInv
  <2>1. CASE q = p
    <3>1. \A x \in window'[p] \union admitted'[p] \union waved'[p] : x.call < calls'[p] /\ x.at <= now'
      BY <1>3, <1>8, <1>11
    <3>2. Past(window[p], p)' /\ Past(admitted[p], p)' /\ Past(waved[p], p)'
      BY <1>8, <1>9, <3>1 DEF Past
    <3>3. Live(admitted[p])' /\ Live(waved[p])'
      BY <1>8, <1>12 DEF Live, InWindow
    <3> QED BY <1>8, <1>13, <1>14, <1>15, <2>1, <3>2, <3>3 DEF LimitOf
  <2>2. CASE q # p
    <3>1. calls'[q] = calls[q]
      BY <1>1, <1>3, <2>2
    <3>2. LimitOf(q)
      BY DEF ProxyInv, LimitInv
    <3> QED BY <1>8, <2>2, <3>1, <3>2 DEF LimitOf, Past, Live, InWindow
  <2> QED BY <2>1, <2>2
<1> QED BY <1>1, <1>3, <1>8, <1>16 DEF LimiterType

\* A request that is let through is charged with the present time, to a quota
\* whose day is in the cache, or after a reset.
LEMMA AdmitRequest ==
  ASSUME ProxyInv, NEW r \in Request, req[r].at = "allow",
         resetIfNeeded(r, "reset", [At(r, "charge") EXCEPT !.since = now])
  PROVE  \E x \in RequestType :
           /\ Becomes(r, x) /\ x.kept = {}
           /\ x.at = "charge" /\ quota # None => quota.resetAt > x.since - 2 * DayLength
<1>1. /\ now \in Nat /\ req[r] \in RequestType /\ DayLength \in Nat \ {0}
      /\ quota # None => quota.resetAt \in Nat
  BY ProxyAssumption, RequestTyped, QuotaType DEF ProxyInv
<1>a. req[r].kept = {}
  BY DEF ProxyInv, KeyInv
<1> DEFINE p == ProcessOf(r)
           charge == [[req[r] EXCEPT !.at = "charge"] EXCEPT !.since = now]
           reset == [[req[r] EXCEPT !.at = "reset"] EXCEPT !.since = now]
<1>2. /\ charge \in RequestType /\ charge.since = now /\ charge.kept = req[r].kept
      /\ reset \in RequestType /\ reset.at = "reset" /\ reset.kept = req[r].kept
  <2>1. "charge" \in Stage /\ "reset" \in Stage /\ now \in 0..now
    BY <1>1 DEF Stage
  <2>2. charge = [[req[r] EXCEPT !.at = "charge"] EXCEPT !.since = now]
    OBVIOUS
  <2>5. reset = [[req[r] EXCEPT !.at = "reset"] EXCEPT !.since = now]
    OBVIOUS
  <2> HIDE DEF charge, reset
  <2>3. charge \in RequestType /\ charge.since = now /\ charge.kept = req[r].kept
    BY <1>1, <2>1, <2>2 DEF RequestType
  <2>4. reset \in RequestType /\ reset.at = "reset" /\ reset.kept = req[r].kept
    BY <1>1, <2>1, <2>5 DEF RequestType
  <2> QED BY <2>3, <2>4
<1>3. IF lastReset[p] = Today(now) THEN Becomes(r, charge) ELSE Becomes(r, reset)
  BY DEF resetIfNeeded, At
<1>4. ASSUME lastReset[p] = Today(now), quota # None PROVE quota.resetAt > now - 2 * DayLength
  <2>1. Today(now) \in Nat /\ now < Today(now) * DayLength + DayLength
    BY <1>1, DayBounds
  <2>2. quota.resetAt >= Today(now) * DayLength - DayLength
    BY <1>4, <2>1, ProcessFact DEF ProxyInv, CacheInv
  <2> DEFINE d == Today(now) * DayLength
  <2>3. d \in Nat
    BY <1>1, <2>1
  <2> HIDE DEF d
  <2> QED BY <1>1, <1>4, <2>1, <2>2, <2>3 DEF d
<1> HIDE DEF charge, reset
<1>5. CASE lastReset[p] = Today(now)
  BY <1>a, <1>2, <1>3, <1>4, <1>5
<1>6. CASE lastReset[p] # Today(now)
  BY <1>a, <1>2, <1>3, <1>6
<1> QED BY <1>5, <1>6

\* The limiter is asked.
LEMMA AllowInv ==
  ASSUME ProxyInv, NEW r \in Request, Allow(r)
  PROVE  ProxyInv'
<1> DEFINE p == ProcessOf(r)
<1>1. /\ req[r].at = "allow" /\ Counted(p)
      /\ MemoryAllow(r, p) \/ RedisAllow(r, p) \/ RedisFails(r, p)
      /\ UNCHANGED <<now, tables, lastReset, started, charged>>
  BY DEF Allow
<1>2. p \in Process /\ p \in Counter /\ LimitOf(p)
  BY ProcessFact DEF ProxyInv, LimitInv
<1>3. /\ window \in [Process -> SUBSET Entry] /\ admitted \in [Process -> SUBSET Entry]
      /\ waved \in [Process -> SUBSET Entry] /\ now \in Nat /\ faults \in 0..MaxFaults
      /\ MaxFaults \in Nat
  BY ProxyAssumption DEF ProxyInv, TypeOK, Time
<1> HIDE DEF p
<1>4. Kept(admitted[p]) = admitted[p] /\ Kept(waved[p]) = waved[p]
  BY <1>2 DEF LimitOf, Live, Kept
<1>5. /\ Recorded(window[p], p) = Kept(window[p]) \union {Call(p)}
      /\ Recorded(admitted[p], p) = admitted[p] \union {Call(p)}
      /\ Recorded(waved[p], p) = waved[p] \union {Call(p)}
  BY <1>4 DEF Recorded, Call
<1>6. \E w, a, v :
        /\ Answers(p, w, a, v)
        /\ window' = [window EXCEPT ![p] = w] /\ admitted' = [admitted EXCEPT ![p] = a]
        /\ waved' = [waved EXCEPT ![p] = v]
  <2>1. window = [window EXCEPT ![p] = window[p]] /\ admitted = [admitted EXCEPT ![p] = admitted[p]]
        /\ waved = [waved EXCEPT ![p] = waved[p]]
    BY <1>2, <1>3
  <2>2. CASE MemoryAllow(r, p) /\ Count(window[p]) >= Limit
    <3>1. window' = [window EXCEPT ![p] = Kept(window[p])] /\ admitted' = admitted /\ waved' = waved
      BY <2>2 DEF MemoryAllow, Refuse
    <3>2. Answers(p, Kept(window[p]), admitted[p], waved[p])
      BY DEF Answers
    <3> QED BY <2>1, <3>1, <3>2
  <2>3. CASE MemoryAllow(r, p) /\ ~(Count(window[p]) >= Limit)
    <3>1. /\ window' = [window EXCEPT ![p] = Kept(window[p]) \union {Call(p)}]
          /\ admitted' = [admitted EXCEPT ![p] = admitted[p] \union {Call(p)}] /\ waved' = waved
      BY <1>5, <2>3 DEF MemoryAllow, Admit
    <3>2. Count(window[p]) < Limit
      <4>1. Kept(window[p]) \in SUBSET window[p] /\ IsFiniteSet(window[p])
        BY <1>2 DEF Kept, LimitOf, Past
      <4>2. Count(window[p]) \in Nat
        BY <4>1, FS_Subset, FS_CardinalityType DEF Count
      <4> QED BY <2>3, <4>2, ProxyAssumption
    <3>3. Answers(p, Kept(window[p]) \union {Call(p)}, admitted[p] \union {Call(p)}, waved[p])
      BY <3>2 DEF Answers
    <3> QED BY <2>1, <3>1, <3>3
  <2>4. CASE RedisAllow(r, p) /\ Count(window[p]) < Limit
    <3>1. /\ window' = [window EXCEPT ![p] = Kept(window[p]) \union {Call(p)}]
          /\ admitted' = [admitted EXCEPT ![p] = admitted[p] \union {Call(p)}] /\ waved' = waved
      BY <1>5, <2>4 DEF RedisAllow, Admit
    <3>2. Answers(p, Kept(window[p]) \union {Call(p)}, admitted[p] \union {Call(p)}, waved[p])
      BY <2>4 DEF Answers
    <3> QED BY <2>1, <3>1, <3>2
  <2>5. CASE RedisAllow(r, p) /\ ~(Count(window[p]) < Limit)
    <3>1. /\ window' = [window EXCEPT ![p] = Kept(window[p]) \union {Call(p)}]
          /\ admitted' = admitted /\ waved' = waved
      BY <1>5, <2>5 DEF RedisAllow, Refuse
    <3>2. Answers(p, Kept(window[p]) \union {Call(p)}, admitted[p], waved[p])
      BY DEF Answers
    <3> QED BY <2>1, <3>1, <3>2
  <2>6. CASE RedisFails(r, p)
    <3>1. /\ window' = window \/ window' = [window EXCEPT ![p] = Kept(window[p]) \union {Call(p)}]
          /\ admitted' = [admitted EXCEPT ![p] = admitted[p] \union {Call(p)}]
          /\ waved' = [waved EXCEPT ![p] = waved[p] \union {Call(p)}]
          /\ p \notin InMemory
      BY <1>5, <2>6 DEF RedisFails, Admit
    <3>2. /\ Answers(p, window[p], admitted[p] \union {Call(p)}, waved[p] \union {Call(p)})
          /\ Answers(p, Kept(window[p]) \union {Call(p)}, admitted[p] \union {Call(p)}, waved[p] \union {Call(p)})
      BY <3>1 DEF Answers
    <3>3. CASE window' = window
      BY <2>1, <3>1, <3>2, <3>3
    <3>4. CASE window' = [window EXCEPT ![p] = Kept(window[p]) \union {Call(p)}]
      BY <3>1, <3>2, <3>4
    <3> QED BY <3>1, <3>3, <3>4
  <2> QED BY <1>1, <2>2, <2>3, <2>4, <2>5, <2>6
<1>7. PICK w, a, v :
        /\ Answers(p, w, a, v)
        /\ window' = [window EXCEPT ![p] = w] /\ admitted' = [admitted EXCEPT ![p] = a]
        /\ waved' = [waved EXCEPT ![p] = v]
  BY <1>6
<1>8. /\ LimitInv' /\ calls' \in [Counter -> Nat] /\ calls'["quota"] = calls["quota"]
      /\ LimiterType'
  <2>1. p \in Process /\ Counted(p) /\ now' = now
    BY <1>1, <1>2
  <2> QED BY <1>7, <2>1, LimiterStep
<1>9. \E x \in RequestType :
           /\ Becomes(r, x) /\ x.kept = {}
           /\ x.at = "charge" /\ quota # None => quota.resetAt > x.since - 2 * DayLength
  <2>1. Ends(r) \/ resetIfNeeded(r, "reset", [At(r, "charge") EXCEPT !.since = now])
    BY <1>1 DEF MemoryAllow, RedisAllow, RedisFails, Admit, Refuse
  <2>2. CASE Ends(r)
    BY <1>3, <2>2, IdleType DEF Ends
  <2> QED BY <1>1, <2>1, <2>2, AdmitRequest
<1>10. /\ req' \in [Request -> [at : Stage, since : 0..now', kept : SUBSET Config]]
       /\ KeyInv' /\ CacheInv' /\ ResetWithinTwoDays'
  <2>1. UNCHANGED <<now, tables, lastReset>>
    BY <1>1
  <2> QED BY <1>9, <2>1, RequestParts
<1>11. faults' \in 0..MaxFaults
  BY <1>1, <1>3 DEF MemoryAllow, RedisAllow, RedisFails
<1>12. UNCHANGED <<now, configs, quota, lastReset, started, charged>>
  BY <1>1 DEF tables
<1>13. TypeOK'
  BY <1>8, <1>10, <1>11, <1>12 DEF ProxyInv, TypeOK, LimiterType
<1>14. ChargeInv'
  BY <1>8, <1>12, SameCharges DEF ProxyInv
<1> QED BY <1>8, <1>10, <1>13, <1>14 DEF ProxyInv

\* An evicted window has no call that counts, and so the limiter let none through.
LEMMA EvictInv ==
  ASSUME ProxyInv, NEW p \in Process, evictLocked(p)
  PROVE  ProxyInv'
<1>1. /\ window' = [window EXCEPT ![p] = {}]
      /\ \A e \in window[p] : ~InWindow(e.at)
      /\ UNCHANGED <<now, configs, quota, admitted, waved, lastReset, req, started, faults, charged, calls>>
  BY DEF evictLocked, isWindowExpired, tables
<1>2. /\ window' \in [Process -> SUBSET Entry] /\ window'[p] = {}
      /\ \A q \in Process : q # p => window'[q] = window[q]
  BY <1>1 DEF ProxyInv, TypeOK
<1>3. LimitOf(p)
  BY DEF ProxyInv, LimitInv
<1>4. admitted[p] \ waved[p] = {}
  BY <1>1, <1>3 DEF LimitOf, Live
<1>5. TypeOK'
  BY <1>1, <1>2 DEF ProxyInv, TypeOK
<1>6. LimitInv'
  <2> SUFFICES ASSUME NEW q \in Process PROVE LimitOf(q)'
    BY DEF LimitInv
  <2>1. LimitOf(q)
    BY DEF ProxyInv, LimitInv
  <2>2. CASE q = p
    <3>1. Past(window[q], q)'
      BY <1>2, <2>2, FS_EmptySet DEF Past
    <3> QED BY <1>1, <1>4, <2>1, <2>2, <3>1 DEF LimitOf, Past, Live, InWindow
  <2>3. CASE q # p
    BY <1>1, <1>2, <2>1, <2>3 DEF LimitOf, Past, Live, InWindow
  <2> QED BY <2>2, <2>3
<1>7. ChargeInv'
  BY <1>1, SameCharges DEF ProxyInv
<1>8. KeyInv' /\ CacheInv' /\ ResetWithinTwoDays'
  BY <1>1 DEF ProxyInv, KeyInv, Ids, CacheInv, ResetWithinTwoDays
<1> QED BY <1>5, <1>6, <1>7, <1>8 DEF ProxyInv

-----------------------------------------------------------------------------
(***************************************************************************)
(* The quota.                                                              *)
(***************************************************************************)
\* A reset that is due finds no charge of an earlier reset within the day.
LEMMA ResetCharges ==
  ASSUME ProxyInv, now' = now, charged' = charged, calls' = calls,
         quota' = IF Due THEN [used |-> 0, resetAt |-> now] ELSE quota
  PROVE  /\ quota' \in [used : 0..DailyLimit, resetAt : 0..now] \union {None}
         /\ (quota = None) = (quota' = None)
         /\ quota # None => quota'.resetAt \in Nat /\ quota'.resetAt >= quota.resetAt
                              /\ quota'.resetAt >= now - DayLength
         /\ ChargeInv'
<1>1. /\ TypeOK /\ ChargeInv /\ now \in Nat /\ DayLength \in Nat \ {0} /\ DailyLimit \in Nat
      /\ None \notin [used : Nat, resetAt : Nat]
  BY ProxyAssumption DEF ProxyInv, TypeOK, Time
<1>2. CASE ~Due
  <2>1. quota' = quota
    BY <1>2
  <2>2. ChargeInv'
    BY <1>1, <2>1, SameCharges
  <2>3. quota # None => quota.resetAt \in Nat /\ quota.resetAt >= now - DayLength
    BY <1>1, <1>2, QuotaType DEF Due
  <2> QED BY <1>1, <2>1, <2>2, <2>3 DEF TypeOK
<1>3. CASE Due
  <2>1. /\ quota # None /\ quota.resetAt < now - DayLength
        /\ quota' = [used |-> 0, resetAt |-> now]
    BY <1>3 DEF Due
  <2>2. quota.used \in Nat /\ quota.used <= DailyLimit /\ quota.resetAt \in Nat
    BY <1>1, <2>1, QuotaType
  <2>3. /\ quota' \in [used : 0..DailyLimit, resetAt : 0..now] /\ quota' # None
        /\ quota'.used = 0 /\ quota'.resetAt = now
    <3>1. quota' \in [used : 0..DailyLimit, resetAt : 0..now] /\ quota' \in [used : Nat, resetAt : Nat]
      BY <1>1, <2>1
    <3> QED BY <1>1, <2>1, <3>1
  <2>4. PICK old \in SUBSET charged : Split(old)
    BY <1>1, <2>1 DEF ChargeInv
  <2>5. old = {}
    <3>1. \A e \in old : e.at \in Nat /\ e.at <= quota.resetAt /\ e.at > now - DayLength
      BY <1>1, <2>4 DEF Split, ChargeInv, Live, InWindow, TypeOK, Entry, Time
    <3> QED BY <1>1, <2>1, <2>2, <3>1
  <2>6. charged \ old = charged
    BY <2>5
  <2>7. IsFiniteSet(charged) /\ Cardinality(charged) \in Nat /\ Cardinality(charged) <= quota.used
    BY <1>1, <2>4, <2>6, FS_CardinalityType DEF Split, ChargeInv, Past
  <2>8. Cardinality(charged) <= DailyLimit
    BY <1>1, <2>2, <2>7
  <2>9. charged \ charged = {} /\ Cardinality({}) = 0
    BY FS_EmptySet
  <2>10. \A e \in charged : e.at <= now
    BY <1>1 DEF ChargeInv, Past
  <2>11. Split(charged)'
    BY <2>3, <2>8, <2>9, <2>10 DEF Split
  <2>12. Past(charged, "quota")' /\ Live(charged)'
    BY <1>1 DEF ChargeInv, Past, Live, InWindow
  <2>13. ChargeInv'
    BY <2>3, <2>11, <2>12 DEF ChargeInv
  <2> QED BY <1>1, <2>1, <2>2, <2>3, <2>13
<1> QED BY <1>2, <1>3

\* The row is reset if that is due, or the statement fails; the request goes on.
LEMMA ResetStep ==
  ASSUME ProxyInv, NEW r \in Request, NEW x \in RequestType, NEW y \in RequestType,
         x.kept = {}, y.kept = {}, x.at = "charge" => x.since = req[r].since,
         y.at = "charge" => y.since = 0, ResetIfNeeded(r, x, y)
  PROVE  ProxyInv'
<1>1. /\ TypeOK /\ now \in Nat /\ DayLength \in Nat \ {0} /\ req[r].since \in 0..now
      /\ faults \in 0..MaxFaults /\ MaxFaults \in Nat
  BY ProxyAssumption, RequestTyped DEF ProxyInv, TypeOK
<1>2. /\ UNCHANGED <<now, configs, started, charged, calls>> /\ UNCHANGED <<now, limiter>>
      /\ window' = window /\ admitted' = admitted /\ waved' = waved
  BY DEF ResetIfNeeded, limiter
<1>3. LimitInv'
  BY <1>2, SameLimits DEF ProxyInv
<1>4. CASE /\ quota' = IF Due THEN [used |-> 0, resetAt |-> now] ELSE quota
           /\ lastReset' = [lastReset EXCEPT ![ProcessOf(r)] = Today(req[r].since)]
           /\ Becomes(r, x) /\ faults' = faults
  <2> DEFINE p == ProcessOf(r)
             d == Today(req[r].since)
  <2>1. /\ quota' \in [used : 0..DailyLimit, resetAt : 0..now] \union {None}
        /\ (quota = None) = (quota' = None)
        /\ quota # None => quota'.resetAt \in Nat /\ quota'.resetAt >= quota.resetAt
                             /\ quota'.resetAt >= now - DayLength
        /\ ChargeInv'
    <3>1. quota' = (IF Due THEN [used |-> 0, resetAt |-> now] ELSE quota) /\ now' = now
          /\ charged' = charged /\ calls' = calls
      BY <1>2, <1>4
    <3> QED BY <3>1, ResetCharges
  <2>2. /\ d \in Nat /\ d * DayLength <= req[r].since /\ d <= Today(now) /\ Today(now) \in Nat
    BY <1>1, DayBounds, DaysOrdered
  <2>3. p \in Process /\ lastReset \in [Process -> -1..Today(now)]
    BY <1>1, ProcessFact DEF TypeOK
  <2> HIDE DEF p, d
  <2>4. /\ lastReset' \in [Process -> -1..Today(now)] /\ lastReset'[p] = d
        /\ \A q \in Process : q # p => lastReset'[q] = lastReset[q]
    BY <1>4, <2>2, <2>3 DEF p, d
  <2>5. /\ req' \in [Request -> [at : Stage, since : 0..now', kept : SUBSET Config]]
        /\ req'[r] = x /\ \A q \in Request : q # r => req'[q] = req[q]
    BY <1>2, <1>4, RequestStep
  <2>6. TypeOK'
    BY <1>1, <1>2, <1>4, <2>1, <2>4, <2>5 DEF TypeOK
  <2>7. KeyInv'
    BY <1>2, <2>5 DEF ProxyInv, KeyInv, Ids
  <2>8. CacheInv'
    <3> SUFFICES ASSUME quota' # None, NEW q \in Process, lastReset'[q] # -1
                 PROVE  quota'.resetAt >= lastReset'[q] * DayLength - DayLength
      BY DEF CacheInv
    <3>1. quota # None /\ quota.resetAt \in Nat
      BY <1>1, <2>1, QuotaType
    <3>2. CASE q = p
      <4> DEFINE k == d * DayLength
      <4>1. k \in Nat /\ k <= req[r].since
        BY <1>1, <2>2
      <4> HIDE DEF k
      <4>2. quota'.resetAt >= k - DayLength
        BY <1>1, <2>1, <3>1, <4>1
      <4> QED BY <2>4, <3>2, <4>2 DEF k
    <3>3. CASE q # p
      <4>1. lastReset'[q] = lastReset[q] /\ lastReset[q] \in Int
        BY <1>1, <2>2, <2>3, <2>4, <3>3
      <4>2. quota.resetAt >= lastReset[q] * DayLength - DayLength
        BY <3>1, <4>1 DEF ProxyInv, CacheInv
      <4> DEFINE k == lastReset[q] * DayLength - DayLength
      <4>3. k \in Int
        BY <1>1, <4>1
      <4> HIDE DEF k
      <4>4. quota'.resetAt >= k
        BY <2>1, <3>1, <4>2, <4>3 DEF k
      <4> QED BY <4>1, <4>4 DEF k
    <3> QED BY <3>2, <3>3
  <2>9. ResetWithinTwoDays'
    <3> SUFFICES ASSUME NEW q \in Request, req'[q].at = "charge", quota' # None
                 PROVE  quota'.resetAt > req'[q].since - 2 * DayLength
      BY DEF ResetWithinTwoDays
    <3>1. quota # None /\ quota.resetAt \in Nat
      BY <1>1, <2>1, QuotaType
    <3>2. CASE q = r
      BY <1>1, <2>1, <2>5, <3>1, <3>2
    <3>3. CASE q # r
      <4>1. req'[q] = req[q] /\ req[q].since \in Nat /\ quota.resetAt > req[q].since - 2 * DayLength
        BY <1>1, <2>5, <3>1, <3>3, RequestTyped DEF ProxyInv, ResetWithinTwoDays
      <4> QED BY <1>1, <2>1, <3>1, <4>1
    <3> QED BY <3>2, <3>3
  <2> QED BY <1>3, <2>1, <2>6, <2>7, <2>8, <2>9 DEF ProxyInv
<1>5. CASE faults < MaxFaults /\ ResetFails(r) /\ Becomes(r, y)
  <2>1. faults' = faults + 1 /\ lastReset' = lastReset /\ quota' = quota
    BY <1>5 DEF ResetFails
  <2>2. y.at = "charge" /\ quota # None => quota.resetAt > y.since - 2 * DayLength
    BY <1>1, QuotaType
  <2>3. /\ req' \in [Request -> [at : Stage, since : 0..now', kept : SUBSET Config]]
        /\ KeyInv' /\ CacheInv' /\ ResetWithinTwoDays'
    <3>1. UNCHANGED <<now, tables, lastReset>>
      BY <1>2, <2>1 DEF tables
    <3> QED BY <1>5, <2>2, <3>1, RequestParts
  <2>4. TypeOK'
    BY <1>1, <1>2, <1>5, <2>1, <2>3 DEF TypeOK
  <2>5. ChargeInv'
    BY <1>2, <2>1, SameCharges DEF ProxyInv
  <2> QED BY <1>3, <2>3, <2>4, <2>5 DEF ProxyInv
<1> QED BY <1>4, <1>5 DEF ResetIfNeeded

LEMMA GetQuotaInv ==
  ASSUME ProxyInv, NEW r \in Request, GetQuota(r)
  PROVE  ProxyInv'
<1> DEFINE x == [Idle EXCEPT !.at = "default"]
<1>1. ResetIfNeeded(r, x, x)
  BY DEF GetQuota
<1>2. now \in Nat
  BY RequestTyped DEF ProxyInv
<1>3. x = [at |-> "default", since |-> 0, kept |-> {}]
  BY DEF Idle
<1> HIDE DEF x
<1>4. x.at = "default" /\ x.kept = {}
  BY <1>3
<1>5. x \in RequestType
  BY <1>2, <1>3 DEF RequestType, Stage
<1> QED BY <1>1, <1>4, <1>5, ResetStep

LEMMA IncrementUsageInv ==
  ASSUME ProxyInv, NEW r \in Request, IncrementUsage(r)
  PROVE  ProxyInv'
<1> DEFINE x == [req[r] EXCEPT !.at = "charge"]
           y == [x EXCEPT !.since = 0]
<1>1. ResetIfNeeded(r, x, y) /\ req[r].at = "reset"
  BY DEF IncrementUsage, At
<1>2. now \in Nat /\ req[r] \in RequestType
  BY RequestTyped DEF ProxyInv
<1>3. req[r].kept = {}
  BY <1>1 DEF ProxyInv, KeyInv
<1>4. x \in RequestType /\ x.since = req[r].since /\ x.kept = req[r].kept
  BY <1>2 DEF RequestType, Stage
<1>5. y = [x EXCEPT !.since = 0]
  OBVIOUS
<1> HIDE DEF x, y
<1>6. y \in RequestType /\ y.since = 0 /\ y.kept = x.kept
  BY <1>2, <1>4, <1>5 DEF RequestType
<1> QED BY <1>1, <1>3, <1>4, <1>6, ResetStep

\* One charge more, below the limit.
LEMMA ChargeStep ==
  ASSUME ProxyInv, quota # None, BelowLimit, quota' = [quota EXCEPT !.used = @ + 1],
         charged' = Recorded(charged, "quota"), Counted("quota"), now' = now
  PROVE  /\ quota' \in [used : 0..DailyLimit, resetAt : 0..now] /\ quota' # None
         /\ quota'.resetAt = quota.resetAt
         /\ charged' \subseteq Entry /\ calls' \in [Counter -> Nat]
         /\ \A p \in Process : calls'[p] = calls[p]
         /\ ChargeInv'
<1> DEFINE e == Call("quota")
<1>1. /\ TypeOK /\ ChargeInv /\ now \in Nat /\ DailyLimit \in Nat
      /\ None \notin [used : Nat, resetAt : Nat] /\ "quota" \in Counter \ Process /\ Process \subseteq Counter
  BY ProxyAssumption, ProcessFact DEF ProxyInv, TypeOK, Time
<1>2. /\ quota \in [used : 0..DailyLimit, resetAt : 0..now] /\ quota.used \in Nat
      /\ quota.used < DailyLimit
  BY <1>1, QuotaType DEF BelowLimit
<1>3. /\ quota' \in [used : 0..DailyLimit, resetAt : 0..now] /\ quota' \in [used : Nat, resetAt : Nat]
      /\ quota'.resetAt = quota.resetAt /\ quota'.used = quota.used + 1
  BY <1>1, <1>2
<1>4. quota' # None
  BY <1>1, <1>3
<1>5. /\ e \in Entry /\ e.call = calls["quota"] /\ e.at = now /\ InWindow(e.at)
      /\ calls["quota"] \in Nat /\ e \notin charged
  BY <1>1, CallFresh DEF ChargeInv
<1>6. charged' = charged \union {e}
  <2>1. Kept(charged) = charged
    BY <1>1 DEF Kept, ChargeInv, Live
  <2> QED BY <2>1 DEF Recorded, Call
<1> HIDE DEF e
<1>7. /\ calls' \in [Counter -> Nat] /\ calls'["quota"] = calls["quota"] + 1
      /\ \A p \in Process : calls'[p] = calls[p]
  BY <1>1, <1>5 DEF Counted, TypeOK
<1>8. charged' \subseteq Entry
  BY <1>1, <1>5, <1>6 DEF TypeOK
<1>9. Past(charged, "quota")' /\ Live(charged)'
  <2>1. IsFiniteSet(charged')
    BY <1>1, <1>6, FS_AddElement DEF ChargeInv, Past
  <2>2. \A x \in charged : x.call \in Nat /\ x.call < calls["quota"] /\ x.at <= now /\ InWindow(x.at)
    BY <1>1 DEF ChargeInv, Past, Live, TypeOK, Entry
  <2>3. \A x \in charged' : x.call < calls'["quota"] /\ x.at <= now
    BY <1>1, <1>5, <1>6, <1>7, <2>2
  <2>4. \A x \in charged' : InWindow(x.at)
    BY <1>5, <1>6, <2>2
  <2> QED BY <2>1, <2>3, <2>4 DEF Past, Live, InWindow
<1>10. PICK old \in SUBSET charged : Split(old)
  BY <1>1 DEF ChargeInv
<1>11. charged' \ old = (charged \ old) \union {e} /\ e \notin charged \ old
  BY <1>5, <1>6, <1>10
<1>12. IsFiniteSet(charged \ old)
  BY <1>1, FS_Difference DEF ChargeInv, Past
<1>13. /\ Cardinality(charged' \ old) = Cardinality(charged \ old) + 1
       /\ Cardinality(charged \ old) \in Nat
  BY <1>11, <1>12, FS_AddElement, FS_CardinalityType
<1>14. Cardinality(charged' \ old) <= quota'.used
  BY <1>2, <1>3, <1>10, <1>13 DEF Split
<1>15. \E o \in SUBSET charged' : /\ \A x \in o : x.at <= quota'.resetAt
                                  /\ Cardinality(o) <= DailyLimit
                                  /\ Cardinality(charged' \ o) <= quota'.used
  <2>1. old \in SUBSET charged'
    BY <1>6
  <2>2. (\A x \in old : x.at <= quota'.resetAt) /\ Cardinality(old) <= DailyLimit
    BY <1>3, <1>10 DEF Split
  <2> QED BY <1>14, <2>1, <2>2
<1>16. ChargeInv'
  BY <1>4, <1>9, <1>15 DEF ChargeInv, Split
<1> QED BY <1>3, <1>4, <1>7, <1>8, <1>16

LEMMA TryIncrementUsageInv ==
  ASSUME ProxyInv, NEW r \in Request, TryIncrementUsage(r)
  PROVE  ProxyInv'
<1>1. /\ Becomes(r, Idle) /\ UNCHANGED <<now, configs, lastReset, started, faults>>
      /\ UNCHANGED <<now, limiter>>
      /\ window' = window /\ admitted' = admitted /\ waved' = waved
  BY DEF TryIncrementUsage, Ends, limiter
<1>2. now \in Nat /\ Idle \in RequestType /\ Idle.at = "idle" /\ Idle.kept = {}
  BY RequestTyped, IdleType DEF ProxyInv
<1>3. CASE UNCHANGED <<quota, charged, calls>>
  <2>1. /\ UNCHANGED <<now, tables, limiter, lastReset, faults, charged, calls>>
        /\ started' \in 0..MaxRequests
    BY <1>1, <1>3 DEF tables, limiter, ProxyInv, TypeOK
  <2> QED BY <1>1, <1>2, <2>1, RequestOnly
<1>4. CASE /\ quota # None /\ BelowLimit
           /\ quota' = [quota EXCEPT !.used = @ + 1]
           /\ charged' = Recorded(charged, "quota") /\ Counted("quota")
  <2>1. /\ quota' \in [used : 0..DailyLimit, resetAt : 0..now] /\ quota' # None
        /\ quota'.resetAt = quota.resetAt
        /\ charged' \subseteq Entry /\ calls' \in [Counter -> Nat]
        /\ \A p \in Process : calls'[p] = calls[p]
        /\ ChargeInv'
    <3>1. now' = now
      BY <1>1
    <3> QED BY <1>4, <3>1, ChargeStep
  <2>2. /\ req' \in [Request -> [at : Stage, since : 0..now', kept : SUBSET Config]]
        /\ req'[r] = Idle /\ \A q \in Request : q # r => req'[q] = req[q]
    BY <1>1, <1>2, RequestStep
  <2>3. TypeOK'
    BY <1>1, <2>1, <2>2 DEF ProxyInv, TypeOK
  <2>4. KeyInv'
    BY <1>1, <1>2, <2>2 DEF ProxyInv, KeyInv, Ids
  <2>5. LimitInv'
    BY <1>1, <2>1, SameLimits DEF ProxyInv
  <2>6. CacheInv'
    BY <1>1, <1>4, <2>1 DEF ProxyInv, CacheInv
  <2>7. ResetWithinTwoDays'
    BY <1>2, <1>4, <2>1, <2>2 DEF ProxyInv, ResetWithinTwoDays
  <2> QED BY <2>1, <2>3, <2>4, <2>5, <2>6, <2>7 DEF ProxyInv
<1> QED BY <1>3, <1>4 DEF TryIncrementUsage

-----------------------------------------------------------------------------
(***************************************************************************)
(* Processes and time.                                                     *)
(***************************************************************************)
\* Processes end with what they kept in memory.  Their requests are gone.
LEMMA DieStep ==
  ASSUME ProxyInv, NEW ps \in SUBSET Process, Die(ps), configs' \in Seq(Row),
         configs' = configs \/ ps = Process
  PROVE  ProxyInv'
<1>1. /\ lastReset' = [p \in Process |-> IF p \in ps THEN -1 ELSE lastReset[p]]
      /\ window' = [p \in Process |-> IF p \in ps \intersect InMemory THEN {} ELSE window[p]]
      /\ admitted' = [p \in Process |-> IF p \in ps \intersect InMemory THEN {} ELSE admitted[p]]
      /\ req' = [r \in Request |-> IF ProcessOf(r) \in ps THEN Idle ELSE req[r]]
      /\ UNCHANGED <<now, quota, waved, started, faults, charged, calls>>
  BY DEF Die
<1>2. /\ now \in Nat /\ now \in Time /\ Idle \in RequestType /\ Idle.at = "idle" /\ Idle.kept = {}
  BY ProxyAssumption, IdleType DEF ProxyInv, TypeOK, Time
<1>3. /\ req \in [Request -> RequestType] /\ lastReset \in [Process -> -1..Today(now)]
      /\ window \in [Process -> SUBSET Entry] /\ admitted \in [Process -> SUBSET Entry]
      /\ Today(now) \in Nat
  BY <1>2, DayBounds DEF ProxyInv, TypeOK, RequestType
<1>4. TypeOK'
  <2>1. req' \in [Request -> [at : Stage, since : 0..now', kept : SUBSET Config]]
    BY <1>1, <1>2, <1>3 DEF RequestType
  <2>2. lastReset' \in [Process -> -1..Today(now)]
    BY <1>1, <1>3
  <2>3. window' \in [Process -> SUBSET Entry] /\ admitted' \in [Process -> SUBSET Entry]
    BY <1>1, <1>3
  <2> QED BY <1>1, <2>1, <2>2, <2>3 DEF ProxyInv, TypeOK
<1>5. KeyInv'
  <2> SUFFICES ASSUME NEW r \in Request, req'[r].kept # {}
               PROVE  req'[r].at = "list" /\ req'[r].kept \subseteq Ids'
    BY DEF KeyInv
  <2>1. ProcessOf(r) \notin ps /\ req'[r] = req[r]
    BY <1>1, <1>2
  <2>2. configs' = configs
    BY <2>1, ProcessFact
  <2> QED BY <2>1, <2>2 DEF ProxyInv, KeyInv, Ids
<1>6. LimitInv'
  <2> SUFFICES ASSUME NEW p \in Process PROVE LimitOf(p)'
    BY DEF LimitInv
  <2>1. LimitOf(p)
    BY DEF ProxyInv, LimitInv
  <2>2. CASE p \in ps \intersect InMemory
    <3>1. window'[p] = {} /\ admitted'[p] = {} /\ waved'[p] = waved[p] /\ now' = now /\ calls' = calls
      BY <1>1, <2>2
    <3>2. Past(window[p], p)' /\ Past(admitted[p], p)' /\ Live(admitted[p])'
      BY <3>1, FS_EmptySet DEF Past, Live
    <3>3. Past(waved[p], p)' /\ Live(waved[p])' /\ (p \in InMemory => waved'[p] = {})
      BY <2>1, <3>1 DEF LimitOf, Past, Live, InWindow
    <3>4. admitted'[p] \ waved'[p] = {}
      BY <3>1
    <3>5. admitted'[p] \ waved'[p] \subseteq window'[p]
      BY <3>4
    <3>6. Cardinality(admitted'[p] \ waved'[p]) <= Limit
      <4>1. Cardinality(admitted'[p] \ waved'[p]) = 0
        BY <3>4, FS_EmptySet, Zenon
      <4> QED BY <4>1, ProxyAssumption
    <3> QED BY <3>2, <3>3, <3>5, <3>6 DEF LimitOf
  <2>3. CASE p \notin ps \intersect InMemory
    BY <1>1, <2>1, <2>3 DEF LimitOf, Past, Live, InWindow
  <2> QED BY <2>2, <2>3
<1>7. ChargeInv'
  BY <1>1, SameCharges DEF ProxyInv
<1>8. CacheInv'
  BY <1>1 DEF ProxyInv, CacheInv
<1>9. ResetWithinTwoDays'
  BY <1>1, <1>2 DEF ProxyInv, ResetWithinTwoDays
<1> QED BY <1>4, <1>5, <1>6, <1>7, <1>8, <1>9 DEF ProxyInv

LEMMA ProcessDiesInv ==
  ASSUME ProxyInv, NEW p \in Process, ProcessDies(p)
  PROVE  ProxyInv'
<1>1. Die({p}) /\ configs' = configs /\ configs' \in Seq(Row) /\ {p} \in SUBSET Process
  BY DEF ProcessDies, ProxyInv, TypeOK
<1> QED BY <1>1, DieStep

LEMMA MasterKeyReplacedInv ==
  ASSUME ProxyInv, MasterKeyReplaced
  PROVE  ProxyInv'
<1>1. /\ configs' = [i \in DOMAIN configs |-> [configs[i] EXCEPT !.readable = FALSE]]
      /\ Die(Process)
  BY DEF MasterKeyReplaced
<1>2. configs \in Seq(Row) /\ DOMAIN configs = 1..Len(configs) /\ Len(configs) \in Nat
  BY DEF ProxyInv, TypeOK
<1>3. \A i \in DOMAIN configs : configs'[i] \in Row
  <2> SUFFICES ASSUME NEW i \in DOMAIN configs PROVE configs'[i] \in Row
    OBVIOUS
  <2>1. configs[i] \in Row /\ configs'[i] = [configs[i] EXCEPT !.readable = FALSE]
    BY <1>1, <1>2
  <2> QED BY <2>1 DEF Row
<1>4. configs' \in [1..Len(configs) -> Row]
  BY <1>1, <1>2, <1>3
<1>5. configs' \in Seq(Row) /\ Process \in SUBSET Process
  BY <1>2, <1>4
<1> QED BY <1>1, <1>5, DieStep

\* Time passes: what leaves the window leaves the history, and nothing else.
LEMMA TickInv ==
  ASSUME ProxyInv, Tick
  PROVE  ProxyInv'
<1> DEFINE Late(w) == {e \in w : e.at > now' - DayLength}
<1>1. /\ now < MaxTime /\ now' = now + 1
      /\ admitted' = [p \in Process |-> Late(admitted[p])]
      /\ waved' = [p \in Process |-> Late(waved[p])]
      /\ charged' = Late(charged)
      /\ UNCHANGED <<configs, quota, window, lastReset, req, started, faults, calls>>
  BY DEF Tick, tables
<1>2. /\ now \in Nat /\ now' \in Nat /\ now' \in Time /\ now < now' /\ DayLength \in Nat \ {0}
      /\ MaxTime \in Nat
  BY <1>1, ProxyAssumption DEF ProxyInv, TypeOK, Time
<1>3. /\ window \in [Process -> SUBSET Entry] /\ admitted \in [Process -> SUBSET Entry]
      /\ waved \in [Process -> SUBSET Entry] /\ charged \subseteq Entry
  BY DEF ProxyInv, TypeOK
<1>4. \A w : Late(w) \subseteq w
  OBVIOUS
<1>5. \A w \in SUBSET Entry, k \in Counter : Past(w, k) =>
        /\ IsFiniteSet(w) /\ IsFiniteSet(Late(w))
        /\ \A e \in w : e.call < calls'[k] /\ e.at <= now'
  <2> SUFFICES ASSUME NEW w \in SUBSET Entry, NEW k \in Counter, Past(w, k)
               PROVE  /\ IsFiniteSet(w) /\ IsFiniteSet(Late(w))
                      /\ \A e \in w : e.call < calls'[k] /\ e.at <= now'
    OBVIOUS
  <2>1. IsFiniteSet(w) /\ IsFiniteSet(Late(w))
    BY <1>4, FS_Subset DEF Past
  <2>2. \A e \in w : e.at \in Nat /\ e.at <= now /\ e.call < calls[k]
    BY DEF Past, Entry, Time
  <2> QED BY <1>1, <1>2, <2>1, <2>2
<1>6. \A w : \A e \in Late(w) : e.at > now' - DayLength
  OBVIOUS
<1>t. \A w, v : Late(w) \ Late(v) = Late(w \ v)
  OBVIOUS
<1> HIDE DEF Late
<1>7. TypeOK'
  <2>1. /\ admitted' \in [Process -> SUBSET Entry] /\ waved' \in [Process -> SUBSET Entry]
        /\ charged' \subseteq Entry
    BY <1>1, <1>3, <1>4
  <2>2. quota' \in [used : 0..DailyLimit, resetAt : 0..now'] \union {None}
    <3>1. CASE quota = None
      BY <1>1, <3>1
    <3>2. CASE quota # None
      <4>1. quota \in [used : 0..DailyLimit, resetAt : 0..now]
        BY <3>2, QuotaType DEF ProxyInv
      <4>2. 0..now \subseteq 0..now'
        BY <1>2
      <4> QED BY <1>1, <4>1, <4>2
    <3> QED BY <3>1, <3>2
  <2>3. lastReset' \in [Process -> -1..Today(now')]
    <3>1. Today(now) <= Today(now') /\ Today(now) \in Nat /\ Today(now') \in Nat
      BY <1>2, DaysOrdered, DayBounds
    <3>2. lastReset \in [Process -> -1..Today(now)]
      BY DEF ProxyInv, TypeOK
    <3>3. -1..Today(now) \subseteq -1..Today(now')
      BY <3>1
    <3> QED BY <1>1, <3>2, <3>3
  <2>4. req' \in [Request -> [at : Stage, since : 0..now', kept : SUBSET Config]]
    <3>1. 0..now \subseteq 0..now'
      BY <1>2
    <3> QED BY <1>1, <3>1 DEF ProxyInv, TypeOK
  <2> QED BY <1>1, <1>2, <2>1, <2>2, <2>3, <2>4 DEF ProxyInv, TypeOK
<1>8. LimitInv'
  <2> SUFFICES ASSUME NEW p \in Process PROVE LimitOf(p)'
    BY DEF LimitInv
  <2>1. LimitOf(p) /\ p \in Counter
    BY ProcessFact DEF ProxyInv, LimitInv
  <2>2. admitted'[p] = Late(admitted[p]) /\ waved'[p] = Late(waved[p]) /\ window'[p] = window[p]
    BY <1>1
  <2>3. Past(window[p], p)' /\ Past(admitted[p], p)' /\ Past(waved[p], p)'
    BY <1>3, <1>4, <1>5, <2>1, <2>2 DEF LimitOf, Past
  <2>4. Live(admitted[p])' /\ Live(waved[p])'
    BY <1>6, <2>2 DEF Live, InWindow
  <2>5. p \in InMemory => waved'[p] = {}
    BY <1>4, <2>1, <2>2 DEF LimitOf
  <2>6. admitted'[p] \ waved'[p] \subseteq admitted[p] \ waved[p]
    <3>1. admitted'[p] \ waved'[p] = Late(admitted[p] \ waved[p])
      BY <1>t, <2>2
    <3>2. Late(admitted[p] \ waved[p]) \subseteq admitted[p] \ waved[p]
      BY <1>4
    <3> QED BY <3>1, <3>2
  <2>7. Cardinality(admitted'[p] \ waved'[p]) <= Limit
    <3>1. IsFiniteSet(admitted[p] \ waved[p])
      BY <2>1, FS_Difference DEF LimitOf, Past
    <3>2. Cardinality(admitted'[p] \ waved'[p]) <= Cardinality(admitted[p] \ waved[p])
      BY <2>6, <3>1, FS_Subset
    <3>3. Cardinality(admitted'[p] \ waved'[p]) \in Nat /\ Cardinality(admitted[p] \ waved[p]) \in Nat
      BY <2>6, <3>1, FS_Subset, FS_CardinalityType
    <3> QED BY <2>1, <3>2, <3>3, ProxyAssumption DEF LimitOf
  <2>8. admitted'[p] \ waved'[p] \subseteq window'[p]
    BY <2>1, <2>2, <2>6 DEF LimitOf
  <2> QED BY <2>3, <2>4, <2>5, <2>7, <2>8 DEF LimitOf
<1>9. ChargeInv'
  <2>1. ChargeInv /\ "quota" \in Counter
    BY ProcessFact DEF ProxyInv
  <2>2. Past(charged, "quota")' /\ Live(charged)'
    BY <1>1, <1>3, <1>4, <1>5, <1>6, <2>1 DEF ChargeInv, Past, Live, InWindow
  <2>3. quota' = None => charged' = {}
    BY <1>1, <1>4, <2>1 DEF ChargeInv
  <2>4. ASSUME quota' # None PROVE \E o \in SUBSET charged' : Split(o)'
    <3>1. PICK old \in SUBSET charged : Split(old)
      BY <1>1, <2>1, <2>4 DEF ChargeInv
    <3>2. IsFiniteSet(charged)
      BY <2>1 DEF ChargeInv, Past
    <3>3. IsFiniteSet(old) /\ IsFiniteSet(charged \ old)
      BY <3>2, FS_Subset, FS_Difference
    <3> DEFINE o == Late(old)
    <3>4. o \in SUBSET old /\ o \in SUBSET charged' /\ charged' \ o \in SUBSET (charged \ old)
      BY <1>1, <1>4, <1>t DEF Late
    <3> HIDE DEF o
    <3>5. /\ Cardinality(o) <= Cardinality(old) /\ Cardinality(o) \in Nat /\ Cardinality(old) \in Nat
      BY <3>3, <3>4, FS_Subset, FS_CardinalityType
    <3>6. /\ Cardinality(charged' \ o) <= Cardinality(charged \ old)
          /\ Cardinality(charged' \ o) \in Nat /\ Cardinality(charged \ old) \in Nat
      BY <3>3, <3>4, FS_Subset, FS_CardinalityType
    <3>7. quota' = quota /\ quota.used \in Nat /\ DailyLimit \in Nat
      BY <1>1, <2>4, QuotaType, ProxyAssumption DEF ProxyInv
    <3>8. /\ \A e \in o : e.at <= quota'.resetAt
          /\ Cardinality(o) <= DailyLimit
          /\ Cardinality(charged' \ o) <= quota'.used
      BY <3>1, <3>4, <3>5, <3>6, <3>7 DEF Split
    <3> QED BY <3>4, <3>8 DEF Split
  <2> QED BY <2>2, <2>3, <2>4 DEF ChargeInv
<1>10. KeyInv' /\ CacheInv' /\ ResetWithinTwoDays'
  BY <1>1 DEF ProxyInv, KeyInv, Ids, CacheInv, ResetWithinTwoDays
<1> QED BY <1>7, <1>8, <1>9, <1>10 DEF ProxyInv

LEMMA InitInv == Init => ProxyInv
<1> SUFFICES ASSUME Init PROVE ProxyInv
  OBVIOUS
<1>1. /\ now = 0 /\ configs = <<>> /\ window = [p \in Process |-> {}]
      /\ admitted = window /\ waved = window /\ charged = {}
      /\ calls = [k \in Counter |-> 0] /\ lastReset = [p \in Process |-> -1]
      /\ req = [r \in Request |-> Idle] /\ started = 0 /\ faults = 0
      /\ quota \in {None, [used |-> 0, resetAt |-> 0]}
  BY DEF Init
<1>2. /\ now \in Nat /\ now \in Time /\ Limit \in Nat /\ DailyLimit \in Nat
      /\ DayLength \in Nat \ {0} /\ MaxRequests \in Nat /\ MaxFaults \in Nat
  BY <1>1, ProxyAssumption DEF Time
<1>3. Idle \in RequestType /\ Idle.at = "idle" /\ Idle.kept = {} /\ Idle.since = 0
  BY <1>2, IdleType DEF Idle
<1>4. IsFiniteSet({}) /\ Cardinality({}) = 0
  BY FS_EmptySet
<1>5. TypeOK
  <2>1. quota \in [used : 0..DailyLimit, resetAt : 0..now] \union {None}
    BY <1>1, <1>2
  <2>2. req \in [Request -> [at : Stage, since : 0..now, kept : SUBSET Config]]
    BY <1>1, <1>3 DEF RequestType
  <2>3. lastReset \in [Process -> -1..Today(now)]
    BY <1>1, <1>2, DayBounds
  <2>4. {window, admitted, waved} \subseteq [Process -> SUBSET Entry]
    BY <1>1
  <2>5. configs \in Seq(Row) /\ calls \in [Counter -> Nat]
    BY <1>1
  <2> QED BY <1>1, <1>2, <2>1, <2>2, <2>3, <2>4, <2>5 DEF TypeOK
<1>6. KeyInv
  BY <1>1, <1>3 DEF KeyInv
<1>7. LimitInv
  <2> SUFFICES ASSUME NEW p \in Process PROVE LimitOf(p)
    BY DEF LimitInv
  <2>1. window[p] = {} /\ admitted[p] = {} /\ waved[p] = {} /\ admitted[p] \ waved[p] = {}
    BY <1>1
  <2> QED BY <1>2, <1>4, <2>1 DEF LimitOf, Past, Live
<1>8. ChargeInv
  <2>1. charged \ {} = {} /\ {} \in SUBSET charged
    BY <1>1
  <2>2. quota # None => Split({})
    <3> SUFFICES ASSUME quota # None PROVE Split({})
      OBVIOUS
    <3>1. quota.used = 0
      BY <1>1
    <3> QED BY <1>2, <1>4, <2>1, <3>1 DEF Split
  <2> QED BY <1>1, <1>4, <2>1, <2>2 DEF ChargeInv, Past, Live
<1>9. CacheInv
  BY <1>1 DEF CacheInv
<1>10. ResetWithinTwoDays
  BY <1>1, <1>3 DEF ResetWithinTwoDays
<1> QED BY <1>5, <1>6, <1>7, <1>8, <1>9, <1>10 DEF ProxyInv

LEMMA StutterInv ==
  ASSUME ProxyInv, UNCHANGED vars
  PROVE  ProxyInv'
<1>1. /\ UNCHANGED <<now, tables, limiter>> /\ UNCHANGED <<lastReset, req, started, faults>>
      /\ charged' = charged /\ calls' = calls
  BY DEF vars
<1>2. /\ configs' = configs /\ quota' = quota /\ window' = window /\ admitted' = admitted
      /\ waved' = waved
  BY <1>1 DEF tables, limiter
<1>3. LimitInv' /\ ChargeInv'
  BY <1>1, <1>2, SameLimits, SameCharges DEF ProxyInv
<1>4. TypeOK'
  BY <1>1, <1>2 DEF ProxyInv, TypeOK
<1>5. KeyInv' /\ CacheInv' /\ ResetWithinTwoDays'
  BY <1>1, <1>2 DEF ProxyInv, KeyInv, Ids, CacheInv, ResetWithinTwoDays
<1> QED BY <1>3, <1>4, <1>5 DEF ProxyInv

LEMMA NextInv == ProxyInv /\ [Next]_vars => ProxyInv'
<1> SUFFICES ASSUME ProxyInv, [Next]_vars PROVE ProxyInv'
  OBVIOUS
<1>1. ASSUME NEW r \in Request, Proxy(r) \/ HandleTask(r) PROVE ProxyInv'
  BY <1>1, StartInv
<1>2. ASSUME NEW r \in Request, GetDefaultByUser(r) \/ ListByUser(r) PROVE ProxyInv'
  BY <1>2, LookupInv
<1>3. ASSUME NEW r \in Request, Allow(r) PROVE ProxyInv'
  BY <1>3, AllowInv
<1>4. ASSUME NEW r \in Request, GetQuota(r) PROVE ProxyInv'
  BY <1>4, GetQuotaInv
<1>5. ASSUME NEW r \in Request, IncrementUsage(r) PROVE ProxyInv'
  BY <1>5, IncrementUsageInv
<1>6. ASSUME NEW r \in Request, TryIncrementUsage(r) PROVE ProxyInv'
  BY <1>6, TryIncrementUsageInv
<1>7. ASSUME NEW c \in Config, NEW d \in BOOLEAN, Create(c, d) PROVE ProxyInv'
  BY <1>7, CreateInv
<1>8. ASSUME NEW c \in Config, NEW d \in BOOLEAN, Update(c, d) PROVE ProxyInv'
  BY <1>8, UpdateInv
<1>9. ASSUME NEW c \in Config, Delete(c) PROVE ProxyInv'
  BY <1>9, DeleteInv
<1>10. ASSUME NEW p \in Process, evictLocked(p) PROVE ProxyInv'
  BY <1>10, EvictInv
<1>11. ASSUME NEW p \in Process, ProcessDies(p) PROVE ProxyInv'
  BY <1>11, ProcessDiesInv
<1>12. CASE MasterKeyReplaced
  BY <1>12, MasterKeyReplacedInv
<1>13. CASE Tick
  BY <1>13, TickInv
<1>14. CASE UNCHANGED vars
  BY <1>14, StutterInv
<1> QED
  BY <1>1, <1>2, <1>3, <1>4, <1>5, <1>6, <1>7, <1>8, <1>9, <1>10, <1>11, <1>12, <1>13, <1>14
  DEF Next

-----------------------------------------------------------------------------
(***************************************************************************)
(* Theorems                                                                *)
(***************************************************************************)
\* The invariant holds in every state, for any limits and any length of the day.
THEOREM ProxyInvariant == Spec => []ProxyInv
<1>1. Init => ProxyInv
  BY InitInv
<1>2. ProxyInv /\ [Next]_vars => ProxyInv'
  BY NextInv
<1> QED BY <1>1, <1>2, PTL DEF Spec

\* Tables, windows, caches and requests keep their types: the quota never exceeds
\* its limit, nor is it reset in the future.
THEOREM ProxyTypeCorrect == Spec => []TypeOK
<1>1. ProxyInv => TypeOK
  BY DEF ProxyInv
<1> QED BY <1>1, ProxyInvariant, PTL

\* What is in the window is all that the history keeps.
LEMMA KeptLive ==
  ASSUME NEW w, Live(w)
  PROVE  Kept(w) = w
  BY DEF Live, Kept

\* In no window of a day a limiter lets more than Limit requests through, beside
\* those for which Redis did not answer (RateLimiter.Allow, RedisRateLimiter.Allow).
THEOREM LimitKept == Spec => []WindowBounded
<1>1. ProxyInv => WindowBounded
  <2> SUFFICES ASSUME ProxyInv, NEW p \in Process
               PROVE  Count(admitted[p]) <= Limit + Count(waved[p])
    BY DEF WindowBounded
  <2> DEFINE A == admitted[p]
             W == waved[p]
  <2>1. /\ IsFiniteSet(A) /\ IsFiniteSet(W) /\ Live(A) /\ Live(W)
        /\ Cardinality(A \ W) <= Limit
    BY DEF ProxyInv, LimitInv, LimitOf, Past
  <2>2. Count(A) = Cardinality(A) /\ Count(W) = Cardinality(W)
    BY <2>1, KeptLive DEF Count
  <2> HIDE DEF A, W
  <2>3. /\ IsFiniteSet(A \ W) /\ Cardinality(A \ W) = Cardinality(A) - Cardinality(A \intersect W)
    BY <2>1, FS_Difference
  <2>4. Cardinality(A \intersect W) <= Cardinality(W) /\ IsFiniteSet(A \intersect W)
    <3>1. A \intersect W \subseteq W
      OBVIOUS
    <3> QED BY <2>1, <3>1, FS_Subset
  <2>5. /\ Cardinality(A) \in Nat /\ Cardinality(W) \in Nat
        /\ Cardinality(A \intersect W) \in Nat /\ Limit \in Nat
    BY <2>1, <2>4, FS_CardinalityType, ProxyAssumption
  <2>6. Cardinality(A) <= Limit + Cardinality(W)
    BY <2>1, <2>3, <2>4, <2>5
  <2> QED BY <2>2, <2>6 DEF A, W
<1> QED BY <1>1, ProxyInvariant, PTL

\* A user's readable key is used: a request gets to the server's account only
\* after every configuration it saw has been deleted (resolveLLMConfig).
THEOREM OwnKeyUsed == Spec => []OwnKeyIsUsed
<1>1. ProxyInv => OwnKeyIsUsed
  BY DEF ProxyInv, KeyInv, OwnKeyIsUsed
<1> QED BY <1>1, ProxyInvariant, PTL

\* A request is charged to a quota that was reset less than two days before its
\* day was taken (resetIfNeeded, with its cache per process).
THEOREM ResetInTime == Spec => []ResetWithinTwoDays
<1>1. ProxyInv => ResetWithinTwoDays
  BY DEF ProxyInv
<1> QED BY <1>1, ProxyInvariant, PTL

\* In a window of a day at most twice the daily limit is charged, whichever
\* processes reset the quota (ResetDailyUsage, TryIncrementUsage).
THEOREM ChargesBounded == Spec => []ChargesPerDay
<1>1. ProxyInv => ChargesPerDay
  <2> SUFFICES ASSUME ProxyInv PROVE Count(charged) <= 2 * DailyLimit
    BY DEF ChargesPerDay
  <2>1. IsFiniteSet(charged) /\ DailyLimit \in Nat
    BY ProxyAssumption DEF ProxyInv, ChargeInv, Past
  <2>2. Count(charged) = Cardinality(charged)
    BY KeptLive DEF ProxyInv, ChargeInv, Count
  <2>3. CASE quota = None
    <3>1. charged = {}
      BY <2>3 DEF ProxyInv, ChargeInv
    <3>2. Cardinality(charged) = 0
      BY <3>1, FS_EmptySet
    <3> QED BY <2>1, <2>2, <3>2
  <2>4. CASE quota # None
    <3>1. PICK old \in SUBSET charged : Split(old)
      BY <2>4 DEF ProxyInv, ChargeInv
    <3>2. charged \intersect old = old
      BY <3>1
    <3>3. Cardinality(charged \ old) = Cardinality(charged) - Cardinality(old)
      BY <2>1, <3>2, FS_Difference
    <3>4. IsFiniteSet(old)
      BY <2>1, FS_Subset
    <3>5. quota.used \in Nat /\ quota.used <= DailyLimit
      BY <2>4, QuotaType DEF ProxyInv
    <3>6. Cardinality(old) \in Nat /\ Cardinality(charged) \in Nat
      BY <2>1, <3>4, FS_CardinalityType
    <3> QED BY <2>1, <2>2, <3>1, <3>3, <3>5, <3>6 DEF Split
  <2> QED BY <2>3, <2>4
<1> QED BY <1>1, ProxyInvariant, PTL

-----------------------------------------------------------------------------
(***************************************************************************)
(* The answers of the providers (LLMStream): for any buffer, any length of *)
(* the answer and any number of retries.                                   *)
(***************************************************************************)
Chunk == {"content", "done", "error"}
Sending(out) == [at |-> "send", out |-> out, returns |-> TRUE]
\* What the goroutine may be doing: whatever it still has to send ends with the
\* chunk it returns after, or is one text it reads on after.
Text == [at |-> "send", out |-> <<"content">>, returns |-> FALSE]
ReaderState ==
  {NoReader, Scanning, Ended, Text,
   Sending(<<"content", "done">>), Sending(<<"done">>), Sending(<<"error">>)}

\* Texts in the channel, whose last chunk alone may be another one, and in the
\* goroutine's hands.
InChannel == IF ch # <<>> /\ ch[Len(ch)] # "content" THEN Len(ch) - 1 ELSE Len(ch)
InHand == IF reader.at = "send" /\ reader.out[1] = "content" THEN 1 ELSE 0

ChannelInv ==
  /\ reader \in ReaderState /\ ch \in Seq(Chunk)
  /\ \A i \in 1..Len(ch) : ch[i] # "content" => i = Len(ch) /\ reader = Ended

\* No text is lost between the goroutine and its consumer.
TextInv ==
  /\ got \in Nat /\ texts \in Nat
  /\ consumer = "start" => reader = NoReader /\ ch = <<>> /\ got = 0 /\ texts = 0
  /\ provider = "openai" /\ consumer = "receive" /\ ~cut => got + InChannel + InHand = texts
  /\ consumer = "done" /\ kind # "chat" =>
       /\ reader = Ended
       /\ provider = "openai" => got = texts \/ cut

StreamInv == ChannelInv /\ TextInv

AskInv ==
  /\ asked \in Nat /\ asked <= MaxRetries + 1
  /\ kind = "chat" /\ consumer = "start" => asked <= MaxRetries
  /\ consumer = "receive" => kind # "chat"
  /\ RetriesUsedUp

-----------------------------------------------------------------------------
\* The goroutine's stages.
LEMMA ReaderStages ==
  /\ NoReader.at = "none" /\ Scanning.at = "scan" /\ Ended.at = "ended" /\ Text.at = "send"
  /\ Text.out = <<"content">> /\ Text.returns = FALSE
  /\ \A out : Sending(out).at = "send" /\ Sending(out).out = out /\ Sending(out).returns = TRUE
  BY DEF NoReader, Scanning, Ended, Text, Sending

LEMMA ReaderAt ==
  ASSUME reader \in ReaderState
  PROVE  /\ reader.at = "scan" => reader = Scanning
         /\ reader.at = "send" => \/ reader = Text \/ reader = Sending(<<"content", "done">>)
                                  \/ reader = Sending(<<"done">>) \/ reader = Sending(<<"error">>)
  BY ReaderStages DEF ReaderState

\* The chunks of a line.
LEMMA LineChunks ==
  ASSUME NEW line \in Line
  PROVE  \/ /\ Chunks(line) = <<>> /\ Returns(line) = FALSE
            /\ provider = "openai" => line \notin {"text", "last"}
         \/ /\ Chunks(line) = <<"content">> /\ Returns(line) = FALSE
            /\ provider = "openai" => line \in {"text", "last"}
         \/ /\ Chunks(line) = <<"content", "done">> /\ Returns(line) = TRUE
            /\ provider = "openai" => line \in {"text", "last"}
         \/ /\ Chunks(line) \in {<<"done">>, <<"error">>} /\ Returns(line) = TRUE
            /\ provider = "openai" => line \notin {"text", "last"}
<1>1. line \in {"text", "last", "stop", "error", "other"}
  BY DEF Line
<1>2. CASE provider = "openai"
  <2>1. Chunks(line) = OpenAIChunks(line)
    BY <1>2 DEF Chunks
  <2>2. CASE line = "text"
    BY <2>1, <2>2 DEF OpenAIChunks, Returns
  <2>3. CASE line = "last"
    BY <2>1, <2>3 DEF OpenAIChunks, Returns
  <2>4. CASE line = "stop"
    BY <2>1, <2>4 DEF OpenAIChunks, Returns
  <2>5. CASE line \in {"error", "other"}
    BY <2>1, <2>5 DEF OpenAIChunks, Returns
  <2> QED BY <1>1, <2>2, <2>3, <2>4, <2>5
<1>3. CASE provider # "openai"
  <2>1. Chunks(line) = AnthropicChunks(line)
    BY <1>3 DEF Chunks
  <2>2. CASE line = "stop"
    BY <1>3, <2>1, <2>2 DEF AnthropicChunks, Returns
  <2>3. CASE line = "error"
    BY <1>3, <2>1, <2>3 DEF AnthropicChunks, Returns
  <2>4. CASE line \in {"text", "last", "other"}
    BY <1>3, <2>1, <2>4 DEF AnthropicChunks, Returns
  <2> QED BY <1>1, <2>2, <2>3, <2>4
<1> QED BY <1>2, <1>3

\* While the goroutine is not over, the channel holds texts only.
LEMMA ChannelFacts ==
  ASSUME ChannelInv
  PROVE  /\ Len(ch) \in Nat /\ InChannel \in Nat
         /\ ch = <<>> => InChannel = 0
         /\ reader.at # "ended" => InChannel = Len(ch)
<1>1. ch \in Seq(Chunk) /\ Len(ch) \in Nat /\ (ch # <<>> => Len(ch) \in 1..Len(ch))
  BY DEF ChannelInv
<1>2. reader.at # "ended" => \A i \in 1..Len(ch) : ch[i] = "content"
  BY ReaderStages DEF ChannelInv
<1> QED BY <1>1, <1>2 DEF InChannel

LEMMA ScanLineInv ==
  ASSUME StreamInv, NEW line \in Line, ScanLine(line)
  PROVE  StreamInv'
<1>1. /\ reader = Scanning /\ reader.at = "scan" /\ ChannelInv /\ TextInv
      /\ provider' = provider /\ kind' = kind /\ ch' = ch /\ consumer' = consumer /\ got' = got
  BY ReaderAt DEF StreamInv, ChannelInv, ScanLine
<1>2. consumer # "start" /\ ~(consumer = "done" /\ kind # "chat")
  BY <1>1, ReaderStages DEF TextInv
<1>3. CASE StreamDone
  <2>1. reader' = Ended /\ cut' = TRUE /\ texts' = texts
    BY <1>3 DEF ScanLine
  <2>2. ChannelInv'
    BY <1>1, <2>1, ReaderStages DEF ChannelInv, ReaderState
  <2> QED BY <1>1, <1>2, <2>1, <2>2 DEF StreamInv, TextInv
<1>4. CASE ~StreamDone
  <2>1. /\ texts' = IF line \in {"text", "last"} THEN texts + 1 ELSE texts
        /\ reader' = [at |-> IF Chunks(line) = <<>> THEN "scan" ELSE "send",
                      out |-> Chunks(line), returns |-> Returns(line)]
        /\ cut' = cut
    BY <1>4 DEF ScanLine
  <2>2. texts \in Nat /\ texts' \in Nat /\ got \in Nat
    BY <1>1, <2>1 DEF TextInv
  <2>3. /\ reader' \in ReaderState
        /\ provider = "openai" => InHand' = IF line \in {"text", "last"} THEN 1 ELSE 0
    <3>1. CASE /\ Chunks(line) = <<>> /\ Returns(line) = FALSE
               /\ provider = "openai" => line \notin {"text", "last"}
      <4>1. reader' = Scanning
        BY <2>1, <3>1, Zenon DEF Scanning
      <4> QED BY <3>1, <4>1, ReaderStages DEF ReaderState, InHand
    <3>2. CASE /\ Chunks(line) = <<"content">> /\ Returns(line) = FALSE
               /\ provider = "openai" => line \in {"text", "last"}
      <4>1. Chunks(line) # <<>>
        BY <3>2
      <4>2. reader' = Text
        BY <2>1, <3>2, <4>1, Zenon DEF Text
      <4> QED BY <3>2, <4>2, ReaderStages DEF ReaderState, InHand
    <3>3. ASSUME Chunks(line) # <<>>, Returns(line) = TRUE
          PROVE  /\ reader' = Sending(Chunks(line)) /\ reader'.at = "send"
                 /\ reader'.out = Chunks(line)
      <4>1. reader' = Sending(Chunks(line))
        BY <2>1, <3>3, Zenon DEF Sending
      <4> QED BY <4>1, ReaderStages
    <3>4. CASE /\ Chunks(line) = <<"content", "done">> /\ Returns(line) = TRUE
               /\ provider = "openai" => line \in {"text", "last"}
      <4>1. Chunks(line) # <<>> /\ Chunks(line)[1] = "content"
        BY <3>4
      <4> QED BY <3>3, <3>4, <4>1 DEF ReaderState, InHand
    <3>5. CASE /\ Chunks(line) \in {<<"done">>, <<"error">>} /\ Returns(line) = TRUE
               /\ provider = "openai" => line \notin {"text", "last"}
      <4>1. Chunks(line) # <<>> /\ Chunks(line)[1] # "content"
        BY <3>5
      <4> QED BY <3>3, <3>5, <4>1 DEF ReaderState, InHand
    <3> QED BY <3>1, <3>2, <3>4, <3>5, LineChunks
  <2>4. ChannelInv'
    BY <1>1, <2>3, ReaderStages DEF ChannelInv
  <2>5. InHand = 0 /\ InChannel' = InChannel /\ InChannel \in Nat
    BY <1>1, ChannelFacts DEF InHand, InChannel
  <2>6. TextInv'
    BY <1>1, <1>2, <2>1, <2>2, <2>3, <2>5 DEF TextInv
  <2> QED BY <2>4, <2>6 DEF StreamInv
<1> QED BY <1>3, <1>4

LEMMA ScanEndsInv ==
  ASSUME StreamInv, NEW failed \in BOOLEAN, ScanEnds(failed)
  PROVE  StreamInv'
<1>1. /\ reader = Scanning /\ reader.at = "scan" /\ ChannelInv /\ TextInv
      /\ provider' = provider /\ kind' = kind /\ ch' = ch /\ consumer' = consumer /\ got' = got
      /\ texts' = texts
  BY ReaderAt DEF StreamInv, ChannelInv, ScanEnds
<1>2. consumer # "start" /\ ~(consumer = "done" /\ kind # "chat")
  BY <1>1, ReaderStages DEF TextInv
<1>3. CASE reader' = Ended /\ cut' = TRUE
  <2>1. ChannelInv'
    BY <1>1, <1>3, ReaderStages DEF ChannelInv, ReaderState
  <2> QED BY <1>1, <1>2, <1>3, <2>1 DEF StreamInv, TextInv
<1>4. CASE reader' = Sending(<<"error">>) /\ cut' = cut
  <2>1. ChannelInv'
    BY <1>1, <1>4, ReaderStages DEF ChannelInv, ReaderState
  <2>2. reader'.at = "send" /\ reader'.out[1] = "error"
    BY <1>4, ReaderStages
  <2>3. InHand = 0 /\ InHand' = 0 /\ InChannel' = InChannel
    BY <1>1, <2>2 DEF InHand, InChannel
  <2> QED BY <1>1, <1>2, <1>4, <2>1, <2>3 DEF StreamInv, TextInv
<1> QED BY <1>3, <1>4 DEF ScanEnds, Sending

\* A chunk goes from the goroutine's hands into the channel.
LEMMA SendChunkInv ==
  ASSUME StreamInv, SendChunk
  PROVE  StreamInv'
<1>1. /\ reader.at = "send" /\ ChannelInv /\ TextInv /\ reader \in ReaderState
      /\ ch' = Append(ch, Head(reader.out))
      /\ provider' = provider /\ kind' = kind /\ consumer' = consumer /\ got' = got
      /\ texts' = texts /\ cut' = cut
  BY DEF StreamInv, ChannelInv, SendChunk
<1>2. consumer # "start" /\ ~(consumer = "done" /\ kind # "chat")
  BY <1>1, ReaderStages DEF TextInv
<1>3. /\ ch \in Seq(Chunk) /\ Len(ch) \in Nat /\ InChannel = Len(ch)
      /\ \A i \in 1..Len(ch) : ch[i] = "content"
  BY <1>1, ChannelFacts, ReaderStages DEF ChannelInv
<1>4. ASSUME NEW c \in Chunk, ch' = Append(ch, c)
      PROVE  /\ ch' \in Seq(Chunk) /\ Len(ch') = Len(ch) + 1 /\ ch' # <<>>
             /\ ch'[Len(ch) + 1] = c /\ \A i \in 1..Len(ch) : ch'[i] = "content"
             /\ InChannel' = IF c = "content" THEN Len(ch) + 1 ELSE Len(ch)
  BY <1>3, <1>4 DEF InChannel
<1>5. reader' = IF Len(reader.out) > 1 THEN [reader EXCEPT !.out = Tail(@)]
                ELSE IF reader.returns THEN Ended ELSE Scanning
  BY DEF SendChunk
<1>6. CASE reader = Text
  <2>1. /\ ch' = Append(ch, "content") /\ reader' = Scanning /\ reader'.at = "scan"
        /\ InHand = 1 /\ InHand' = 0
    BY <1>1, <1>5, <1>6, ReaderStages DEF InHand
  <2>2. ChannelInv' /\ InChannel' = InChannel + 1
    BY <1>3, <1>4, <2>1 DEF ChannelInv, ReaderState, Chunk
  <2> QED BY <1>1, <1>2, <1>3, <2>1, <2>2 DEF StreamInv, TextInv
<1>7. CASE reader = Sending(<<"content", "done">>)
  <2>1. reader.out = <<"content", "done">>
    BY <1>7, ReaderStages
  <2>2. /\ ch' = Append(ch, "content") /\ InHand = 1
    BY <1>1, <2>1 DEF InHand
  <2>3. reader' = Sending(<<"done">>)
    <3>1. Len(reader.out) > 1 /\ Tail(reader.out) = <<"done">>
      BY <2>1
    <3>2. reader' = [reader EXCEPT !.out = <<"done">>]
      BY <1>5, <3>1
    <3> QED BY <1>7, <3>2 DEF Sending
  <2>4. InHand' = 0
    BY <2>3, ReaderStages DEF InHand
  <2>5. ChannelInv' /\ InChannel' = InChannel + 1
    <3>1. /\ ch' \in Seq(Chunk) /\ Len(ch') = Len(ch) + 1 /\ ch'[Len(ch) + 1] = "content"
          /\ \A i \in 1..Len(ch) : ch'[i] = "content"
          /\ InChannel' = InChannel + 1
      BY <1>3, <1>4, <2>2 DEF Chunk
    <3>2. \A i \in 1..Len(ch') : ch'[i] = "content"
      BY <1>3, <3>1
    <3>3. reader' \in ReaderState
      BY <2>3 DEF ReaderState
    <3> QED BY <3>1, <3>2, <3>3 DEF ChannelInv
  <2> QED BY <1>1, <1>2, <1>3, <2>2, <2>4, <2>5 DEF StreamInv, TextInv
<1>8. ASSUME NEW c \in {"done", "error"}, reader = Sending(<<c>>)
      PROVE  StreamInv'
  <2>a. reader.out = <<c>> /\ reader.returns = TRUE
    BY <1>8, ReaderStages
  <2>b. ~(Len(reader.out) > 1) /\ Head(reader.out) = c /\ reader.out[1] # "content"
    BY <2>a
  <2>c. reader' = Ended
    BY <1>5, <2>a, <2>b, Zenon
  <2>1. /\ ch' = Append(ch, c) /\ reader' = Ended /\ reader'.at = "ended"
        /\ InHand = 0 /\ InHand' = 0
    BY <1>1, <2>b, <2>c, ReaderStages DEF InHand
  <2>2. ChannelInv' /\ InChannel' = InChannel
    BY <1>3, <1>4, <2>1 DEF ChannelInv, ReaderState, Chunk
  <2> QED BY <1>1, <1>2, <1>3, <2>1, <2>2 DEF StreamInv, TextInv
<1> QED BY <1>1, <1>6, <1>7, <1>8, ReaderAt

\* A chunk goes from the channel to the consumer.
LEMMA ReceiveChunkInv ==
  ASSUME StreamInv, ReceiveChunk
  PROVE  StreamInv'
<1>1. /\ ChannelInv /\ TextInv /\ consumer = "receive" /\ ch # <<>> /\ ch' = Tail(ch)
      /\ provider' = provider /\ kind' = kind /\ reader' = reader
      /\ texts' = texts /\ cut' = cut
  BY DEF StreamInv, ReceiveChunk
<1>2. /\ ch \in Seq(Chunk) /\ Len(ch) \in Nat \ {0} /\ Head(ch) = ch[1] /\ ch[1] \in Chunk
      /\ ch' \in Seq(Chunk) /\ Len(ch') = Len(ch) - 1
      /\ \A i \in 1..Len(ch') : ch'[i] = ch[i + 1]
      /\ ch' # <<>> => Len(ch') \in 1..Len(ch')
  BY <1>1 DEF ChannelInv
<1>3. ChannelInv'
  <2>1. ASSUME NEW i \in 1..Len(ch'), ch'[i] # "content" PROVE i = Len(ch') /\ reader' = Ended
    <3>1. i + 1 \in 1..Len(ch) /\ ch[i + 1] # "content"
      BY <1>2, <2>1
    <3>2. i + 1 = Len(ch) /\ reader = Ended
      BY <1>1, <3>1 DEF ChannelInv
    <3>3. i \in Nat /\ Len(ch) \in Nat /\ Len(ch') = Len(ch) - 1
      BY <1>2
    <3>4. i = Len(ch')
      BY <3>2, <3>3
    <3> QED BY <1>1, <3>2, <3>4
  <2> QED BY <1>1, <1>2, <2>1 DEF ChannelInv
<1>4. InHand' = InHand /\ InHand \in {0, 1} /\ InChannel \in Nat
  BY <1>1, ChannelFacts DEF InHand
<1>5. CASE Head(ch) = "content"
  <2>1. got' = got + 1 /\ consumer' = consumer
    BY <1>5 DEF ReceiveChunk
  <2>2. InChannel' = InChannel - 1
    <3>1. CASE Len(ch) = 1
      <4>1. ch' = <<>>
        BY <1>2, <3>1
      <4> QED BY <1>2, <1>5, <3>1, <4>1 DEF InChannel
    <3>2. CASE Len(ch) # 1
      <4>1. ch' # <<>> /\ ch'[Len(ch')] = ch[Len(ch)]
        BY <1>2, <3>2
      <4> QED BY <1>1, <1>2, <4>1 DEF InChannel
    <3> QED BY <3>1, <3>2
  <2> QED BY <1>1, <1>3, <1>4, <2>1, <2>2 DEF StreamInv, TextInv
<1>6. CASE Head(ch) # "content"
  <2>1. Len(ch) = 1 /\ reader = Ended
    <3>1. 1 \in 1..Len(ch) /\ ch[1] # "content"
      BY <1>2, <1>6
    <3> QED BY <1>1, <3>1 DEF ChannelInv
  <2>2. InChannel = 0 /\ InHand = 0 /\ ch' = <<>> /\ InChannel' = 0
    BY <1>1, <1>2, <1>6, <2>1, ReaderStages DEF InChannel, InHand
  <2>3. got' = got /\ consumer' \in {"receive", "done", "error"}
    BY <1>1, <1>6 DEF ReceiveChunk
  <2>4. provider = "openai" => got = texts \/ cut
    BY <1>1, <2>2 DEF TextInv
  <2> QED BY <1>1, <1>3, <1>4, <2>1, <2>2, <2>3, <2>4 DEF StreamInv, TextInv
<1> QED BY <1>5, <1>6

\* The consumer ends, or the stream starts; the channel stays.
LEMMA ConsumerInv ==
  ASSUME StreamInv,
         \/ ChannelClosed \/ ClientSeenGone \/ ChatStream
         \/ ChatGivesUp \/ TaskOver
         \/ \E outcome \in Outcome : Attempt(outcome)
         \/ ClientDisconnects \/ TimeoutPasses
  PROVE  StreamInv'
<1>1. /\ ChannelInv /\ TextInv /\ ch' = ch /\ got' = got /\ texts' = texts /\ cut' = cut
      /\ provider' = provider /\ kind' = kind
  BY DEF StreamInv, ChannelClosed, ClientSeenGone, ChatStream,
         ChatGivesUp, TaskOver, Attempt, ClientDisconnects, TimeoutPasses, stream
<1>2. CASE ChannelClosed
  <2>1. /\ consumer = "receive" /\ ch = <<>> /\ reader = Ended /\ reader' = reader
        /\ consumer' = "done"
    BY <1>2 DEF ChannelClosed
  <2>2. InChannel = 0 /\ InHand = 0
    BY <1>1, <2>1, ChannelFacts, ReaderStages DEF InHand
  <2>3. ChannelInv'
    BY <1>1, <2>1 DEF ChannelInv
  <2> QED BY <1>1, <2>1, <2>2, <2>3 DEF StreamInv, TextInv
<1>3. CASE ChatStream
  <2>1. consumer = "start" /\ got = 0 /\ texts = 0 /\ ch = <<>> /\ reader = NoReader
    BY <1>1, <1>3 DEF ChatStream, TextInv
  <2>2. \/ reader' = Scanning /\ consumer' = "receive"
        \/ reader' = reader /\ consumer' = "error"
    BY <1>3 DEF ChatStream
  <2>3. ChannelInv'
    BY <1>1, <2>1, <2>2 DEF ChannelInv, ReaderState
  <2>4. InChannel' = 0 /\ InHand' = 0
    BY <1>1, <2>1, <2>2, <2>3, ReaderStages DEF InHand, InChannel
  <2> QED BY <1>1, <2>1, <2>2, <2>3, <2>4 DEF StreamInv, TextInv
<1>4. CASE /\ reader' = reader
           /\ \/ consumer' = consumer
              \/ consumer' \in {"left", "error", "over"}
              \/ consumer' = "done" /\ kind = "chat"
  <2>1. ChannelInv'
    BY <1>1, <1>4 DEF ChannelInv
  <2>2. InChannel' = InChannel /\ InHand' = InHand
    BY <1>1, <1>4 DEF InChannel, InHand
  <2> QED BY <1>1, <1>4, <2>1, <2>2 DEF StreamInv, TextInv
<1>5. CASE \/ ClientSeenGone \/ ChatGivesUp \/ TaskOver \/ ClientDisconnects \/ TimeoutPasses
           \/ \E outcome \in Outcome : Attempt(outcome)
  BY <1>4, <1>5 DEF ClientSeenGone, ChatGivesUp, TaskOver, Attempt,
                    ClientDisconnects, TimeoutPasses, stream
<1> QED BY <1>2, <1>3, <1>5

LEMMA TaskGivenUpInv ==
  ASSUME StreamInv, TaskGivenUp
  PROVE  StreamInv'
<1>1. /\ provider' = provider /\ kind' = kind /\ ch' = <<>> /\ got \in Nat /\ texts \in Nat
      /\ \/ consumer' = "start" /\ reader' = NoReader /\ got' = 0 /\ texts' = 0
         \/ consumer' = "over" /\ reader' = Ended /\ got' = got /\ texts' = texts
  BY DEF TaskGivenUp, StreamInv, TextInv
<1>2. ChannelInv'
  BY <1>1 DEF ChannelInv, ReaderState
<1> QED BY <1>1, <1>2 DEF StreamInv, TextInv

LEMMA StreamInitInv == StreamInit => StreamInv
  BY DEF StreamInit, StreamInv, ChannelInv, ReaderState, TextInv

LEMMA StreamNextInv == StreamInv /\ [StreamNext]_StreamVars => StreamInv'
<1> SUFFICES ASSUME StreamInv, [StreamNext]_StreamVars PROVE StreamInv'
  OBVIOUS
<1>1. CASE ReceiveChunk
  BY <1>1, ReceiveChunkInv
<1>2. CASE SendChunk
  BY <1>2, SendChunkInv
<1>3. CASE TaskGivenUp
  BY <1>3, TaskGivenUpInv
<1>4. ASSUME NEW line \in Line, ScanLine(line) PROVE StreamInv'
  BY <1>4, ScanLineInv
<1>5. ASSUME NEW failed \in BOOLEAN, ScanEnds(failed) PROVE StreamInv'
  BY <1>5, ScanEndsInv
<1>6. CASE \/ ChannelClosed \/ ClientSeenGone \/ ChatStream \/ ChatGivesUp \/ TaskOver
           \/ \E outcome \in Outcome : Attempt(outcome)
           \/ ClientDisconnects \/ TimeoutPasses
  BY <1>6, ConsumerInv
<1>7. CASE UNCHANGED StreamVars
  <2>1. /\ reader' = reader /\ ch' = ch /\ consumer' = consumer /\ got' = got /\ texts' = texts
        /\ cut' = cut /\ provider' = provider /\ kind' = kind
    BY <1>7 DEF StreamVars, stream
  <2>2. InChannel' = InChannel /\ InHand' = InHand
    BY <2>1 DEF InChannel, InHand
  <2> QED BY <2>1, <2>2 DEF StreamInv, ChannelInv, TextInv
<1> QED BY <1>1, <1>2, <1>3, <1>4, <1>5, <1>6, <1>7 DEF StreamNext, Consume

\* Only an attempt asks, and only while one is left.
LEMMA AskNextInv ==
  ASSUME AskInv, [StreamNext]_StreamVars
  PROVE  AskInv'
<1> USE StreamAssumption
<1>1. ASSUME NEW outcome \in Outcome, Attempt(outcome) PROVE AskInv'
  <2>1. /\ kind = "chat" /\ consumer = "start" /\ asked' = asked + 1 /\ last' = outcome
        /\ kind' = kind /\ asked \in Nat /\ asked <= MaxRetries
    BY <1>1 DEF Attempt, AskInv
  <2>2. CASE isRetriable(outcome) /\ AttemptsLeft(asked + 1)
    <3>1. consumer' = consumer /\ asked + 1 < MaxRetries + 1
      BY <1>1, <2>2 DEF Attempt, AttemptsLeft
    <3> QED BY <2>1, <3>1 DEF AskInv, RetriesUsedUp
  <2>3. CASE ~(isRetriable(outcome) /\ AttemptsLeft(asked + 1))
    <3>1. consumer' = IF outcome = "answer" THEN "done" ELSE "error"
      BY <1>1, <2>3 DEF Attempt
    <3>2. outcome \in {"answer", "refused"} \/ asked + 1 = MaxRetries + 1
      BY <2>1, <2>3 DEF isRetriable, AttemptsLeft, Outcome
    <3> QED BY <2>1, <3>1, <3>2 DEF AskInv, RetriesUsedUp
  <2> QED BY <2>2, <2>3
<1>2. CASE ChatGivesUp
  <2>1. /\ StreamDone' /\ asked' = asked /\ consumer' = "error"
    BY <1>2 DEF ChatGivesUp, StreamDone, chat
  <2> QED BY <2>1 DEF AskInv, RetriesUsedUp
<1>3. CASE TaskGivenUp
  <2>1. \/ asked' = 0 /\ consumer' = "start"
        \/ asked' = asked /\ consumer' = "over"
    BY <1>3 DEF TaskGivenUp, chat
  <2> QED BY <2>1 DEF AskInv, RetriesUsedUp
<1>4. CASE \/ ChatStream \/ ReceiveChunk \/ ChannelClosed \/ ClientSeenGone \/ TaskOver
  <2>1. /\ asked' = asked /\ last' = last /\ kind' = kind /\ cancelled' = cancelled
        /\ expired' = expired
    BY <1>4 DEF ChatStream, ReceiveChunk, ChannelClosed, ClientSeenGone, TaskOver, chat
  <2>2. consumer' = consumer \/ kind # "chat" \/ consumer' \notin {"start", "receive", "error"}
    BY <1>4 DEF AskInv, ChatStream, ReceiveChunk, ChannelClosed, ClientSeenGone, TaskOver
  <2>3. consumer' = "start" => consumer = "start"
    BY <1>4 DEF ChatStream, ReceiveChunk, ChannelClosed, ClientSeenGone, TaskOver
  <2> QED BY <2>1, <2>2, <2>3 DEF AskInv, RetriesUsedUp, StreamDone
<1>5. CASE \/ SendChunk \/ \E line \in Line : ScanLine(line)
           \/ \E failed \in BOOLEAN : ScanEnds(failed)
           \/ ClientDisconnects \/ TimeoutPasses \/ UNCHANGED StreamVars
  <2>1. /\ asked' = asked /\ last' = last /\ kind' = kind /\ consumer' = consumer
        /\ StreamDone => StreamDone'
    BY <1>5 DEF SendChunk, ScanLine, ScanEnds, ClientDisconnects, TimeoutPasses, StreamVars, chat,
                stream, StreamDone
  <2> QED BY <2>1 DEF AskInv, RetriesUsedUp
<1> QED BY <1>1, <1>2, <1>3, <1>4, <1>5 DEF StreamNext, Consume

\* The invariant of the channel holds in every state.
THEOREM StreamInvariant == StreamSpec => []StreamInv
<1>1. StreamInit => StreamInv
  BY StreamInitInv
<1>2. StreamInv /\ [StreamNext]_StreamVars => StreamInv'
  BY StreamNextInv
<1> QED BY <1>1, <1>2, PTL DEF StreamSpec

\* An answer of an OpenAI-compatible provider that is given as complete holds every
\* text that was read, unless the stream was cut, for any buffer and any answer
\* (openai_compat.go, ai_handler.go, ai_agent_service.go, ai_job_handler.go).
THEOREM DoneIsWhole == StreamSpec => []DoneMeansWhole
<1>1. StreamInv => DoneMeansWhole
  BY DEF StreamInv, TextInv, DoneMeansWhole
<1> QED BY <1>1, StreamInvariant, PTL

\* Chat gives up only on a final error, at its last attempt, or at the end of its
\* context, for any number of retries (openai_compat.go, anthropic_provider.go).
THEOREM RetriesAreUsedUp == StreamSpec => []RetriesUsedUp
<1>1. StreamInit => AskInv
  BY StreamAssumption DEF StreamInit, AskInv, RetriesUsedUp
<1>2. AskInv /\ [StreamNext]_StreamVars => AskInv'
  BY AskNextInv
<1>3. AskInv => RetriesUsedUp
  BY DEF AskInv
<1> QED BY <1>1, <1>2, <1>3, PTL DEF StreamSpec
=============================================================================
