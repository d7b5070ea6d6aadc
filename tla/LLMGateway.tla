------------------------------ MODULE LLMGateway ------------------------------
(***************************************************************************)
(* The gateway to one LLM provider and its circuit breaker                 *)
(* (backend/internal/llm/gateway.go, circuit_breaker.go).  Every provider  *)
(* has a breaker of its own, so one is modelled.                           *)
(*                                                                         *)
(* The breaker's methods hold its mutex and are one step each; a call      *)
(* passes Allow, waits for the provider outside the mutex, and records its *)
(* result in whatever state the breaker is by then.                        *)
(***************************************************************************)
EXTENDS Integers, FiniteSets

CONSTANTS Caller,            \* requests being served at the same time
          FailureThreshold,  \* 5 by default
          SuccessThreshold,  \* 3 by default
          HalfOpenMaxReqs,   \* 1 by default
          Streams            \* TRUE: callers also use ChatStream

ASSUME GatewayAssumption ==
  /\ FailureThreshold \in Nat \ {0} /\ SuccessThreshold \in Nat \ {0}
  /\ HalfOpenMaxReqs \in Nat \ {0}
  /\ Streams \in BOOLEAN /\ IsFiniteSet(Caller)

VARIABLES cb,    \* the CircuitBreaker
          call,  \* per caller: the call it waits for
          up,    \* the provider has recovered for good
          \* history variables
          streak,    \* failures recorded since the last recorded success
          probes,    \* callers let through since the breaker is half-open
          released   \* results of other callers recorded since then

vars == <<cb, call, up, streak, probes, released>>

Breaker == [state : {"closed", "open", "half-open"},
            failures : Nat, successes : Nat, halfOpenReqs : Nat,
            elapsed : BOOLEAN]  \* openTimeout has passed since lastFailureTime

TypeOK ==
  /\ cb \in Breaker
  /\ call \in [Caller -> {"none", "chat", "stream"}]
  /\ up \in BOOLEAN
  /\ streak \in 0..FailureThreshold
  /\ probes \subseteq Caller
  /\ released \in Nat

Init ==
  /\ cb = [state |-> "closed", failures |-> 0, successes |-> 0,
           halfOpenReqs |-> 0, elapsed |-> TRUE]
  /\ call = [c \in Caller |-> "none"]
  /\ up = FALSE
  /\ streak = 0 /\ probes = {} /\ released = 0

-----------------------------------------------------------------------------
(***************************************************************************)
(* The breaker's methods.                                                  *)
(***************************************************************************)
setState(b, state) ==
  IF b.state = state THEN b
  ELSE [state |-> state, failures |-> IF state = "open" THEN b.failures ELSE 0,
        successes |-> 0, halfOpenReqs |-> 0, elapsed |-> b.elapsed]

\* Mutant: one probe too many.
AllowsOneMore(b) ==
  \/ b.state = "closed"
  \/ b.state = "open" /\ b.elapsed
  \/ b.state = "half-open" /\ b.halfOpenReqs <= HalfOpenMaxReqs

\* Allow returns nil.
Allows(b) ==
  \/ b.state = "closed"
  \/ b.state = "open" /\ b.elapsed
  \/ b.state = "half-open" /\ b.halfOpenReqs < HalfOpenMaxReqs

Allow(b) ==
  CASE b.state = "closed" -> b
    [] b.state = "open"   -> [setState(b, "half-open") EXCEPT !.halfOpenReqs = 1]
    [] OTHER              -> [b EXCEPT !.halfOpenReqs = @ + 1]

\* Mutant: the count may go below zero.
ReleaseUnguarded(b) == [b EXCEPT !.halfOpenReqs = @ - 1]

Release(b) == [b EXCEPT !.halfOpenReqs = IF @ > 0 THEN @ - 1 ELSE @]

\* Mutant: a success while half-open is not counted.
RecordSuccessUncounted(b) ==
  CASE b.state = "half-open" -> Release(b)
    [] b.state = "closed" -> [b EXCEPT !.failures = 0]
    [] OTHER -> b

\* Mutant: a success does not end the row of failures.
RecordSuccessKeeps(b) ==
  CASE b.state = "half-open" ->
         IF b.successes + 1 >= SuccessThreshold THEN setState(b, "closed")
         ELSE Release([b EXCEPT !.successes = @ + 1])
    [] OTHER -> b

RecordSuccess(b) ==
  CASE b.state = "half-open" ->
         IF b.successes + 1 >= SuccessThreshold THEN setState(b, "closed")
         ELSE Release([b EXCEPT !.successes = @ + 1])
    [] b.state = "closed" -> [b EXCEPT !.failures = 0]
    [] OTHER -> b

\* lastFailureTime is set in every state: a late failure keeps the breaker open.
Failed(b) == [b EXCEPT !.elapsed = FALSE]

RecordFailure(b) ==
  CASE b.state = "closed" ->
         LET next == [Failed(b) EXCEPT !.failures = @ + 1]
         IN  IF next.failures >= FailureThreshold THEN setState(next, "open") ELSE next
    [] b.state = "half-open" -> setState(Release(Failed(b)), "open")
    [] OTHER -> Failed(b)

-----------------------------------------------------------------------------
\* History: probes are counted while the breaker stays half-open.
Probing(c) ==
  IF cb'.state = "half-open"
  THEN /\ probes' = IF cb.state = "half-open" THEN probes \union {c} ELSE {c}
       /\ released' = IF cb.state = "half-open" THEN released ELSE 0
  ELSE UNCHANGED <<probes, released>>

Ended(c, recorded) ==
  IF cb.state = "half-open" /\ cb'.state = "half-open"
  THEN /\ probes' = probes \ {c}
       /\ released' = IF recorded /\ c \notin probes THEN released + 1 ELSE released
  ELSE probes' = {} /\ released' = 0

Start(c, kind) ==
  /\ call[c] = "none"
  /\ Allows(cb)
  /\ cb' = Allow(cb)
  /\ call' = [call EXCEPT ![c] = kind]
  /\ Probing(c)
  /\ UNCHANGED <<up, streak>>

Chat(c) == Start(c, "chat")
ChatStream(c) == Streams /\ Start(c, "stream")

\* ErrCircuitOpen: the caller is turned away at once.
Rejected(c) ==
  /\ call[c] = "none" /\ ~Allows(cb)
  /\ UNCHANGED vars

ChatSucceeds(c) ==
  /\ call[c] = "chat"
  /\ cb' = RecordSuccess(cb)
  /\ call' = [call EXCEPT ![c] = "none"]
  /\ streak' = 0
  /\ Ended(c, TRUE)
  /\ UNCHANGED up

\* The stream is open; what becomes of it is never recorded.
StreamOpens(c) ==
  /\ call[c] = "stream"
  /\ call' = [call EXCEPT ![c] = "none"]
  /\ UNCHANGED <<cb, up, streak>>
  /\ Ended(c, FALSE)

CallFails(c) ==
  /\ call[c] # "none" /\ ~up
  /\ cb' = RecordFailure(cb)
  /\ call' = [call EXCEPT ![c] = "none"]
  /\ streak' = IF streak < FailureThreshold THEN streak + 1 ELSE streak
  /\ Ended(c, TRUE)
  /\ UNCHANGED up

\* openTimeout passes.
TimePasses ==
  /\ ~cb.elapsed
  /\ cb' = [cb EXCEPT !.elapsed = TRUE]
  /\ UNCHANGED <<call, up, streak, probes, released>>

\* External: from now on the provider answers every call.
ProviderRecovers ==
  /\ ~up /\ up' = TRUE
  /\ UNCHANGED <<cb, call, streak, probes, released>>

Next ==
  \/ \E c \in Caller :
       \/ Chat(c) \/ ChatStream(c) \/ Rejected(c)
       \/ ChatSucceeds(c) \/ StreamOpens(c) \/ CallFails(c)
  \/ TimePasses
  \/ ProviderRecovers

Spec == Init /\ [][Next]_vars

\* Requests keep coming, every call ends (it has a deadline), time goes on.
FairSpec ==
  /\ Spec
  /\ WF_vars(\E c \in Caller : Chat(c))
  /\ \A c \in Caller : WF_vars(ChatSucceeds(c) \/ StreamOpens(c) \/ CallFails(c))
  /\ WF_vars(TimePasses)

-----------------------------------------------------------------------------
(***************************************************************************)
(* Properties                                                              *)
(***************************************************************************)
\* The breaker opens from closed only after FailureThreshold failures in a row,
\* whatever order concurrent calls record their results in.
TripsOnConsecutive ==
  [][cb.state = "closed" /\ cb'.state = "open" => streak' = FailureThreshold]_vars

\* While half-open at most HalfOpenMaxReqs probes wait for the provider, and one
\* more for every late result of a call let through before.
ProbesBounded ==
  cb.state = "half-open" => Cardinality(probes) <= HalfOpenMaxReqs + released

\* A place for a probe is taken and no probe is waiting for it.
Leaked == cb.state = "half-open" /\ cb.halfOpenReqs > Cardinality(probes)

\* Once the provider answers again the breaker closes, whatever late results
\* are recorded meanwhile, as long as Chat calls keep coming and no opened
\* stream keeps a probe's place.
Recovers == up ~> cb.state = "closed" \/ Leaked
=============================
