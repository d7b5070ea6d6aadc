--------------------------- MODULE LLMGatewayProofs ---------------------------
(***************************************************************************)
(* Theorems about the circuit breaker, for any number of concurrent calls  *)
(* and any thresholds.                                                     *)
(***************************************************************************)
EXTENDS LLMGateway, FiniteSetTheorems, TLAPS

-----------------------------------------------------------------------------
\* What Allow makes of the breaker.
LEMMA AllowFacts ==
  ASSUME NEW b \in Breaker
  PROVE  /\ Allow(b) \in Breaker
         /\ b.state = "closed" => Allow(b) = b
         /\ b.state = "open" => /\ Allow(b).state = "half-open"
                                /\ Allow(b).halfOpenReqs = 1
         /\ b.state = "half-open" => /\ Allow(b).state = "half-open"
                                     /\ Allow(b).halfOpenReqs = b.halfOpenReqs + 1
  BY DEF Allow, setState, Breaker

\* A place is given back, if one is taken.
LEMMA ReleaseFacts ==
  ASSUME NEW b \in Breaker
  PROVE  /\ Release(b) \in Breaker
         /\ Release(b).state = b.state /\ Release(b).failures = b.failures
         /\ Release(b).successes = b.successes
         /\ Release(b).halfOpenReqs =
              IF b.halfOpenReqs > 0 THEN b.halfOpenReqs - 1 ELSE b.halfOpenReqs
<1>1. b.halfOpenReqs \in Nat
  BY DEF Breaker
<1>2. (IF b.halfOpenReqs > 0 THEN b.halfOpenReqs - 1 ELSE b.halfOpenReqs) \in Nat
  BY <1>1
<1> QED BY <1>2 DEF Release, Breaker

\* What RecordSuccess makes of the breaker.
LEMMA SuccessFacts ==
  ASSUME NEW b \in Breaker
  PROVE  /\ RecordSuccess(b) \in Breaker
         /\ b.state = "closed" => /\ RecordSuccess(b).state = "closed"
                                  /\ RecordSuccess(b).failures = 0
         /\ b.state = "open" => RecordSuccess(b) = b
         /\ b.state = "half-open" =>
              \/ RecordSuccess(b).state = "closed" /\ RecordSuccess(b).failures = 0
              \/ /\ RecordSuccess(b).state = "half-open"
                 /\ RecordSuccess(b).halfOpenReqs =
                      IF b.halfOpenReqs > 0 THEN b.halfOpenReqs - 1 ELSE b.halfOpenReqs
<1>1. CASE b.state # "half-open"
  BY <1>1 DEF RecordSuccess, Breaker
<1>2. CASE b.state = "half-open" /\ b.successes + 1 >= SuccessThreshold
  BY <1>2 DEF RecordSuccess, setState, Breaker
<1>3. CASE b.state = "half-open" /\ ~(b.successes + 1 >= SuccessThreshold)
  <2> DEFINE n == [b EXCEPT !.successes = @ + 1]
  <2>1. n \in Breaker /\ n.state = b.state /\ n.halfOpenReqs = b.halfOpenReqs
    BY DEF Breaker
  <2>2. RecordSuccess(b) = Release(n)
    BY <1>3 DEF RecordSuccess
  <2> HIDE DEF n
  <2> QED BY <1>3, <2>1, <2>2, ReleaseFacts
<1> QED BY <1>1, <1>2, <1>3

\* What RecordFailure makes of the breaker.
LEMMA FailureFacts ==
  ASSUME NEW b \in Breaker
  PROVE  /\ RecordFailure(b) \in Breaker
         /\ b.state = "closed" =>
              \/ /\ RecordFailure(b).state = "open"
                 /\ b.failures + 1 >= FailureThreshold
              \/ /\ RecordFailure(b).state = "closed"
                 /\ RecordFailure(b).failures = b.failures + 1
                 /\ b.failures + 1 < FailureThreshold
         /\ b.state # "closed" => RecordFailure(b).state = "open"
<1>0. b.failures \in Nat /\ FailureThreshold \in Nat
  BY GatewayAssumption DEF Breaker
<1>a. Failed(b) \in Breaker /\ Failed(b).state = b.state /\ Failed(b).failures = b.failures
  BY DEF Failed, Breaker
<1>b. ASSUME NEW n \in Breaker PROVE setState(n, "open") \in Breaker
  BY DEF setState, Breaker
<1>c. ASSUME NEW n \in Breaker PROVE setState(n, "open").state = "open"
  BY DEF setState, Breaker
<1>1. CASE b.state = "closed"
  <2> DEFINE n == [Failed(b) EXCEPT !.failures = @ + 1]
  <2>1. n \in Breaker /\ n.state = "closed" /\ n.failures = b.failures + 1
    BY <1>1, <1>a DEF Breaker
  <2>2. RecordFailure(b) =
          IF n.failures >= FailureThreshold THEN setState(n, "open") ELSE n
    BY <1>1 DEF RecordFailure
  <2> HIDE DEF n
  <2>3. CASE n.failures >= FailureThreshold
    BY <1>1, <1>b, <1>c, <2>1, <2>2, <2>3
  <2>4. CASE ~(n.failures >= FailureThreshold)
    BY <1>0, <1>1, <2>1, <2>2, <2>4
  <2> QED BY <2>3, <2>4
<1>2. CASE b.state = "half-open"
  <2>1. Release(Failed(b)) \in Breaker
    BY <1>a, ReleaseFacts
  <2>2. RecordFailure(b) = setState(Release(Failed(b)), "open")
    BY <1>2 DEF RecordFailure
  <2> QED BY <1>2, <1>b, <1>c, <2>1, <2>2
<1>3. CASE b.state = "open"
  BY <1>3, <1>a DEF RecordFailure
<1> QED BY <1>1, <1>2, <1>3 DEF Breaker

\* Time only changes elapsed.
LEMMA TimeFacts ==
  ASSUME NEW b \in Breaker
  PROVE  LET t == [b EXCEPT !.elapsed = TRUE]
         IN  /\ t \in Breaker /\ t.state = b.state /\ t.failures = b.failures
             /\ t.halfOpenReqs = b.halfOpenReqs
  BY DEF Breaker

\* The breaker and the gateway keep the types of their variables.
THEOREM TypeCorrect == Spec => []TypeOK
<1>1. Init => TypeOK
  <2> SUFFICES ASSUME Init PROVE TypeOK
    OBVIOUS
  <2>1. cb \in Breaker
    BY DEF Init, Breaker
  <2>2. streak \in 0..FailureThreshold
    BY GatewayAssumption DEF Init
  <2> QED BY <2>1, <2>2 DEF Init, TypeOK
<1>2. TypeOK /\ [Next]_vars => TypeOK'
  <2> SUFFICES ASSUME TypeOK, [Next]_vars PROVE TypeOK'
    OBVIOUS
  <2>1. ASSUME NEW c \in Caller, Chat(c) \/ ChatStream(c) PROVE TypeOK'
    <3>1. PICK kind \in {"chat", "stream"} : Start(c, kind)
      BY <2>1 DEF Chat, ChatStream
    <3>2. cb' \in Breaker
      BY <3>1, AllowFacts DEF Start, TypeOK
    <3>3. call' \in [Caller -> {"none", "chat", "stream"}] /\ UNCHANGED <<up, streak>>
      BY <3>1 DEF Start, TypeOK
    <3>4. probes' \subseteq Caller /\ released' \in Nat
      BY <3>1 DEF Start, Probing, TypeOK
    <3> QED BY <3>2, <3>3, <3>4 DEF TypeOK
  <2>2. ASSUME NEW c \in Caller, Rejected(c) PROVE TypeOK'
    BY <2>2 DEF Rejected, vars, TypeOK
  <2>3. ASSUME NEW c \in Caller, ChatSucceeds(c) \/ StreamOpens(c) \/ CallFails(c)
        PROVE  TypeOK'
    <3>1. cb' \in Breaker
      <4>1. cb \in Breaker /\ cb' \in {RecordSuccess(cb), RecordFailure(cb), cb}
        BY <2>3 DEF ChatSucceeds, StreamOpens, CallFails, TypeOK
      <4> QED BY <4>1, SuccessFacts, FailureFacts
    <3>2. call' \in [Caller -> {"none", "chat", "stream"}] /\ UNCHANGED up
      BY <2>3 DEF ChatSucceeds, StreamOpens, CallFails, TypeOK
    <3>3. streak' \in 0..FailureThreshold
      <4>1. \/ streak' = 0 \/ streak' = streak
            \/ streak' = IF streak < FailureThreshold THEN streak + 1 ELSE streak
        BY <2>3 DEF ChatSucceeds, StreamOpens, CallFails
      <4> QED BY <4>1, GatewayAssumption DEF TypeOK
    <3>4. probes' \subseteq Caller /\ released' \in Nat
      <4>1. PICK recorded \in BOOLEAN : Ended(c, recorded)
        BY <2>3 DEF ChatSucceeds, StreamOpens, CallFails
      <4> QED BY <4>1 DEF Ended, TypeOK
    <3> QED BY <3>1, <3>2, <3>3, <3>4 DEF TypeOK
  <2>4. CASE TimePasses \/ ProviderRecovers
    BY <2>4, TimeFacts DEF TimePasses, ProviderRecovers, TypeOK
  <2>5. CASE UNCHANGED vars
    BY <2>5 DEF vars, TypeOK
  <2> QED BY <2>1, <2>2, <2>3, <2>4, <2>5 DEF Next
<1> QED BY <1>1, <1>2, PTL DEF Spec

-----------------------------------------------------------------------------
(***************************************************************************)
(* The counters against what really happened: failures counts no more than *)
(* the failures in a row, and the taken places together with the places    *)
(* that late results gave back account for every waiting probe.            *)
(***************************************************************************)
CountersInv ==
  /\ cb.state = "closed" => cb.failures <= streak /\ cb.failures < FailureThreshold
  /\ cb.state = "half-open" => /\ Cardinality(probes) <= cb.halfOpenReqs + released
                               /\ cb.halfOpenReqs <= HalfOpenMaxReqs

\* Adding and removing one probe.
LEMMA ProbeCount ==
  ASSUME TypeOK, NEW c \in Caller
  PROVE  /\ Cardinality(probes) \in Nat
         /\ Cardinality(probes \union {c}) \in Nat
         /\ Cardinality(probes \union {c}) <= Cardinality(probes) + 1
         /\ Cardinality(probes \ {c}) \in Nat
         /\ Cardinality(probes \ {c}) = IF c \in probes THEN Cardinality(probes) - 1
                                        ELSE Cardinality(probes)
         /\ Cardinality({c}) = 1 /\ Cardinality({}) = 0
<1>1. IsFiniteSet(probes)
  BY GatewayAssumption, FS_Subset DEF TypeOK
<1>2. Cardinality(probes) \in Nat
  BY <1>1, FS_CardinalityType
<1>3. Cardinality(probes \union {c}) =
        IF c \in probes THEN Cardinality(probes) ELSE Cardinality(probes) + 1
  BY <1>1, FS_AddElement
<1>4. IsFiniteSet(probes \ {c}) /\ Cardinality(probes \ {c}) =
        IF c \in probes THEN Cardinality(probes) - 1 ELSE Cardinality(probes)
  BY <1>1, FS_RemoveElement
<1>5. Cardinality(probes \ {c}) \in Nat
  BY <1>4, FS_CardinalityType
<1>6. Cardinality({c}) = 1 /\ Cardinality({}) = 0
  BY FS_Singleton, FS_EmptySet
<1> QED BY <1>2, <1>3, <1>4, <1>5, <1>6

\* Every step keeps the counters in line.
LEMMA CountersStep ==
  ASSUME TypeOK, CountersInv, [Next]_vars
  PROVE  CountersInv'
<1>a. /\ cb \in Breaker /\ cb.failures \in Nat /\ cb.halfOpenReqs \in Nat
      /\ streak \in Nat /\ released \in Nat
      /\ FailureThreshold \in Nat \ {0} /\ HalfOpenMaxReqs \in Nat \ {0}
  BY GatewayAssumption DEF TypeOK, Breaker
<1>1. ASSUME NEW c \in Caller, Chat(c) \/ ChatStream(c) PROVE CountersInv'
  <2>1. PICK kind \in {"chat", "stream"} : Start(c, kind)
    BY <1>1 DEF Chat, ChatStream
  <2>2. cb' = Allow(cb) /\ Allows(cb) /\ Probing(c) /\ UNCHANGED streak
    BY <2>1 DEF Start
  <2>3. CASE cb.state = "closed"
    BY <1>a, <2>2, <2>3, AllowFacts DEF CountersInv, Probing
  <2>4. CASE cb.state = "open"
    <3>1. cb'.state = "half-open" /\ cb'.halfOpenReqs = 1
      BY <1>a, <2>2, <2>4, AllowFacts
    <3>2. probes' = {c} /\ released' = 0
      BY <2>2, <2>4, <3>1 DEF Probing
    <3>3. Cardinality(probes') = 1
      BY <3>2, ProbeCount
    <3> QED BY <1>a, <3>1, <3>2, <3>3 DEF CountersInv
  <2>5. CASE cb.state = "half-open"
    <3>1. cb'.state = "half-open" /\ cb'.halfOpenReqs = cb.halfOpenReqs + 1
      BY <1>a, <2>2, <2>5, AllowFacts
    <3>2. probes' = probes \union {c} /\ released' = released
      BY <2>2, <2>5, <3>1 DEF Probing
    <3>3. cb.halfOpenReqs < HalfOpenMaxReqs
      BY <2>2, <2>5 DEF Allows
    <3>4. /\ Cardinality(probes) \in Nat /\ Cardinality(probes') \in Nat
          /\ Cardinality(probes') <= Cardinality(probes) + 1
      BY <3>2, ProbeCount
    <3> QED BY <1>a, <2>5, <3>1, <3>2, <3>3, <3>4 DEF CountersInv
  <2> QED BY <1>a, <2>3, <2>4, <2>5 DEF Breaker
<1>2. ASSUME NEW c \in Caller, ChatSucceeds(c) PROVE CountersInv'
  <2>1. cb' = RecordSuccess(cb) /\ streak' = 0 /\ Ended(c, TRUE)
    BY <1>2 DEF ChatSucceeds
  <2>2. CASE cb'.state = "closed"
    BY <1>a, <2>1, <2>2, SuccessFacts DEF CountersInv, Breaker
  <2>3. CASE cb'.state = "half-open"
    <3>1. /\ cb.state = "half-open"
          /\ cb'.halfOpenReqs =
               IF cb.halfOpenReqs > 0 THEN cb.halfOpenReqs - 1 ELSE cb.halfOpenReqs
      BY <1>a, <2>1, <2>3, SuccessFacts DEF Breaker
    <3>2. /\ probes' = probes \ {c}
          /\ released' = IF c \notin probes THEN released + 1 ELSE released
      BY <2>1, <2>3, <3>1 DEF Ended
    <3>3. /\ Cardinality(probes) \in Nat /\ Cardinality(probes') \in Nat
          /\ Cardinality(probes') = IF c \in probes THEN Cardinality(probes) - 1
                                    ELSE Cardinality(probes)
      BY <3>2, ProbeCount
    <3>4. CASE c \in probes
      BY <1>a, <2>3, <3>1, <3>2, <3>3, <3>4 DEF CountersInv
    <3>5. CASE c \notin probes
      BY <1>a, <2>3, <3>1, <3>2, <3>3, <3>5 DEF CountersInv
    <3> QED BY <3>4, <3>5
  <2>4. CASE cb'.state = "open"
    BY <2>4 DEF CountersInv
  <2> QED BY <1>a, <2>1, <2>2, <2>3, <2>4, SuccessFacts DEF Breaker
<1>3. ASSUME NEW c \in Caller, StreamOpens(c) PROVE CountersInv'
  <2>1. UNCHANGED <<cb, streak>> /\ Ended(c, FALSE)
    BY <1>3 DEF StreamOpens
  <2>2. CASE cb.state = "half-open"
    <3>1. probes' = probes \ {c} /\ released' = released
      BY <2>1, <2>2 DEF Ended
    <3>2. /\ Cardinality(probes) \in Nat /\ Cardinality(probes') \in Nat
          /\ Cardinality(probes') = IF c \in probes THEN Cardinality(probes) - 1
                                    ELSE Cardinality(probes)
      BY <3>1, ProbeCount
    <3> QED BY <1>a, <2>1, <2>2, <3>1, <3>2 DEF CountersInv
  <2>3. CASE cb.state # "half-open"
    BY <2>1, <2>3 DEF CountersInv
  <2> QED BY <2>2, <2>3
<1>4. ASSUME NEW c \in Caller, CallFails(c) PROVE CountersInv'
  <2>1. /\ cb' = RecordFailure(cb)
        /\ streak' = IF streak < FailureThreshold THEN streak + 1 ELSE streak
    BY <1>4 DEF CallFails
  <2>2. CASE cb.state = "closed"
    BY <1>a, <2>1, <2>2, FailureFacts DEF CountersInv
  <2>3. CASE cb.state # "closed"
    BY <1>a, <2>1, <2>3, FailureFacts DEF CountersInv
  <2> QED BY <2>2, <2>3
<1>5. CASE TimePasses
  BY <1>a, <1>5, TimeFacts DEF TimePasses, CountersInv
<1>6. CASE ProviderRecovers \/ (\E c \in Caller : Rejected(c)) \/ UNCHANGED vars
  BY <1>6 DEF ProviderRecovers, Rejected, vars, CountersInv
<1> QED BY <1>1, <1>2, <1>3, <1>4, <1>5, <1>6 DEF Next

\* The counters never claim more than what happened.
LEMMA CountersInvariant == Spec => []CountersInv
<1>1. Init => CountersInv
  BY GatewayAssumption DEF Init, CountersInv
<1> QED BY <1>1, CountersStep, TypeCorrect, PTL DEF Spec

\* For any number of concurrent calls and any limit, at most HalfOpenMaxReqs
\* probes are out, and one more for each late result of an earlier call.
THEOREM ProbesAreBounded == Spec => []ProbesBounded
<1>1. TypeOK /\ CountersInv => ProbesBounded
  <2> SUFFICES ASSUME TypeOK, CountersInv, cb.state = "half-open"
               PROVE  Cardinality(probes) <= HalfOpenMaxReqs + released
    BY DEF ProbesBounded
  <2>1. IsFiniteSet(probes)
    BY GatewayAssumption, FS_Subset DEF TypeOK
  <2>2. Cardinality(probes) \in Nat
    BY <2>1, FS_CardinalityType
  <2> QED BY <2>2, GatewayAssumption DEF CountersInv, TypeOK, Breaker
<1> QED BY <1>1, CountersInvariant, TypeCorrect, PTL

\* The breaker opens from closed only after FailureThreshold failures in a row.
THEOREM TripsOnlyOnConsecutive == Spec => TripsOnConsecutive
<1>1. TypeOK /\ CountersInv /\ [Next]_vars =>
        [cb.state = "closed" /\ cb'.state = "open" => streak' = FailureThreshold]_vars
  <2> SUFFICES ASSUME TypeOK, CountersInv, [Next]_vars,
                      cb.state = "closed", cb'.state = "open"
               PROVE  streak' = FailureThreshold
    OBVIOUS
  <2>a. /\ cb \in Breaker /\ cb.failures \in Nat /\ streak \in 0..FailureThreshold
        /\ FailureThreshold \in Nat \ {0} /\ cb.failures <= streak
    BY GatewayAssumption DEF TypeOK, Breaker, CountersInv
  <2>1. ASSUME NEW c \in Caller, CallFails(c) PROVE streak' = FailureThreshold
    <3>1. /\ cb' = RecordFailure(cb)
          /\ streak' = IF streak < FailureThreshold THEN streak + 1 ELSE streak
      BY <2>1 DEF CallFails
    <3>2. cb.failures + 1 >= FailureThreshold
      BY <2>a, <3>1, FailureFacts
    <3> QED BY <2>a, <3>1, <3>2
  <2>2. ASSUME NEW c \in Caller, Chat(c) \/ ChatStream(c) PROVE FALSE
    BY <2>a, <2>2, AllowFacts DEF Chat, ChatStream, Start
  <2>3. ASSUME NEW c \in Caller, ChatSucceeds(c) \/ StreamOpens(c) \/ Rejected(c)
        PROVE  FALSE
    BY <2>a, <2>3, SuccessFacts DEF ChatSucceeds, StreamOpens, Rejected, vars
  <2>4. CASE TimePasses \/ ProviderRecovers \/ UNCHANGED vars
    BY <2>a, <2>4, TimeFacts DEF TimePasses, ProviderRecovers, vars
  <2> QED BY <2>1, <2>2, <2>3, <2>4 DEF Next
<1> QED BY <1>1, CountersInvariant, TypeCorrect, PTL DEF Spec, TripsOnConsecutive
=============================================================================
