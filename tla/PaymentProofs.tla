----------------------------- MODULE PaymentProofs -----------------------------
(***************************************************************************)
(* Theorems about payments and plans, for any users, checkouts and number  *)
(* of webhook requests at a time.                                          *)
(***************************************************************************)
EXTENDS Payment, TLAPS

Completed(s) == [type |-> "checkout.session.completed", session |-> s]
Expired(s) == [type |-> "checkout.session.expired", session |-> s]
Refunded(s) == [type |-> "charge.refunded", session |-> s]
Ended(s) == [type |-> "customer.subscription.deleted", session |-> s]

RequestType == [ev : Event \union {NoEvent}, next : {"idle"} \union Step]

\* Every event is one of the four kinds.
LEMMA EventKinds ==
  ASSUME NEW s \in Session
  PROVE  {Completed(s), Expired(s), Refunded(s), Ended(s)} \subseteq Event
  BY DEF Completed, Expired, Refunded, Ended, Event, EventType

\* A request that answers, or goes on, has a request's type.
LEMMA RequestTypes ==
  /\ Idle \in RequestType
  /\ \A e \in Event : [ev |-> e, next |-> FirstStep(e)] \in RequestType
  /\ \A q \in RequestType, step \in Step : [q EXCEPT !.next = step] \in RequestType
  /\ \A e \in Event, st \in Status : StepAfterLookup(e, st) \in Step \union {"respond"}
<1>1. Idle \in RequestType
  BY DEF Idle, RequestType
<1>2. \A e \in Event : FirstStep(e) \in Step
  BY DEF FirstStep, Step
<1>3. \A e \in Event, st \in Status : StepAfterLookup(e, st) \in Step \union {"respond"}
  BY DEF StepAfterLookup, CompletionStep, ExpiryStep, Step
<1> QED BY <1>1, <1>2, <1>3 DEF RequestType

\* What Stripe does changes one session and sends one event.
LEMMA EmitType ==
  ASSUME TypeOK, NEW s \in Session, NEW type \in EventType, NEW from,
         NEW to \in {"paid", "expired", "refunded"}, Emit(s, from, to, type)
  PROVE  TypeOK'
<1>1. checkout' \in [Session -> Checkout]
  BY DEF Emit, TypeOK, Checkout
<1>2. sent' \subseteq Event /\ sent \subseteq sent'
  BY DEF Emit, TypeOK, Event
<1> QED BY <1>1, <1>2 DEF Emit, TypeOK, history

\* The tables, the requests and the history keep their types.
THEOREM TypeCorrect == Spec => []TypeOK
<1>1. Init => TypeOK
  <2> SUFFICES ASSUME Init PROVE TypeOK
    OBVIOUS
  <2>1. request \in [Worker -> RequestType] /\ \A w \in Worker : request[w] = Idle
    BY RequestTypes DEF Init
  <2>2. checkout \in [Session -> Checkout]
    BY DEF Init
  <2> QED BY <2>1, <2>2 DEF Init, TypeOK, RequestType, Status, ValidPlans
<1>2. TypeOK /\ [Next]_vars => TypeOK'
  <2> SUFFICES ASSUME TypeOK, [Next]_vars PROVE TypeOK'
    OBVIOUS
  <2>a. request \in [Worker -> RequestType]
    BY DEF TypeOK, RequestType
  <2>1. ASSUME NEW s \in Session, CreateCheckoutSession(s) \/ CreatePayment(s) PROVE TypeOK'
    <3>0. ASSUME NEW to \in {"created", "open"}, checkout' = [checkout EXCEPT ![s].state = to]
          PROVE  checkout' \in [Session -> Checkout]
      BY <3>0 DEF TypeOK, Checkout
    <3>1. checkout' \in [Session -> Checkout]
      BY <2>1, <3>0 DEF CreateCheckoutSession, CreatePayment, NewSession, ReturnURL
    <3>2. status' \in [Session -> Status]
      BY <2>1 DEF CreateCheckoutSession, CreatePayment, InsertPayment, TypeOK, Status
    <3> QED BY <2>1, <3>1, <3>2 DEF CreateCheckoutSession, CreatePayment, TypeOK, history
  <2>2. ASSUME NEW s \in Session,
               CustomerPays(s) \/ SessionExpires(s) \/ ChargeRefunded(s) \/ SubscriptionEnds(s)
        PROVE  TypeOK'
    BY <2>2, EmitType
       DEF CustomerPays, SessionExpires, ChargeRefunded, SubscriptionEnds, EventType
  <2>3. ASSUME NEW w \in Worker, NEW e \in sent, NEW signature, HandleWebhook(w, e, signature)
        PROVE  TypeOK'
    <3>1. e \in Event /\ recorded' = recorded \union {e}
      BY <2>3 DEF HandleWebhook, TypeOK
    <3>2. request' \in [Worker -> RequestType]
      BY <2>3, <2>a, <3>1, RequestTypes DEF HandleWebhook
    <3>3. \A v \in Worker : request'[v] = Idle \/ request'[v].ev \in recorded'
      BY <2>3, <2>a, <3>1 DEF HandleWebhook, TypeOK
    <3>4. acked' \subseteq sent
      BY <2>3 DEF HandleWebhook, TypeOK
    <3> QED BY <2>3, <3>1, <3>2, <3>3, <3>4
            DEF HandleWebhook, TypeOK, RequestType, stripe, history
  <2>b. ASSUME NEW w \in Worker, NEW ok, Respond(w, ok), request[w].ev \in recorded
        PROVE  /\ request' \in [Worker -> RequestType] /\ acked' \subseteq sent
               /\ \A v \in Worker : request'[v] = Idle \/ request'[v].ev \in recorded
    BY <2>b, <2>a, RequestTypes DEF Respond, TypeOK
  <2>c. ASSUME NEW w \in Worker, NEW step \in Step, GoOn(w, step), request[w].ev \in recorded
        PROVE  /\ request' \in [Worker -> RequestType] /\ acked' \subseteq sent
               /\ \A v \in Worker : request'[v] = Idle \/ request'[v].ev \in recorded
    <3>1. request' = [request EXCEPT ![w] = [request[w] EXCEPT !.next = step]]
      BY <2>c DEF GoOn
    <3>2. [request[w] EXCEPT !.next = step].ev = request[w].ev
      BY <2>a DEF RequestType
    <3> QED BY <2>a, <2>c, <3>1, <3>2, RequestTypes DEF GoOn, TypeOK
  <2>d. ASSUME NEW w \in Worker, request[w] # Idle
        PROVE  request[w].ev \in recorded /\ request[w].ev \in Event /\ request[w].ev.session \in Session
    <3>1. request[w].ev \in recorded /\ request[w].ev \in Event
      BY <2>d DEF TypeOK
    <3> QED BY <3>1 DEF Event
  <2>e. \A w \in Worker : request[w].next # "idle" => request[w] # Idle
    BY DEF Idle
  <2>4. ASSUME NEW w \in Worker, LookupPayment(w) PROVE TypeOK'
    <3> DEFINE step == StepAfterLookup(request[w].ev, status[request[w].ev.session])
    <3>0. request[w].ev \in recorded /\ request[w].ev \in Event /\ request[w].ev.session \in Session
      BY <2>4, <2>d, <2>e DEF LookupPayment
    <3>1. step \in Step \union {"respond"}
      BY <3>0, RequestTypes DEF TypeOK
    <3>2. IF step = "respond" THEN Respond(w, TRUE) ELSE GoOn(w, step)
      BY <2>4 DEF LookupPayment, GetByStripeSessionID
    <3> HIDE DEF step
    <3>3. /\ request' \in [Worker -> RequestType] /\ acked' \subseteq sent
          /\ \A v \in Worker : request'[v] = Idle \/ request'[v].ev \in recorded
      BY <2>b, <2>c, <3>0, <3>1, <3>2
    <3> QED BY <2>4, <3>3 DEF LookupPayment, TypeOK, RequestType, stripe, history
  <2>5. ASSUME NEW w \in Worker, NEW confirmed \in BOOLEAN,
               CompletePaymentTx(w, confirmed)
        PROVE  TypeOK'
    <3>0. request[w].ev \in recorded /\ request[w].ev.session \in Session
      BY <2>5, <2>d, <2>e DEF CompletePaymentTx
    <3>1. /\ request' \in [Worker -> RequestType] /\ acked' \subseteq sent
          /\ \A v \in Worker : request'[v] = Idle \/ request'[v].ev \in recorded
      BY <2>5, <2>b, <3>0 DEF CompletePaymentTx
    <3>2. status' \in [Session -> Status] /\ granted' \subseteq Session /\ late' \subseteq granted'
      BY <2>5, <3>0 DEF CompletePaymentTx, UpdateStatus, TypeOK, Status
    <3>3. plan' \in [User -> ValidPlans] /\ source' \in [User -> Session \union {Nobody}]
      BY <2>5, <3>0 DEF CompletePaymentTx, SetPlan, TypeOK, ValidPlans, Checkout, PlanAmounts
    <3> QED BY <2>5, <3>1, <3>2, <3>3 DEF CompletePaymentTx, TypeOK, RequestType, stripe
  <2>6. ASSUME NEW w \in Worker, ExpirePayment(w) \/ RefundPayment(w) PROVE TypeOK'
    <3>0. request[w].ev \in recorded /\ request[w].ev.session \in Session
      BY <2>6, <2>d, <2>e DEF ExpirePayment, RefundPayment
    <3>1. /\ request' \in [Worker -> RequestType] /\ acked' \subseteq sent
          /\ \A v \in Worker : request'[v] = Idle \/ request'[v].ev \in recorded
      BY <2>6, <2>b, <2>c, <3>0 DEF ExpirePayment, RefundPayment, Step
    <3>2. status' \in [Session -> Status]
      BY <2>6, <3>0 DEF ExpirePayment, RefundPayment, UpdateStatus, TypeOK, Status
    <3> QED BY <2>6, <3>1, <3>2
            DEF ExpirePayment, RefundPayment, TypeOK, RequestType, stripe, history
  <2>7. ASSUME NEW w \in Worker, DowngradePlan(w) PROVE TypeOK'
    <3>0. request[w].ev \in recorded /\ request[w].ev.session \in Session
      BY <2>7, <2>d, <2>e DEF DowngradePlan
    <3>1. /\ request' \in [Worker -> RequestType] /\ acked' \subseteq sent
          /\ \A v \in Worker : request'[v] = Idle \/ request'[v].ev \in recorded
      BY <2>7, <2>b, <3>0 DEF DowngradePlan
    <3>2. plan' \in [User -> ValidPlans] /\ source' \in [User -> Session \union {Nobody}]
      BY <2>7, <3>0 DEF DowngradePlan, SetPlan, TypeOK, ValidPlans
    <3> QED BY <2>7, <3>1, <3>2 DEF DowngradePlan, TypeOK, RequestType, stripe
  <2>8. ASSUME NEW w \in Worker, Fails(w) PROVE TypeOK'
    <3>0. request[w].ev \in recorded
      BY <2>8, <2>d DEF Fails
    <3>1. /\ request' \in [Worker -> RequestType] /\ acked' \subseteq sent
          /\ \A v \in Worker : request'[v] = Idle \/ request'[v].ev \in recorded
      BY <2>8, <2>b, <3>0 DEF Fails
    <3>2. dropped' \subseteq recorded
      BY <2>8, <3>0 DEF Fails, TypeOK
    <3> QED BY <2>8, <3>1, <3>2 DEF Fails, TypeOK, RequestType, stripe
  <2>9. ASSUME Crash PROVE TypeOK'
    <3>1. request' \in [Worker -> RequestType] /\ \A v \in Worker : request'[v] = Idle
      BY <2>9, RequestTypes DEF Crash
    <3>2. dropped' \subseteq recorded
      <4>1. \A w \in Worker : request[w].ev # NoEvent => request[w].ev \in recorded
        BY DEF TypeOK, Idle
      <4> QED BY <2>9, <4>1 DEF Crash, TypeOK
    <3>3. upgrading' \in [User -> ValidPlans \union {Nobody}]
      BY <2>9 DEF Crash
    <3> QED BY <2>9, <3>1, <3>2, <3>3 DEF Crash, TypeOK, RequestType, stripe
  <2>10. ASSUME NEW u \in User, UpgradeSetPlan(u) \/ \E p \in ValidPlans : UpgradePlan(u, p)
         PROVE  TypeOK'
    <3>1. upgrading' \in [User -> ValidPlans \union {Nobody}]
      BY <2>10 DEF UpgradeSetPlan, UpgradePlan, TypeOK
    <3>2. plan' \in [User -> ValidPlans] /\ source' \in [User -> Session \union {Nobody}]
      BY <2>10 DEF UpgradeSetPlan, UpgradePlan, SetPlan, TypeOK, history
    <3> QED BY <2>10, <3>1, <3>2 DEF UpgradeSetPlan, UpgradePlan, TypeOK, stripe, history
  <2>11. CASE UNCHANGED vars
    BY <2>11 DEF vars, TypeOK, history
  <2> QED BY <2>1, <2>2, <2>3, <2>4, <2>5, <2>6, <2>7, <2>8, <2>9, <2>10, <2>11
          DEF Next, Handles
<1> QED BY <1>1, <1>2, PTL DEF Spec

-----------------------------------------------------------------------------
(***************************************************************************)
(* The inductive invariant.                                                *)
(***************************************************************************)
\* What Stripe has sent of a session agrees with its state.
SentInv ==
  \A s \in Session : /\ Completed(s) \in sent => checkout[s].state \in {"paid", "refunded"}
                     /\ Expired(s) \in sent => checkout[s].state = "expired"
                     /\ Refunded(s) \in sent => checkout[s].state = "refunded"

\* A request is at a statement of its event's handler.
StepInv ==
  \A w \in Worker :
    /\ request[w].next = "complete" => request[w].ev.type = "checkout.session.completed"
    /\ request[w].next = "expire" => request[w].ev.type = "checkout.session.expired"
    /\ request[w].next \in {"lookup", "refund"}
         => request[w].ev.type # "customer.subscription.deleted"
    /\ request[w].next = "refund" => request[w].ev.type = "charge.refunded"
    /\ request[w].next = "downgrade" => request[w].ev.type
                                          \in {"charge.refunded", "customer.subscription.deleted"}

\* The record of events lets one request handle an event.
OneHandler ==
  \A v, w \in Worker : v # w /\ request[v].ev = request[w].ev => request[v] = Idle

\* A grant is the end of its event's handling.
GrantInv ==
  \A s \in granted : Completed(s) \in recorded /\ \A w \in Worker : request[w].ev # Completed(s)

\* The current plan of a user comes from a checkout of that user.
SourceInv ==
  \A u \in User, s \in Session : source[u] = s => s \in granted /\ checkout[s].user = u

\* A refund that got past its first statement is noted on the payment, unless the
\* completion came after it.
RefundNoted ==
  \A s \in Session :
    Refunded(s) \in recorded \ dropped
      /\ (\A w \in Worker : request[w].ev = Refunded(s) => request[w].next = "downgrade")
    => status[s] = "refunded" \/ s \in late

PayInv ==
  /\ SentInv /\ StepInv /\ OneHandler
  /\ GrantInv /\ CompletedMeansGranted
  /\ SourceInv /\ RefundNoted /\ RefundRevokes

\* The kinds of events of a session differ, and no event is NoEvent.
LEMMA EventFacts ==
  ASSUME NEW e \in Event
  PROVE  /\ e # NoEvent /\ e.session \in Session
         /\ e.type \in EventType
         /\ e.type = "checkout.session.completed" <=> e = Completed(e.session)
         /\ e.type = "checkout.session.expired" <=> e = Expired(e.session)
         /\ e.type = "charge.refunded" <=> e = Refunded(e.session)
         /\ \A s \in Session : e = Refunded(s) => e.session = s /\ e.type = "charge.refunded"
         /\ \A s \in Session :
              e = Completed(s) => e.session = s /\ e.type = "checkout.session.completed"
         /\ \A s \in Session :
              e = Expired(s) => e.session = s /\ e.type = "checkout.session.expired"
<1>1. PICK t \in EventType, z \in Session : e = [type |-> t, session |-> z]
  BY DEF Event
<1> QED BY <1>1, PaymentAssumption DEF Completed, Expired, Refunded

\* Requests in hand have recorded events; an idle one has none.
LEMMA HandFacts ==
  ASSUME TypeOK, NEW w \in Worker
  PROVE  /\ request[w] # Idle => request[w].ev \in recorded /\ request[w].ev \in Event
         /\ request[w] = Idle => request[w].ev = NoEvent /\ request[w].next = "idle"
         /\ recorded \subseteq sent /\ recorded \subseteq Event
  BY DEF TypeOK, Idle

\* A step that leaves the service alone and no checkout with another user.
LEMMA ServiceFrame ==
  ASSUME TypeOK, PayInv, UNCHANGED <<request, recorded, status, history>>,
         \A s \in Session : checkout'[s].user = checkout[s].user
  PROVE  /\ StepInv' /\ OneHandler' /\ GrantInv' /\ CompletedMeansGranted'
         /\ SourceInv' /\ RefundNoted' /\ RefundRevokes'
<1> USE DEF history
<1>1. StepInv' /\ OneHandler' /\ GrantInv'
  BY DEF PayInv, StepInv, OneHandler, GrantInv
<1>2. CompletedMeansGranted' /\ SourceInv'
  BY DEF PayInv, CompletedMeansGranted, SourceInv
<1>3. RefundNoted'
  BY DEF PayInv, RefundNoted
<1>4. RefundRevokes'
  BY DEF PayInv, RefundRevokes, Handled
<1> QED BY <1>1, <1>2, <1>3, <1>4

\* What Stripe does preserves the invariant.
LEMMA EmitInv ==
  ASSUME TypeOK, PayInv, NEW s \in Session,
         CustomerPays(s) \/ SessionExpires(s) \/ ChargeRefunded(s) \/ SubscriptionEnds(s)
  PROVE  PayInv'
<1>1. PICK from, to, type : Emit(s, from, to, type)
  BY DEF CustomerPays, SessionExpires, ChargeRefunded, SubscriptionEnds
<1>2. /\ \A z \in Session : checkout'[z].user = checkout[z].user
      /\ \A z \in Session : z # s => checkout'[z] = checkout[z]
  BY <1>1 DEF Emit, TypeOK, Checkout
<1>3. UNCHANGED <<request, recorded, status, history>>
  BY <1>1 DEF Emit
<1>4. SentInv'
  <2> SUFFICES ASSUME NEW z \in Session
               PROVE  /\ Completed(z) \in sent' => checkout'[z].state \in {"paid", "refunded"}
                      /\ Expired(z) \in sent' => checkout'[z].state = "expired"
                      /\ Refunded(z) \in sent' => checkout'[z].state = "refunded"
    BY DEF SentInv
  <2> USE DEF Completed, Expired, Refunded
  <2>0. /\ Completed(z) \in sent => checkout[z].state \in {"paid", "refunded"}
        /\ Expired(z) \in sent => checkout[z].state = "expired"
        /\ Refunded(z) \in sent => checkout[z].state = "refunded"
    BY DEF PayInv, SentInv
  <2>1. CASE CustomerPays(s)
    BY <2>0, <2>1, <1>2 DEF CustomerPays, Emit, TypeOK, Checkout
  <2>2. CASE SessionExpires(s)
    BY <2>0, <2>2, <1>2 DEF SessionExpires, Emit, TypeOK, Checkout
  <2>3. CASE ChargeRefunded(s)
    BY <2>0, <2>3, <1>2 DEF ChargeRefunded, Emit, TypeOK, Checkout
  <2>4. CASE SubscriptionEnds(s)
    <3>1. checkout'[z].state = checkout[z].state
      BY <2>4, <1>2 DEF SubscriptionEnds, Emit, TypeOK, Checkout
    <3>2. sent' = sent \union {Ended(s)}
      BY <2>4 DEF SubscriptionEnds, Emit, Ended
    <3> QED BY <2>0, <3>1, <3>2 DEF Ended
  <2> QED BY <2>1, <2>2, <2>3, <2>4
<1> QED BY <1>2, <1>3, <1>4, ServiceFrame DEF PayInv

\* A checkout without a paid session has neither a grant nor a refund.
LEMMA UnpaidFacts ==
  ASSUME TypeOK, PayInv, NEW s \in Session, checkout[s].state \notin {"paid", "refunded"}
  PROVE  s \notin granted /\ Refunded(s) \notin recorded
  BY DEF PayInv, SentInv, GrantInv, TypeOK

\* Creating a checkout preserves the invariant.
LEMMA CheckoutInv ==
  ASSUME TypeOK, PayInv, NEW s \in Session, CreateCheckoutSession(s) \/ CreatePayment(s)
  PROVE  PayInv'
<1>1. /\ \A z \in Session : checkout'[z].user = checkout[z].user
      /\ \A z \in Session : z # s => checkout'[z] = checkout[z]
      /\ checkout[s].state \in {"none", "created"}
  <2>1. PICK to : checkout' = [checkout EXCEPT ![s].state = to]
    BY DEF CreateCheckoutSession, CreatePayment, NewSession, ReturnURL
  <2>2. checkout[s].state \in {"none", "created"}
    BY DEF CreateCheckoutSession, CreatePayment
  <2> QED BY <2>1, <2>2 DEF TypeOK, Checkout
<1>2. UNCHANGED <<sent, request, recorded, history>>
  BY DEF CreateCheckoutSession, CreatePayment
<1>3. SentInv'
  BY <1>1, <1>2 DEF PayInv, SentInv
<1>4. CASE CreateCheckoutSession(s)
  BY <1>1, <1>2, <1>3, <1>4, ServiceFrame DEF CreateCheckoutSession, PayInv
<1>5. CASE CreatePayment(s)
  <2>1. status' = [status EXCEPT ![s] = "pending"]
    BY <1>5 DEF CreatePayment, InsertPayment
  <2>2. s \notin granted /\ Refunded(s) \notin recorded
    BY <1>1, UnpaidFacts
  <2>3. StepInv' /\ OneHandler' /\ GrantInv' /\ SourceInv'
    BY <1>1, <1>2 DEF PayInv, StepInv, OneHandler, GrantInv, SourceInv, history
  <2>4. CompletedMeansGranted'
    BY <1>2, <2>1, <2>2 DEF PayInv, CompletedMeansGranted, TypeOK, history
  <2>5. RefundNoted'
    BY <1>2, <2>1, <2>2 DEF PayInv, RefundNoted, TypeOK, history
  <2>6. RefundRevokes'
    BY <1>2 DEF PayInv, RefundRevokes, Handled, history
  <2> QED BY <1>3, <2>3, <2>4, <2>5, <2>6 DEF PayInv
<1> QED BY <1>4, <1>5

\* A delivery preserves the invariant, whether the event is new or not.
LEMMA DeliveryInv ==
  ASSUME TypeOK, PayInv, NEW w \in Worker, NEW e \in sent, NEW signature,
         HandleWebhook(w, e, signature)
  PROVE  PayInv'
<1>1. UNCHANGED <<checkout, sent, status, history>> /\ recorded' = recorded \union {e}
  BY DEF HandleWebhook, stripe
<1>2. CASE e \in recorded
  <2>1. UNCHANGED <<request, recorded>>
    BY <1>1, <1>2 DEF HandleWebhook, RecordWebhookEvent
  <2>2. SentInv'
    BY <1>1 DEF PayInv, SentInv
  <2> QED BY <1>1, <2>1, <2>2, ServiceFrame DEF PayInv
<1>3. CASE e \notin recorded
  <2>1. /\ request[w] = Idle /\ request' = [request EXCEPT ![w] = [ev |-> e, next |-> FirstStep(e)]]
    BY <1>3 DEF HandleWebhook, RecordWebhookEvent
  <2>2. /\ request'[w].ev = e /\ request'[w].next = FirstStep(e)
        /\ \A v \in Worker : v # w => request'[v] = request[v]
    BY <2>1 DEF TypeOK
  <2>3. e \in Event /\ \A v \in Worker : request[v].ev # e
    BY <1>3, HandFacts, EventFacts DEF TypeOK
  <2>4. request'[w].next \in {"lookup", "downgrade"}
        /\ (request'[w].next = "downgrade" <=> e.type = "customer.subscription.deleted")
    BY <2>2 DEF FirstStep
  <2>5. SentInv'
    BY <1>1 DEF PayInv, SentInv
  <2>6. StepInv'
    BY <2>2, <2>4 DEF PayInv, StepInv
  <2>7. OneHandler'
    BY <2>2, <2>3 DEF PayInv, OneHandler
  <2>8. GrantInv'
    BY <1>1, <1>3, <2>2, <2>3 DEF PayInv, GrantInv, history
  <2>9. CompletedMeansGranted' /\ SourceInv'
    BY <1>1 DEF PayInv, CompletedMeansGranted, SourceInv, history
  <2>a. request[w].ev = NoEvent
    BY <2>1 DEF Idle
  <2>10. RefundNoted'
    <3> SUFFICES ASSUME NEW s \in Session, Refunded(s) \in recorded' \ dropped',
                        \A v \in Worker : request'[v].ev = Refunded(s)
                                            => request'[v].next = "downgrade"
                 PROVE  status'[s] = "refunded" \/ s \in late'
      BY DEF RefundNoted
    <3>1. e # Refunded(s)
      BY <2>2, <2>3, <2>4, EventFacts
    <3>2. Refunded(s) \in Event
      BY EventKinds
    <3>3. \A v \in Worker : request[v].ev = Refunded(s) => request[v].next = "downgrade"
      BY <2>2, <2>a, <3>2, EventFacts
    <3> QED BY <1>1, <3>1, <3>3 DEF PayInv, RefundNoted, history
  <2>11. RefundRevokes'
    <3> SUFFICES ASSUME NEW s \in Session, NEW u \in User, Handled("charge.refunded", s)',
                        source'[u] = s
                 PROVE  s \in late'
      BY DEF RefundRevokes
    <3>1. e # Refunded(s)
      BY <2>2 DEF Handled, Refunded
    <3>2. Refunded(s) \in Event
      BY EventKinds
    <3>3. Handled("charge.refunded", s)
      BY <1>1, <2>2, <2>a, <3>1, <3>2, EventFacts DEF Handled, Refunded, history
    <3> QED BY <1>1, <3>3 DEF PayInv, RefundRevokes, history
  <2> QED BY <2>5, <2>6, <2>7, <2>8, <2>9, <2>10, <2>11 DEF PayInv
<1> QED BY <1>2, <1>3

\* A request that has answered: the others go on as they were.
LEMMA AnswerFrame ==
  ASSUME TypeOK, PayInv, NEW w \in Worker, request[w] # Idle,
         request' = [request EXCEPT ![w] = Idle]
  PROVE  /\ StepInv' /\ OneHandler'
         /\ \A v \in Worker : v # w => request'[v] = request[v]
         /\ request'[w] = Idle /\ request'[w].ev = NoEvent
         /\ request[w].ev \in recorded /\ request[w].ev \in Event
<1>1. /\ \A v \in Worker : v # w => request'[v] = request[v]
      /\ request'[w] = Idle /\ request'[w].ev = NoEvent /\ request'[w].next = "idle"
  BY DEF TypeOK, Idle
<1>2. StepInv'
  BY <1>1 DEF PayInv, StepInv
<1>3. OneHandler'
  <2> SUFFICES ASSUME NEW p \in Worker, NEW v \in Worker, p # v, request'[p].ev = request'[v].ev
               PROVE  request'[p] = Idle
    BY DEF OneHandler
  <2>1. CASE p = w
    BY <1>1, <2>1
  <2>2. CASE v = w
    <3>1. request[p].ev = NoEvent /\ request'[p] = request[p]
      BY <1>1, <2>2
    <3> QED BY <3>1, HandFacts, EventFacts
  <2>3. CASE p # w /\ v # w
    BY <1>1, <2>3 DEF PayInv, OneHandler
  <2> QED BY <2>1, <2>2, <2>3
<1> QED BY <1>1, <1>2, <1>3, HandFacts

\* The other requests handle other events.
LEMMA OnlyHandler ==
  ASSUME TypeOK, PayInv, NEW w \in Worker, request[w] # Idle, NEW v \in Worker, v # w
  PROVE  request[v].ev # request[w].ev
<1>1. request[w].ev \in Event
  BY HandFacts
<1>2. request[v] = Idle => request[v].ev = NoEvent
  BY HandFacts
<1> QED BY <1>1, <1>2, EventFacts DEF PayInv, OneHandler

\* Once a request has answered, what is said of refunds follows for the events of
\* the others, as long as payments and plans stay as they are.
LEMMA RefundFrame ==
  ASSUME TypeOK, PayInv, NEW w \in Worker, request[w] # Idle, NEW s \in Session,
         \A v \in Worker : v # w => request'[v] = request[v],
         UNCHANGED recorded, dropped \subseteq dropped',
         Refunded(s) # request[w].ev \/ Refunded(s) \in dropped'
  PROVE  /\ Refunded(s) \in recorded' \ dropped'
              /\ (\A v \in Worker : request'[v].ev = Refunded(s) => request'[v].next = "downgrade")
            => status[s] = "refunded" \/ s \in late
         /\ Handled("charge.refunded", s)'
              => /\ Handled("charge.refunded", s)
                 /\ status[s] = "refunded" \/ s \in late
<1>1. ASSUME Refunded(s) \in recorded' \ dropped',
             \A v \in Worker : request'[v].ev = Refunded(s) => request'[v].next = "downgrade"
      PROVE  status[s] = "refunded" \/ s \in late
  <2>1. Refunded(s) # request[w].ev
    BY <1>1
  <2> QED BY <1>1, <2>1 DEF PayInv, RefundNoted
<1>2. ASSUME Handled("charge.refunded", s)'
      PROVE  /\ Handled("charge.refunded", s)
             /\ status[s] = "refunded" \/ s \in late
  <2>1. Refunded(s) \in recorded' \ dropped' /\ \A v \in Worker : request'[v].ev # Refunded(s)
    BY <1>2 DEF Handled, Refunded
  <2>2. Refunded(s) # request[w].ev
    BY <2>1
  <2>3. Handled("charge.refunded", s)
    BY <2>1, <2>2 DEF Handled, Refunded
  <2> QED BY <1>1, <2>1, <2>3
<1> QED BY <1>1, <1>2

\* A request that ends without having changed payments or plans, and whose event
\* is no refund or counts as dropped.
LEMMA NothingDone ==
  ASSUME TypeOK, PayInv, NEW w \in Worker, request[w] # Idle,
         request' = [request EXCEPT ![w] = Idle],
         UNCHANGED <<checkout, sent, recorded, status, granted, source, late>>,
         dropped \subseteq dropped',
         request[w].ev.type # "charge.refunded" \/ request[w].ev \in dropped'
  PROVE  PayInv'
<1>1. /\ StepInv' /\ OneHandler' /\ request'[w].ev = NoEvent
      /\ \A v \in Worker : v # w => request'[v] = request[v]
      /\ request[w].ev \in Event
  BY AnswerFrame
<1>2. SentInv' /\ CompletedMeansGranted' /\ SourceInv'
  BY DEF PayInv, SentInv, CompletedMeansGranted, SourceInv
<1>3. GrantInv'
  <2>1. \A s \in granted : Completed(s) \in Event
    BY EventKinds DEF TypeOK
  <2> QED BY <1>1, <2>1, EventFacts DEF PayInv, GrantInv
<1>4. \A s \in Session : Refunded(s) # request[w].ev \/ Refunded(s) \in dropped'
  BY <1>1, EventFacts
<1>5. RefundNoted'
  BY <1>1, <1>4, RefundFrame DEF RefundNoted
<1>6. RefundRevokes'
  BY <1>1, <1>4, RefundFrame DEF PayInv, RefundRevokes
<1> QED BY <1>1, <1>2, <1>3, <1>5, <1>6 DEF PayInv

\* A request that goes on keeps its event; the others stay as they were.
LEMMA GoOnFrame ==
  ASSUME TypeOK, PayInv, NEW w \in Worker, request[w] # Idle, NEW step \in Step, GoOn(w, step),
         UNCHANGED <<recorded, granted>>,
         step = "complete" => request[w].ev.type = "checkout.session.completed",
         step = "expire" => request[w].ev.type = "checkout.session.expired",
         step \in {"refund", "downgrade"} => request[w].ev.type = "charge.refunded",
         step # "lookup"
  PROVE  /\ StepInv' /\ OneHandler' /\ GrantInv'
         /\ \A v \in Worker : request'[v].ev = request[v].ev
         /\ \A v \in Worker : v # w => request'[v] = request[v]
         /\ request'[w].next = step
<1>1. /\ \A v \in Worker : request'[v].ev = request[v].ev
      /\ \A v \in Worker : v # w => request'[v] = request[v]
      /\ request'[w].next = step
  BY DEF GoOn, TypeOK
<1>2. StepInv'
  BY <1>1 DEF PayInv, StepInv
<1>3. OneHandler'
  BY <1>1, OnlyHandler DEF PayInv, OneHandler
<1>4. GrantInv'
  BY <1>1 DEF PayInv, GrantInv
<1> QED BY <1>1, <1>2, <1>3, <1>4

\* Reading the payment's row preserves the invariant.
LEMMA LookupInv ==
  ASSUME TypeOK, PayInv, NEW w \in Worker, LookupPayment(w)
  PROVE  PayInv'
<1> DEFINE step == StepAfterLookup(request[w].ev, status[request[w].ev.session])
<1>1. /\ request[w].next = "lookup"
      /\ IF step = "respond" THEN Respond(w, TRUE) ELSE GoOn(w, step)
      /\ UNCHANGED <<checkout, sent, recorded, status, granted, source, dropped, late>>
  BY DEF LookupPayment, GetByStripeSessionID, stripe, history
<1>2. request[w] # Idle
  BY <1>1 DEF Idle
<1>3. /\ request[w].ev \in Event /\ request[w].ev.type \in EventType
      /\ request[w].ev.type # "customer.subscription.deleted"
      /\ request[w].ev.session \in Session
  BY <1>1, <1>2, HandFacts, EventFacts DEF PayInv, StepInv
<1>4. /\ step \in Step \union {"respond"} /\ step # "lookup" /\ step # "downgrade"
      /\ step = "complete" => request[w].ev.type = "checkout.session.completed"
      /\ step = "expire" => request[w].ev.type = "checkout.session.expired"
      /\ step = "refund" => request[w].ev.type = "charge.refunded"
      /\ step = "respond" => request[w].ev.type # "charge.refunded"
  BY <1>3 DEF StepAfterLookup, CompletionStep, ExpiryStep, Step, EventType
<1> HIDE DEF step
<1>5. CASE step = "respond"
  <2>1. request' = [request EXCEPT ![w] = Idle]
    BY <1>1, <1>5 DEF Respond
  <2> QED BY <1>1, <1>2, <1>4, <1>5, <2>1, NothingDone
<1>6. CASE step # "respond"
  <2>1. step \in Step /\ GoOn(w, step)
    BY <1>1, <1>4, <1>6
  <2>2. /\ StepInv' /\ OneHandler' /\ GrantInv'
        /\ \A v \in Worker : request'[v].ev = request[v].ev
        /\ \A v \in Worker : v # w => request'[v] = request[v]
        /\ request'[w].next = step
    BY <1>1, <1>2, <1>4, <2>1, GoOnFrame
  <2>3. SentInv' /\ CompletedMeansGranted' /\ SourceInv'
    BY <1>1 DEF PayInv, SentInv, CompletedMeansGranted, SourceInv
  <2>4. RefundNoted'
    BY <1>1, <1>4, <2>2 DEF PayInv, RefundNoted
  <2>5. RefundRevokes'
    BY <1>1, <2>2 DEF PayInv, RefundRevokes, Handled
  <2> QED BY <2>2, <2>3, <2>4, <2>5 DEF PayInv
<1> QED BY <1>5, <1>6

\* The completion's transaction preserves the invariant.  Its event is handled
\* once, so the plan was not granted before; a refund that was noted before makes
\* the grant a late one.
LEMMA CompleteInv ==
  ASSUME TypeOK, PayInv, NEW w \in Worker, NEW confirmed \in BOOLEAN,
         CompletePaymentTx(w, confirmed)
  PROVE  PayInv'
<1> DEFINE s0 == request[w].ev.session
           u0 == checkout[s0].user
<1>1. request[w] # Idle /\ request[w].ev.type = "checkout.session.completed"
  BY DEF CompletePaymentTx, Idle, PayInv, StepInv
<1>2. request[w].ev \in recorded /\ request[w].ev \in Event
  BY <1>1, HandFacts
<1>3. s0 \in Session /\ u0 \in User /\ request[w].ev = Completed(s0)
  BY <1>1, <1>2, EventFacts DEF TypeOK, Checkout
<1>4. /\ request' = [request EXCEPT ![w] = Idle]
      /\ status' = [status EXCEPT ![s0] = "completed"]
      /\ source' = [source EXCEPT ![u0] = s0]
      /\ granted' = granted \union {s0}
      /\ late' = IF status[s0] = "refunded" THEN late \union {s0} ELSE late
      /\ UNCHANGED <<checkout, sent, recorded, dropped>>
  BY DEF CompletePaymentTx, Respond, UpdateStatus, SetPlan, stripe
<1>5. /\ StepInv' /\ OneHandler' /\ request'[w].ev = NoEvent
      /\ \A v \in Worker : v # w => request'[v] = request[v]
  BY <1>1, <1>4, AnswerFrame
<1>6. \A s \in Session : Refunded(s) # request[w].ev /\ Completed(s) # NoEvent
  BY <1>1, <1>2, EventFacts, EventKinds
<1>a. /\ \A s \in Session : status'[s] = IF s = s0 THEN "completed" ELSE status[s]
      /\ \A u \in User : source'[u] = IF u = u0 THEN s0 ELSE source[u]
  BY <1>3, <1>4 DEF TypeOK
<1>b. \A v \in Worker : v # w => request[v].ev # Completed(s0)
  BY <1>1, <1>3, OnlyHandler
<1> HIDE DEF s0, u0
<1>7. SentInv'
  BY <1>4 DEF PayInv, SentInv
<1>8. GrantInv'
  <2> SUFFICES ASSUME NEW s \in granted'
               PROVE  Completed(s) \in recorded' /\ \A v \in Worker : request'[v].ev # Completed(s)
    BY DEF GrantInv
  <2>1. s \in Session
    BY <1>3, <1>4 DEF TypeOK
  <2>2. CASE s = s0
    BY <1>2, <1>3, <1>4, <1>5, <1>6, <1>b, <2>2
  <2>3. CASE s # s0
    BY <1>4, <1>5, <1>6, <2>1, <2>3 DEF PayInv, GrantInv
  <2> QED BY <2>2, <2>3
<1>9. CompletedMeansGranted'
  BY <1>3, <1>4, <1>a DEF PayInv, CompletedMeansGranted
<1>10. SourceInv'
  BY <1>3, <1>4, <1>a DEF PayInv, SourceInv, u0
<1>11. ASSUME NEW s \in Session
       PROVE  /\ Refunded(s) \in recorded' \ dropped'
                   /\ (\A v \in Worker : request'[v].ev = Refunded(s)
                                           => request'[v].next = "downgrade")
                 => status[s] = "refunded" \/ s \in late
              /\ Handled("charge.refunded", s)'
                   => /\ Handled("charge.refunded", s)
                      /\ status[s] = "refunded" \/ s \in late
  BY <1>1, <1>4, <1>5, <1>6, RefundFrame
<1>12. \A s \in Session : s \in late => s \in late'
  BY <1>4
<1>13. RefundNoted'
  BY <1>4, <1>11, <1>12, <1>a DEF RefundNoted
<1>14. RefundRevokes'
  <2> SUFFICES ASSUME NEW s \in Session, NEW u \in User, Handled("charge.refunded", s)',
                      source'[u] = s
               PROVE  s \in late'
    BY DEF RefundRevokes
  <2>1. Handled("charge.refunded", s) /\ (status[s] = "refunded" \/ s \in late)
    BY <1>11
  <2>2. CASE s = s0
    BY <1>4, <2>1, <2>2
  <2>3. CASE s # s0
    <3>1. source[u] = s
      BY <1>a, <2>3
    <3> QED BY <1>12, <2>1, <3>1 DEF PayInv, RefundRevokes
  <2> QED BY <2>2, <2>3
<1> QED BY <1>5, <1>7, <1>8, <1>9, <1>10, <1>13, <1>14 DEF PayInv

\* The expiry of a payment preserves the invariant: its session was never paid.
LEMMA ExpireInv ==
  ASSUME TypeOK, PayInv, NEW w \in Worker, ExpirePayment(w)
  PROVE  PayInv'
<1> DEFINE s0 == request[w].ev.session
<1>1. request[w] # Idle /\ request[w].ev.type = "checkout.session.expired"
  BY DEF ExpirePayment, Idle, PayInv, StepInv
<1>2. request[w].ev \in recorded /\ request[w].ev \in Event /\ recorded \subseteq sent
  BY <1>1, HandFacts
<1>3. s0 \in Session /\ request[w].ev = Expired(s0)
  BY <1>1, <1>2, EventFacts
<1>4. checkout[s0].state = "expired"
  BY <1>2, <1>3 DEF PayInv, SentInv
<1>5. s0 \notin granted /\ Refunded(s0) \notin recorded
  BY <1>3, <1>4, UnpaidFacts
<1>6. /\ request' = [request EXCEPT ![w] = Idle]
      /\ status' = [status EXCEPT ![s0] = "expired"]
      /\ UNCHANGED <<checkout, sent, recorded, granted, source, dropped, late>>
  BY DEF ExpirePayment, Respond, UpdateStatus, stripe, history
<1>7. /\ StepInv' /\ OneHandler' /\ request'[w].ev = NoEvent
      /\ \A v \in Worker : v # w => request'[v] = request[v]
  BY <1>1, <1>6, AnswerFrame
<1>8. \A s \in Session : Refunded(s) # request[w].ev /\ Completed(s) # NoEvent
  BY <1>1, <1>2, EventFacts, EventKinds
<1>9. \A s \in Session : status'[s] = IF s = s0 THEN "expired" ELSE status[s]
  BY <1>3, <1>6 DEF TypeOK
<1> HIDE DEF s0
<1>10. SentInv' /\ SourceInv'
  BY <1>6 DEF PayInv, SentInv, SourceInv
<1>11. GrantInv'
  BY <1>6, <1>7, <1>8 DEF PayInv, GrantInv, TypeOK
<1>12. CompletedMeansGranted'
  BY <1>5, <1>6, <1>9 DEF PayInv, CompletedMeansGranted
<1>13. RefundNoted'
  BY <1>1, <1>5, <1>6, <1>7, <1>8, <1>9, RefundFrame DEF RefundNoted
<1>14. RefundRevokes'
  BY <1>1, <1>6, <1>7, <1>8, RefundFrame DEF PayInv, RefundRevokes
<1> QED BY <1>7, <1>10, <1>11, <1>12, <1>13, <1>14 DEF PayInv

\* Noting a refund preserves the invariant.
LEMMA RefundInv ==
  ASSUME TypeOK, PayInv, NEW w \in Worker, RefundPayment(w)
  PROVE  PayInv'
<1> DEFINE s0 == request[w].ev.session
<1>1. request[w] # Idle /\ request[w].ev.type = "charge.refunded"
  BY DEF RefundPayment, Idle, PayInv, StepInv
<1>2. request[w].ev \in Event
  BY <1>1, HandFacts
<1>3. s0 \in Session /\ request[w].ev = Refunded(s0)
  BY <1>1, <1>2, EventFacts
<1>4. /\ GoOn(w, "downgrade")
      /\ status' = [status EXCEPT ![s0] = "refunded"]
      /\ UNCHANGED <<checkout, sent, recorded, granted, source, dropped, late>>
  BY DEF RefundPayment, UpdateStatus, stripe, history
<1>5. /\ StepInv' /\ OneHandler' /\ GrantInv'
      /\ \A v \in Worker : request'[v].ev = request[v].ev
      /\ \A v \in Worker : v # w => request'[v] = request[v]
  <2>1. "downgrade" \in Step
    BY DEF Step
  <2> QED BY <1>1, <1>4, <2>1, GoOnFrame
<1>6. \A s \in Session : status'[s] = IF s = s0 THEN "refunded" ELSE status[s]
  BY <1>3, <1>4 DEF TypeOK
<1>7. \A s \in Session : s # s0 => request[w].ev # Refunded(s)
  BY <1>2, EventFacts
<1> HIDE DEF s0
<1>8. SentInv' /\ SourceInv'
  BY <1>4 DEF PayInv, SentInv, SourceInv
<1>9. CompletedMeansGranted'
  BY <1>4, <1>6 DEF PayInv, CompletedMeansGranted
<1>10. RefundNoted'
  BY <1>4, <1>5, <1>6, <1>7 DEF PayInv, RefundNoted
<1>11. RefundRevokes'
  BY <1>4, <1>5 DEF PayInv, RefundRevokes, Handled
<1> QED BY <1>5, <1>8, <1>9, <1>10, <1>11 DEF PayInv

\* Taking a plan back preserves the invariant: the user of the session is left
\* without the plan, and another user's plan comes from another session.
LEMMA DowngradeInv ==
  ASSUME TypeOK, PayInv, NEW w \in Worker, DowngradePlan(w)
  PROVE  PayInv'
<1> DEFINE s0 == request[w].ev.session
           u0 == checkout[s0].user
<1>1. request[w] # Idle /\ request[w].next = "downgrade"
  BY DEF DowngradePlan, Idle
<1>2. request[w].ev \in Event
  BY <1>1, HandFacts
<1>3. /\ s0 \in Session /\ u0 \in User
      /\ \A s \in Session : s # s0 => request[w].ev # Refunded(s)
      /\ \A s \in Session : Completed(s) # NoEvent
  BY <1>2, EventFacts, EventKinds DEF TypeOK, Checkout
<1>4. /\ request' = [request EXCEPT ![w] = Idle]
      /\ source' = [source EXCEPT ![u0] = Nobody]
      /\ UNCHANGED <<checkout, sent, recorded, status, granted, dropped, late>>
  BY DEF DowngradePlan, Respond, SetPlan, stripe
<1>5. /\ StepInv' /\ OneHandler' /\ request'[w].ev = NoEvent
      /\ \A v \in Worker : v # w => request'[v] = request[v]
  BY <1>1, <1>4, AnswerFrame
<1>6. \A u \in User, s \in Session : source'[u] = s => u # u0 /\ source[u] = s
  BY <1>3, <1>4, PaymentAssumption DEF TypeOK
<1>7. SentInv' /\ CompletedMeansGranted'
  BY <1>4 DEF PayInv, SentInv, CompletedMeansGranted
<1>8. SourceInv'
  BY <1>4, <1>6 DEF PayInv, SourceInv
<1>9. GrantInv'
  BY <1>3, <1>4, <1>5 DEF PayInv, GrantInv, TypeOK
<1>10. RefundNoted'
  BY <1>1, <1>4, <1>5 DEF PayInv, RefundNoted
<1>11. RefundRevokes'
  <2> SUFFICES ASSUME NEW s \in Session, NEW u \in User, Handled("charge.refunded", s)',
                      source'[u] = s
               PROVE  s \in late'
    BY DEF RefundRevokes
  <2>1. u # u0 /\ source[u] = s
    BY <1>6
  <2>2. s # s0
    BY <2>1 DEF PayInv, SourceInv
  <2>3. Handled("charge.refunded", s)
    BY <1>1, <1>3, <1>4, <1>5, <2>2, RefundFrame
  <2> QED BY <1>4, <2>1, <2>3 DEF PayInv, RefundRevokes
<1> QED BY <1>5, <1>7, <1>8, <1>9, <1>10, <1>11 DEF PayInv

\* A failed statement ends the request and drops its event.
LEMMA FailsInv ==
  ASSUME TypeOK, PayInv, NEW w \in Worker, Fails(w)
  PROVE  PayInv'
<1>1. /\ request[w] # Idle /\ request' = [request EXCEPT ![w] = Idle]
      /\ UNCHANGED <<checkout, sent, recorded, status, granted, source, late>>
      /\ dropped' = dropped \union {request[w].ev}
  BY DEF Fails, Respond, stripe
<1> QED BY <1>1, NothingDone

\* A kill ends every request and drops its event.
LEMMA CrashInv ==
  ASSUME TypeOK, PayInv, Crash
  PROVE  PayInv'
<1>1. /\ \A v \in Worker : request'[v] = Idle /\ request'[v].ev = NoEvent /\ request'[v].next = "idle"
      /\ UNCHANGED <<checkout, sent, recorded, status, granted, source, late>>
      /\ dropped' = dropped \union ({request[v].ev : v \in Worker} \ {NoEvent})
  BY DEF Crash, stripe, Idle
<1>2. \A s \in Session : /\ Completed(s) # NoEvent /\ Refunded(s) # NoEvent
                         /\ Refunded(s) \notin dropped' => \A v \in Worker : request[v].ev # Refunded(s)
  BY <1>1, EventKinds, EventFacts
<1>3. SentInv' /\ CompletedMeansGranted' /\ SourceInv'
  BY <1>1 DEF PayInv, SentInv, CompletedMeansGranted, SourceInv
<1>4. StepInv' /\ OneHandler'
  BY <1>1 DEF StepInv, OneHandler
<1>5. GrantInv'
  BY <1>1, <1>2 DEF PayInv, GrantInv, TypeOK
<1>6. RefundNoted'
  BY <1>1, <1>2 DEF PayInv, RefundNoted
<1>7. RefundRevokes'
  BY <1>1, <1>2 DEF PayInv, RefundRevokes, Handled, Refunded
<1> QED BY <1>3, <1>4, <1>5, <1>6, <1>7 DEF PayInv

\* A plan that is set by POST /plan/upgrade comes from no checkout.
LEMMA UpgradeInv ==
  ASSUME TypeOK, PayInv, NEW u0 \in User, UpgradeSetPlan(u0)
  PROVE  PayInv'
<1>1. /\ source' = [source EXCEPT ![u0] = Nobody]
      /\ UNCHANGED <<checkout, sent, recorded, request, status, granted, dropped, late>>
  BY DEF UpgradeSetPlan, SetPlan, stripe
<1>2. \A u \in User, s \in Session : source'[u] = s => source[u] = s
  BY <1>1, PaymentAssumption DEF TypeOK
<1>3. SentInv' /\ StepInv' /\ OneHandler' /\ GrantInv'
  BY <1>1 DEF PayInv, SentInv, StepInv, OneHandler, GrantInv
<1>4. CompletedMeansGranted' /\ RefundNoted'
  BY <1>1 DEF PayInv, CompletedMeansGranted, RefundNoted
<1>5. SourceInv'
  BY <1>1, <1>2 DEF PayInv, SourceInv
<1>6. RefundRevokes'
  BY <1>1, <1>2 DEF PayInv, RefundRevokes, Handled
<1> QED BY <1>3, <1>4, <1>5, <1>6 DEF PayInv

\* The steps that touch nothing PayInv speaks of.
LEMMA OtherInv ==
  ASSUME TypeOK, PayInv, UNCHANGED <<checkout, sent, recorded, status, request, history>>
  PROVE  PayInv'
<1>1. SentInv'
  BY DEF PayInv, SentInv
<1> QED BY <1>1, ServiceFrame DEF PayInv

\* The inductive invariant holds, whatever Stripe repeats, delays or reorders and
\* wherever a handler fails or the server is killed.
THEOREM PayInvariant == Spec => []PayInv
<1>1. Init => PayInv
  <2> SUFFICES ASSUME Init PROVE PayInv
    OBVIOUS
  <2>1. SentInv /\ GrantInv /\ RefundNoted
    BY DEF Init, SentInv, GrantInv, RefundNoted
  <2>2. StepInv /\ OneHandler
    BY DEF Init, StepInv, OneHandler, Idle
  <2>3. CompletedMeansGranted
    BY DEF Init, CompletedMeansGranted
  <2>4. SourceInv /\ RefundRevokes
    BY PaymentAssumption DEF Init, SourceInv, RefundRevokes
  <2> QED BY <2>1, <2>2, <2>3, <2>4 DEF PayInv
<1>2. TypeOK /\ PayInv /\ [Next]_vars => PayInv'
  <2> SUFFICES ASSUME TypeOK, PayInv, [Next]_vars PROVE PayInv'
    OBVIOUS
  <2>1. ASSUME NEW u \in User, UpgradeSetPlan(u) \/ \E p \in ValidPlans : UpgradePlan(u, p)
        PROVE  PayInv'
    <3>1. CASE UpgradeSetPlan(u)
      BY <3>1, UpgradeInv
    <3>2. CASE \E p \in ValidPlans : UpgradePlan(u, p)
      BY <3>2, OtherInv DEF UpgradePlan, stripe
    <3> QED BY <2>1, <3>1, <3>2
  <2>2. CASE UNCHANGED vars
    BY <2>2, OtherInv DEF vars
  <2>3. ASSUME NEW w \in Worker, Handles(w) PROVE PayInv'
    BY <2>3, LookupInv, CompleteInv, ExpireInv, RefundInv, DowngradeInv, FailsInv DEF Handles
  <2>4. ASSUME NEW s \in Session, CreateCheckoutSession(s) \/ CreatePayment(s) PROVE PayInv'
    BY <2>4, CheckoutInv
  <2>5. ASSUME NEW s \in Session, \/ CustomerPays(s) \/ SessionExpires(s)
                                  \/ ChargeRefunded(s) \/ SubscriptionEnds(s)
        PROVE  PayInv'
    BY <2>5, EmitInv
  <2>6. ASSUME NEW w \in Worker, NEW e \in sent, NEW signature, HandleWebhook(w, e, signature)
        PROVE  PayInv'
    BY <2>6, DeliveryInv
  <2> QED BY <2>1, <2>2, <2>3, <2>4, <2>5, <2>6, CrashInv DEF Next
<1> QED BY <1>1, <1>2, TypeCorrect, PTL DEF Spec

\* A payment is completed exactly when its plan was granted, until a refund is
\* noted on it, for any number of requests at a time.
THEOREM CompletedIsGranted == Spec => []CompletedMeansGranted
<1>1. PayInv => CompletedMeansGranted
  BY DEF PayInv
<1> QED BY <1>1, PayInvariant, PTL

\* A refund handled to its end leaves nobody on the plan it paid for, unless the
\* completion was handled after the refund was noted.
THEOREM RefundsRevoke == Spec => []RefundRevokes
<1>1. PayInv => RefundRevokes
  BY DEF PayInv
<1> QED BY <1>1, PayInvariant, PTL

-----------------------------------------------------------------------------
(***************************************************************************)
(* The refinement.                                                         *)
(***************************************************************************)
\* A step that changes neither the paid checkouts nor the grants.
LEMMA PaidFrame ==
  ASSUME TypeOK, NEW s \in Session, NEW to,
         checkout' = [checkout EXCEPT ![s].state = to],
         checkout[s].state \in {"paid", "refunded"} <=> to \in {"paid", "refunded"}
  PROVE  Paid' = Paid
<1>1. /\ checkout'[s].state = to
      /\ \A z \in Session : z # s => checkout'[z] = checkout[z]
  BY DEF TypeOK, Checkout
<1> QED BY <1>1 DEF Paid

\* What Stripe does pays a checkout or stutters.
LEMMA StripeGrants ==
  ASSUME TypeOK, NEW s \in Session,
         \/ CreateCheckoutSession(s) \/ CreatePayment(s)
         \/ CustomerPays(s) \/ SessionExpires(s) \/ ChargeRefunded(s) \/ SubscriptionEnds(s)
  PROVE  /\ UNCHANGED <<granted, source>>
         /\ Paid' = Paid \/ Paid' = Paid \union {s}
<1>1. CASE CreateCheckoutSession(s) \/ CreatePayment(s)
  <2>1. PICK to \in {"created", "open"} : checkout' = [checkout EXCEPT ![s].state = to]
    BY <1>1 DEF CreateCheckoutSession, CreatePayment, NewSession, ReturnURL
  <2>2. checkout[s].state \notin {"paid", "refunded"} /\ UNCHANGED <<granted, source>>
    BY <1>1 DEF CreateCheckoutSession, CreatePayment, history
  <2>3. to \notin {"paid", "refunded"}
    OBVIOUS
  <2> QED BY <2>1, <2>2, <2>3, PaidFrame
<1>2. CASE CustomerPays(s)
  <2>1. checkout' = [checkout EXCEPT ![s].state = "paid"] /\ UNCHANGED <<granted, source>>
    BY <1>2 DEF CustomerPays, Emit, history
  <2>2. checkout'[s].state = "paid" /\ \A z \in Session : z # s => checkout'[z] = checkout[z]
    BY <2>1 DEF TypeOK, Checkout
  <2> QED BY <2>1, <2>2 DEF Paid
<1>3. CASE SessionExpires(s)
  <2>1. /\ checkout' = [checkout EXCEPT ![s].state = "expired"] /\ UNCHANGED <<granted, source>>
        /\ checkout[s].state \in {"created", "open"}
    BY <1>3 DEF SessionExpires, Emit, history
  <2> QED BY <2>1, PaidFrame
<1>4. CASE ChargeRefunded(s)
  <2>1. /\ checkout' = [checkout EXCEPT ![s].state = "refunded"] /\ UNCHANGED <<granted, source>>
        /\ checkout[s].state = "paid"
    BY <1>4 DEF ChargeRefunded, Emit, history
  <2> QED BY <2>1, PaidFrame
<1>5. CASE SubscriptionEnds(s)
  <2>1. PICK st \in {"paid", "refunded"} : Emit(s, {st}, st, "customer.subscription.deleted")
    BY <1>5 DEF SubscriptionEnds
  <2>2. /\ checkout' = [checkout EXCEPT ![s].state = st] /\ UNCHANGED <<granted, source>>
        /\ checkout[s].state = st
    BY <2>1 DEF Emit, history
  <2> QED BY <2>2, PaidFrame
<1> QED BY <1>1, <1>2, <1>3, <1>4, <1>5

\* The completion's transaction grants a checkout that was paid and not granted.
LEMMA CompleteGrants ==
  ASSUME TypeOK, PayInv, NEW w \in Worker, NEW confirmed \in BOOLEAN,
         CompletePaymentTx(w, confirmed)
  PROVE  \E u \in User, s \in Session : Grants!Grant(u, s)
<1> DEFINE s0 == request[w].ev.session
           u0 == checkout[s0].user
<1>1. request[w] # Idle /\ request[w].ev.type = "checkout.session.completed"
  BY DEF CompletePaymentTx, Idle, PayInv, StepInv
<1>2. request[w].ev \in recorded /\ request[w].ev \in Event /\ recorded \subseteq sent
  BY <1>1, HandFacts
<1>3. s0 \in Session /\ u0 \in User /\ request[w].ev = Completed(s0)
  BY <1>1, <1>2, EventFacts DEF TypeOK, Checkout
<1>4. s0 \in Paid
  BY <1>2, <1>3 DEF PayInv, SentInv, Paid
<1>5. s0 \notin granted
  BY <1>3 DEF PayInv, GrantInv
<1>6. /\ granted' = granted \union {s0} /\ source' = [source EXCEPT ![u0] = s0]
      /\ UNCHANGED checkout
  BY DEF CompletePaymentTx, SetPlan, stripe
<1>7. Grants!Grant(u0, s0)
  BY <1>4, <1>5, <1>6 DEF Grants!Grant, Paid
<1> QED BY <1>3, <1>7

\* Whatever Stripe repeats, delays or reorders and wherever a handler fails: a
\* plan is granted for paid checkouts only, once for each, and a grant that was
\* taken back never returns.
THEOREM EntitlementImplemented == Spec => ImplementsEntitlement
<1>1. Init => Grants!Init
  <2> SUFFICES ASSUME Init PROVE Grants!Init
    OBVIOUS
  <2>1. Paid = {}
    BY DEF Init, Paid
  <2> QED BY <2>1 DEF Init, Grants!Init
<1>2. TypeOK /\ PayInv /\ [Next]_vars => [Grants!Next]_<<Paid, granted, source>>
  <2> SUFFICES ASSUME TypeOK, PayInv, [Next]_vars
               PROVE  Grants!Next \/ UNCHANGED <<Paid, granted, source>>
    OBVIOUS
  <2>1. ASSUME NEW s \in Session,
               \/ CreateCheckoutSession(s) \/ CreatePayment(s)
               \/ CustomerPays(s) \/ SessionExpires(s) \/ ChargeRefunded(s) \/ SubscriptionEnds(s)
        PROVE  Grants!Next \/ UNCHANGED <<Paid, granted, source>>
    BY <2>1, StripeGrants DEF Grants!Next, Grants!Pay
  <2>2. ASSUME NEW w \in Worker, NEW confirmed \in BOOLEAN,
               CompletePaymentTx(w, confirmed)
        PROVE  Grants!Next
    BY <2>2, CompleteGrants DEF Grants!Next
  <2>3. ASSUME NEW w \in Worker, DowngradePlan(w) PROVE Grants!Next
    <3> DEFINE u0 == checkout[request[w].ev.session].user
    <3>1. request[w].ev.session \in Session
      BY <2>3, HandFacts, EventFacts DEF DowngradePlan, Idle
    <3>2. u0 \in User
      BY <3>1 DEF TypeOK, Checkout
    <3>3. source' = [source EXCEPT ![u0] = Nobody] /\ UNCHANGED <<checkout, granted>>
      BY <2>3 DEF DowngradePlan, SetPlan, stripe
    <3>4. Grants!Release(u0)
      BY <3>3 DEF Grants!Release, Paid
    <3> QED BY <3>2, <3>4 DEF Grants!Next
  <2>4. ASSUME NEW u \in User, UpgradeSetPlan(u) PROVE Grants!Next
    <3>1. Grants!Release(u)
      BY <2>4 DEF UpgradeSetPlan, SetPlan, stripe, Grants!Release, Paid
    <3> QED BY <3>1 DEF Grants!Next
  <2>5. ASSUME UNCHANGED <<checkout, granted, source>>
        PROVE  UNCHANGED <<Paid, granted, source>>
    BY <2>5 DEF Paid
  <2>6. ASSUME NEW w \in Worker,
               \/ LookupPayment(w) \/ ExpirePayment(w) \/ RefundPayment(w) \/ Fails(w)
               \/ \E e \in sent, signature \in {"fresh", "stale"} : HandleWebhook(w, e, signature)
        PROVE  UNCHANGED <<checkout, granted, source>>
    BY <2>6 DEF LookupPayment, ExpirePayment, RefundPayment, Fails, HandleWebhook, stripe, history
  <2>7. ASSUME NEW u \in User, NEW p \in ValidPlans, UpgradePlan(u, p)
        PROVE  UNCHANGED <<checkout, granted, source>>
    BY <2>7 DEF UpgradePlan, stripe, history
  <2>8. CASE Crash
    BY <2>5, <2>8 DEF Crash, stripe
  <2>9. CASE UNCHANGED vars
    BY <2>5, <2>9 DEF vars, history
  <2> QED BY <2>1, <2>2, <2>3, <2>4, <2>5, <2>6, <2>7, <2>8, <2>9 DEF Next, Handles
<1> QED BY <1>1, <1>2, TypeCorrect, PayInvariant, PTL DEF Spec, ImplementsEntitlement, Grants!Spec
=============================================================================
