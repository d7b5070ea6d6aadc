-------------------------------- MODULE Payment --------------------------------
(***************************************************************************)
(* Checkouts, payments and plans (service/payment_service.go,              *)
(* service/plan_service.go, their repositories and handlers).              *)
(*                                                                         *)
(* Stripe is external: it keeps the checkout sessions, sends one event per *)
(* change and repeats it until it is answered with 200; an event may also  *)
(* arrive twice, late, or while another one is handled.  A request is one  *)
(* goroutine; every statement of a handler is a step of its own, and may   *)
(* fail.  The handlers look for the session id, or the user, in the        *)
(* event's object; an object of Stripe's that does not hold it is a lookup *)
(* without a row, or a missing field: an error (Fails).                    *)
(***************************************************************************)
EXTENDS FiniteSets

CONSTANTS User, Session,
          Worker,      \* webhook requests served at the same time
          Failures,    \* TRUE: statements fail and the server is killed
          Nobody, NoEvent

ValidPlans == {"free", "pro", "lifetime"}
PlanAmounts == {"pro", "lifetime"}  \* the plans that have a price
Status == {"none", "pending", "completed", "expired", "refunded"}
EventType == {"checkout.session.completed", "customer.subscription.deleted",
              "checkout.session.expired", "charge.refunded"}
Event == [type : EventType, session : Session]

ASSUME PaymentAssumption ==
  Failures \in BOOLEAN /\ Nobody \notin Session /\ NoEvent \notin Event

VARIABLES checkout,  \* Stripe's sessions
          sent,      \* events Stripe has sent
          acked,     \* events answered with 200
          recorded,  \* stripe_webhook_events
          status,    \* payments.status per session
          plan,      \* users.plan
          upgrading, \* per user: the plan an UpgradePlan request is about to set
          request,   \* per worker: the event in hand and the next statement
          \* history variables
          granted,   \* sessions CompletePaymentTx committed for
          source,    \* per user: the session the plan comes from
          dropped,   \* events whose handling stopped after they were recorded
          late       \* sessions completed after their refund was noted

stripe == <<checkout, sent>>
history == <<granted, source, dropped, late>>
vars == <<checkout, sent, acked, recorded, status, plan, upgrading, request, history>>

Checkout == [state : {"none", "created", "open", "paid", "expired", "refunded"},
             user : User, plan : PlanAmounts]
Idle == [ev |-> NoEvent, next |-> "idle"]
Step == {"lookup", "complete", "expire", "refund", "downgrade"}

TypeOK ==
  /\ checkout \in [Session -> Checkout]
  /\ acked \subseteq sent /\ recorded \subseteq sent /\ sent \subseteq Event
  /\ status \in [Session -> Status]
  /\ plan \in [User -> ValidPlans]
  /\ upgrading \in [User -> ValidPlans \union {Nobody}]
  /\ request \in [Worker -> [ev : Event \union {NoEvent}, next : {"idle"} \union Step]]
  /\ \A w \in Worker : request[w] = Idle \/ request[w].ev \in recorded
  /\ granted \subseteq Session /\ late \subseteq granted /\ dropped \subseteq recorded
  /\ source \in [User -> Session \union {Nobody}]

Init ==
  /\ checkout \in [Session -> {c \in Checkout : c.state = "none"}]
  /\ sent = {} /\ acked = {} /\ recorded = {}
  /\ status = [s \in Session |-> "none"]
  /\ plan = [u \in User |-> "free"]
  /\ upgrading = [u \in User |-> Nobody]
  /\ request = [w \in Worker |-> Idle]
  /\ granted = {} /\ dropped = {} /\ late = {}
  /\ source = [u \in User |-> Nobody]

-----------------------------------------------------------------------------
(***************************************************************************)
(* Stripe (external).                                                      *)
(***************************************************************************)
\* The mode a plan is sold in.
PlanConfig(p) == IF p = "pro" THEN "subscription" ELSE "payment"

Emit(s, from, to, type) ==
  /\ checkout[s].state \in from
  /\ checkout' = [checkout EXCEPT ![s].state = to]
  /\ sent' = sent \union {[type |-> type, session |-> s]}
  /\ UNCHANGED <<acked, recorded, status, plan, upgrading, request, history>>

CustomerPays(s) == Emit(s, {"open"}, "paid", "checkout.session.completed")
SessionExpires(s) == Emit(s, {"created", "open"}, "expired", "checkout.session.expired")
ChargeRefunded(s) == Emit(s, {"paid"}, "refunded", "charge.refunded")

\* A pro subscription ends; the session keeps its state.
SubscriptionEnds(s) ==
  /\ PlanConfig(checkout[s].plan) = "subscription"
  /\ \E st \in {"paid", "refunded"} : Emit(s, {st}, st, "customer.subscription.deleted")

-----------------------------------------------------------------------------
(***************************************************************************)
(* Checkout.                                                               *)
(***************************************************************************)
\* session.New at Stripe.
NewSession(s) == checkout' = [checkout EXCEPT ![s].state = "created"]

CreateCheckoutSession(s) ==
  /\ checkout[s].state = "none"
  /\ checkout[s].plan \in PlanAmounts
  /\ NewSession(s)
  /\ UNCHANGED <<sent, acked, recorded, status, plan, upgrading, request, history>>

\* The answer with the session's URL: from now on the customer can pay.
ReturnURL(s) == checkout' = [checkout EXCEPT ![s].state = "open"]
InsertPayment(s) == status' = [status EXCEPT ![s] = "pending"]

\* The URL is returned only when the pending row was stored.
CreatePayment(s) ==
  /\ checkout[s].state = "created" /\ status[s] = "none"
  /\ InsertPayment(s)
  /\ ReturnURL(s)
  /\ UNCHANGED <<sent, acked, recorded, plan, upgrading, request, history>>

-----------------------------------------------------------------------------
(***************************************************************************)
(* Webhooks.  The answer is 200 for nil and ErrPaymentAlreadyDone.         *)
(***************************************************************************)
Respond(w, ok) ==
  /\ request' = [request EXCEPT ![w] = Idle]
  /\ acked' = IF ok THEN acked \union {request[w].ev} ELSE acked

GoOn(w, step) ==
  /\ request' = [request EXCEPT ![w].next = step]
  /\ UNCHANGED acked

\* Mutant: every delivery is taken for a new event.
RecordWebhookEventAlways(e) == TRUE

\* INSERT ... ON CONFLICT DO NOTHING RETURNING true: is the event new?
RecordWebhookEvent(e) == e \notin recorded

\* A refund or completion starts with the payment's row, a cancelled
\* subscription with the plan.
FirstStep(e) == IF e.type = "customer.subscription.deleted" THEN "downgrade" ELSE "lookup"

\* The signature matches and its timestamp is not older than 5 minutes.
VerifyStripeSignature(signature) == signature = "fresh"

\* A delivery with a bad signature is answered with 400 and changes nothing.
HandleWebhook(w, e, signature) ==
  /\ request[w] = Idle /\ e \in sent
  /\ VerifyStripeSignature(signature)
  /\ recorded' = recorded \union {e}
  /\ IF RecordWebhookEvent(e)
     THEN request' = [request EXCEPT ![w] = [ev |-> e, next |-> FirstStep(e)]]
          /\ UNCHANGED acked
     ELSE acked' = acked \union {e} /\ UNCHANGED request
  /\ UNCHANGED <<stripe, status, plan, upgrading, history>>

\* payments.status by session; no row is an error (Fails).
GetByStripeSessionID(s) == status[s]

\* Mutant: a pending payment is taken for a completed one.
CompletionStepPendingDone(st) == IF st # "refunded" THEN "respond" ELSE "complete"

\* What each handler does next with the status it read.
CompletionStep(st) == IF st = "completed" THEN "respond" ELSE "complete"
ExpiryStep(st) == IF st # "pending" THEN "respond" ELSE "expire"
StepAfterLookup(e, st) ==
  CASE e.type = "checkout.session.completed" -> CompletionStep(st)
    [] e.type = "checkout.session.expired"   -> ExpiryStep(st)
    [] OTHER                                 -> "refund"

LookupPayment(w) ==
  LET e == request[w].ev
      st == GetByStripeSessionID(e.session)
      step == StepAfterLookup(e, st)
  IN  /\ request[w].next = "lookup" /\ st # "none"
      /\ IF step = "respond" THEN Respond(w, TRUE) ELSE GoOn(w, step)
      /\ UNCHANGED <<stripe, recorded, status, plan, upgrading, history>>

\* UPDATE payments SET status, whatever it was.
UpdateStatus(s, to) == status' = [status EXCEPT ![s] = to]

SetPlan(u, p, from) ==
  /\ plan' = [plan EXCEPT ![u] = p]
  /\ source' = [source EXCEPT ![u] = from]

\* Mutant: two statements without a transaction; the second one may fail.
CompletePaymentNoTx(w, confirmed) ==
  LET s == request[w].ev.session
  IN  /\ request[w].next = "complete"
      /\ UpdateStatus(s, "completed")
      /\ Respond(w, FALSE)
      /\ dropped' = dropped \union {request[w].ev}
      /\ UNCHANGED <<stripe, recorded, plan, source, granted, late, upgrading>>

\* One transaction: the payment's status and the user's plan.  A COMMIT that takes
\* effect and is not confirmed is an error: 500.
CompletePaymentTx(w, confirmed) ==
  LET s == request[w].ev.session
  IN  /\ request[w].next = "complete" /\ (confirmed \/ Failures)
      /\ UpdateStatus(s, "completed")
      /\ SetPlan(checkout[s].user, checkout[s].plan, s)
      /\ granted' = granted \union {s}
      /\ late' = IF status[s] = "refunded" THEN late \union {s} ELSE late
      /\ Respond(w, confirmed)
      /\ UNCHANGED <<stripe, recorded, upgrading, dropped>>

ExpirePayment(w) ==
  /\ request[w].next = "expire"
  /\ UpdateStatus(request[w].ev.session, "expired")
  /\ Respond(w, TRUE)
  /\ UNCHANGED <<stripe, recorded, plan, upgrading, history>>

RefundPayment(w) ==
  /\ request[w].next = "refund"
  /\ UpdateStatus(request[w].ev.session, "refunded")
  /\ GoOn(w, "downgrade")
  /\ UNCHANGED <<stripe, recorded, plan, upgrading, history>>

\* Mutant: a refund leaves the plan of a lifetime user alone.
DowngradeUnlessLifetime(w) ==
  LET u == checkout[request[w].ev.session].user
  IN  /\ request[w].next = "downgrade"
      /\ IF plan[u] = "lifetime" THEN UNCHANGED <<plan, source>>
         ELSE SetPlan(u, "free", Nobody)
      /\ Respond(w, TRUE)
      /\ UNCHANGED <<stripe, recorded, status, upgrading, granted, dropped, late>>

\* SetPlan "free", for a refund and for a subscription that ended.
DowngradePlan(w) ==
  /\ request[w].next = "downgrade"
  /\ SetPlan(checkout[request[w].ev.session].user, "free", Nobody)
  /\ Respond(w, TRUE)
  /\ UNCHANGED <<stripe, recorded, status, upgrading, granted, dropped, late>>

\* A statement fails (or finds no row): 500, and the event stays recorded.  The
\* error of a refund's SetPlan is only logged: 200.
Fails(w) ==
  /\ request[w] # Idle
  /\ Failures \/ (request[w].next = "lookup" /\ status[request[w].ev.session] = "none")
  /\ Respond(w, request[w].next = "downgrade" /\ request[w].ev.type = "charge.refunded")
  /\ dropped' = dropped \union {request[w].ev}
  /\ UNCHANGED <<stripe, recorded, status, plan, upgrading, granted, source, late>>

\* The server is killed: no answer is sent.
Crash ==
  /\ Failures
  /\ request' = [w \in Worker |-> Idle]
  /\ dropped' = dropped \union ({request[w].ev : w \in Worker} \ {NoEvent})
  /\ upgrading' = [u \in User |-> Nobody]
  /\ UNCHANGED <<stripe, acked, recorded, status, plan, granted, source, late>>

-----------------------------------------------------------------------------
(***************************************************************************)
(* POST /plan/upgrade: any valid plan is taken, unless the plan read first *)
(* is lifetime.                                                            *)
(***************************************************************************)
GetPlan(u) == plan[u]

UpgradePlan(u, p) ==
  /\ upgrading[u] = Nobody
  /\ GetPlan(u) # "lifetime" \/ p = "lifetime"
  /\ upgrading' = [upgrading EXCEPT ![u] = p]
  /\ UNCHANGED <<stripe, acked, recorded, status, plan, request, history>>

UpgradeSetPlan(u) ==
  /\ upgrading[u] # Nobody
  /\ SetPlan(u, upgrading[u], Nobody)
  /\ upgrading' = [upgrading EXCEPT ![u] = Nobody]
  /\ UNCHANGED <<stripe, acked, recorded, status, request, granted, dropped, late>>

Handles(w) ==
  \/ LookupPayment(w) \/ \E confirmed \in BOOLEAN : CompletePaymentTx(w, confirmed)
  \/ ExpirePayment(w) \/ RefundPayment(w) \/ DowngradePlan(w) \/ Fails(w)

Next ==
  \/ \E s \in Session : \/ CreateCheckoutSession(s) \/ CreatePayment(s)
                        \/ CustomerPays(s) \/ SessionExpires(s)
                        \/ ChargeRefunded(s) \/ SubscriptionEnds(s)
  \/ \E w \in Worker :
       \/ Handles(w)
       \/ \E e \in sent, signature \in {"fresh", "stale"} : HandleWebhook(w, e, signature)
  \/ \E u \in User : UpgradeSetPlan(u) \/ \E p \in ValidPlans : UpgradePlan(u, p)
  \/ Crash

Spec == Init /\ [][Next]_vars

\* A handler that runs comes to its end; Stripe repeats an event until it is
\* answered, and finds a goroutine free for it again and again.
FairSpec ==
  /\ Spec
  /\ \A w \in Worker : WF_vars(Handles(w))
  /\ \A e \in Event : 
       SF_vars(e \notin acked /\ \E w \in Worker : HandleWebhook(w, e, "fresh"))

-----------------------------------------------------------------------------
(***************************************************************************)
(* Properties                                                              *)
(***************************************************************************)
Handled(type, s) ==
  LET e == [type |-> type, session |-> s]
  IN  e \in recorded \ dropped /\ \A w \in Worker : request[w].ev # e

\* However often, in whatever order and beside which other events Stripe
\* delivers: a plan is granted for paid checkouts only, once for each, and a
\* grant that was taken back stays so.
Paid == {s \in Session : checkout[s].state \in {"paid", "refunded"}}
Grants == INSTANCE Entitlement WITH paid <- Paid, granted <- granted, holder <- source
ImplementsEntitlement == Grants!Spec

\* A refund that was handled to its end leaves nobody on the plan it paid for,
\* unless the payment's completion was handled after the refund was noted.
RefundRevokes ==
  \A s \in Session, u \in User :
    Handled("charge.refunded", s) /\ source[u] = s => s \in late

\* The payment's row and the plan move together: a payment is completed exactly
\* when its plan was granted, until a refund is noted on it.
CompletedMeansGranted ==
  \A s \in Session : /\ status[s] = "completed" => s \in granted
                     /\ s \in granted => status[s] \in {"completed", "refunded"}

\* A paid checkout is granted, unless the handling of its event stopped after
\* the event was recorded: then Stripe's repetitions are skipped as duplicates.
PaidIsGranted ==
  \A s \in Session :
    s \in Paid ~>
      s \in granted \/ [type |-> "checkout.session.completed", session |-> s] \in dropped
=============================================================================
