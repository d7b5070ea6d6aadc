----------------------------- MODULE Entitlement -----------------------------
(***************************************************************************)
(* What the payment service promises: a plan is granted for a checkout     *)
(* only after it was paid, at most once per checkout, and a grant that was *)
(* taken back (refund, cancelled subscription, replaced by another plan)   *)
(* never comes back by itself, however often and in whatever order the     *)
(* payment provider's messages arrive.                                     *)
(***************************************************************************)
CONSTANTS User, Session, Nobody
VARIABLES paid,     \* checkouts the customer paid
          granted,  \* checkouts a plan was granted for, ever
          holder    \* per user: the checkout the current plan comes from

Init ==
  /\ paid = {} /\ granted = {}
  /\ holder = [u \in User |-> Nobody]

Pay(s) == paid' = paid \union {s} /\ UNCHANGED <<granted, holder>>

Grant(u, s) ==
  /\ s \in paid \ granted
  /\ granted' = granted \union {s}
  /\ holder' = [holder EXCEPT ![u] = s]
  /\ UNCHANGED paid

Release(u) == holder' = [holder EXCEPT ![u] = Nobody] /\ UNCHANGED <<paid, granted>>

Next ==
  \/ \E s \in Session : Pay(s)
  \/ \E u \in User : Release(u) \/ \E s \in Session : Grant(u, s)

Spec == Init /\ [][Next]_<<paid, granted, holder>>
=============================================================================
