------------------------------ MODULE Billing -------------------------------
(***************************************************************************)
(* Subscriptions: the checkout and the cancellation of handler/billing.go, *)
(* Stripe, and the webhook it calls until it is answered 200.  Stripe's    *)
(* calls of several events overlap and come in any order; each call finds  *)
(* the user by the customer of the event and then sets the plan.           *)
(***************************************************************************)
EXTENDS Account

CONSTANT Hook    \* goroutines that serve webhook calls

VARIABLES
    cust,        \* the Stripe customer a request works with, named by the checkout that made it
    sub,         \* Stripe: the subscription of a checkout
    due,         \* Stripe: the events not yet answered 200
    event,       \* the event a webhook call carries
    target,      \* the row it has found
    unsaved,     \* customers whose UPDATE of the row failed, for the properties
    clean        \* accounts no irregularity has touched, for the properties

stripeVars == <<sub, due, event, target>>
vars == <<accountVars, cust, stripeVars, unsaved, clean>>

Event == [type: {"completed", "deleted"}, of: Request]
ASSUME BillingConstants == None \notin Event

TypeOK ==
    /\ AccountTypeOK
    /\ cust \in [Request -> Request \cup {None}]
    /\ sub \in [Request -> {"none", "open", "active", "ending", "ended"}]
    /\ due \subseteq Event
    /\ event \in [Hook -> Event \cup {None}] /\ target \in [Hook -> Email \cup {None}]
    /\ unsaved \subseteq Request /\ clean \subseteq Email

BillingInit ==
    /\ cust = [r \in Request |-> None] /\ sub = [r \in Request |-> "none"]
    /\ due = {} /\ event = [h \in Hook |-> None] /\ target = [h \in Hook |-> None]
    /\ unsaved = {} /\ clean = Email

-----------------------------------------------------------------------------
(* POST /api/billing/create-checkout                                       *)

\* FindByID, and the customer of the row if it has one.
FindCustomer(r) ==
    /\ phase[r] = "admitted" /\ call[r].op = "checkout"
    /\ LET c == users[call[r].by].customer
       IN  \/ cust' = [cust EXCEPT ![r] = c] /\ Goto(r, IF c = None THEN "customer" ELSE "session")
           \/ Goto(r, "not_found") /\ UNCHANGED cust
    /\ UNCHANGED <<users, cache, call, seen, account, audits, unwritten, earlier, blind,
                   stripeVars, unsaved, clean>>

\* customer.New.
NewCustomer(r) ==
    /\ phase[r] = "customer"
    /\ \/ cust' = [cust EXCEPT ![r] = r] /\ Goto(r, "save")
       \/ Goto(r, "failed") /\ UNCHANGED cust
    /\ UNCHANGED <<users, cache, call, seen, account, audits, unwritten, earlier, blind,
                   stripeVars, unsaved, clean>>

\* Mutant of SaveCustomer: the customer is not kept.
ForgetCustomer(r) ==
    /\ phase[r] = "save"
    /\ Goto(r, "session")
    /\ UNCHANGED <<users, cache, call, seen, account, audits, unwritten, earlier, blind, cust,
                   stripeVars, unsaved, clean>>

\* UpdateStripeCustomerID, whose error is only logged.
SaveCustomer(r) ==
    LET e == call[r].by
    IN  /\ phase[r] = "save"
        /\ \/ Update(e, [users[e] EXCEPT !.customer = r]) /\ UNCHANGED unsaved
           \/ unsaved' = unsaved \cup {r} /\ UNCHANGED users
        /\ Goto(r, "session")
        /\ UNCHANGED <<cache, call, seen, account, audits, unwritten, earlier, blind, cust,
                       stripeVars, clean>>

\* Mutant of NewSession: the plan is given with the session.
NewSessionAsPro(r) ==
    /\ phase[r] = "session"
    /\ sub' = [sub EXCEPT ![r] = "open"] /\ Goto(r, "ok")
    /\ users' = [users EXCEPT ![call[r].by].plan = "pro"]
    /\ UNCHANGED <<cache, call, seen, account, audits, unwritten, earlier, blind, cust,
                   due, event, target, unsaved, clean>>

\* checkoutsession.New.
NewSession(r) ==
    /\ phase[r] = "session"
    /\ \/ sub' = [sub EXCEPT ![r] = "open"] /\ Goto(r, "ok")
       \/ Goto(r, "failed") /\ UNCHANGED sub
    /\ UNCHANGED <<users, cache, call, seen, account, audits, unwritten, earlier, blind, cust,
                   due, event, target, unsaved, clean>>

CreateCheckout(r) == FindCustomer(r) \/ NewCustomer(r) \/ SaveCustomer(r) \/ NewSession(r)

-----------------------------------------------------------------------------
(* POST /api/billing/cancel                                                *)

\* FindByID.
FindSubscriber(r) ==
    /\ phase[r] = "admitted" /\ call[r].op = "cancel"
    /\ LET c == users[call[r].by].customer
       IN  \/ cust' = [cust EXCEPT ![r] = c] /\ Goto(r, IF c = None THEN "bad_request" ELSE "list")
           \/ Goto(r, "not_found") /\ UNCHANGED cust
    /\ UNCHANGED <<users, cache, call, seen, account, audits, unwritten, earlier, blind,
                   stripeVars, unsaved, clean>>

\* The first active subscription of the customer, one that is to end too, is told
\* to end with its period.
EndAtPeriodEnd(r) ==
    LET active == {q \in Request : call[q].op = "checkout" /\ cust[q] = cust[r]
                                     /\ sub[q] \in {"active", "ending"}}
    IN  /\ phase[r] = "list"
        /\ \/ \E q \in active : sub' = [sub EXCEPT ![q] = "ending"] /\ Goto(r, "downgrade")
           \/ active = {} /\ Goto(r, "bad_request") /\ UNCHANGED sub
           \/ Goto(r, "failed") /\ UNCHANGED sub
        /\ UNCHANGED <<users, cache, call, seen, account, audits, unwritten, earlier, blind, cust,
                       due, event, target, unsaved, clean>>

\* UpdatePlan, at once and not at the end of the period; its error is only logged.
Downgrade(r) ==
    LET e == call[r].by
    IN  /\ phase[r] = "downgrade"
        /\ \/ Update(e, [users[e] EXCEPT !.plan = "free"])
           \/ UNCHANGED users
        /\ clean' = clean \ {e}
        /\ Goto(r, "ok")
        /\ UNCHANGED <<cache, call, seen, account, audits, unwritten, earlier, blind, cust,
                       stripeVars, unsaved>>

Cancel(r) == FindSubscriber(r) \/ EndAtPeriodEnd(r) \/ Downgrade(r)

-----------------------------------------------------------------------------
(* Stripe                                                                  *)

Owner(r) == call[r].by

\* Another subscription of the account is running, or still has events to come.
Again(r) ==
    \E q \in Request \ {r} :
       /\ call[q].op = "checkout" /\ Owner(q) = Owner(r)
       /\ \/ sub[q] \in {"active", "ending"}
          \/ \E e \in due : e.of = q
          \/ \E h \in Hook : event[h] # None /\ event[h].of = q

\* The customer pays.
Pay(r) ==
    /\ sub[r] = "open"
    /\ sub' = [sub EXCEPT ![r] = "active"]
    /\ due' = due \cup {[type |-> "completed", of |-> r]}
    /\ clean' = IF Again(r) THEN clean \ {Owner(r)} ELSE clean
    /\ UNCHANGED <<accountVars, cust, event, target, unsaved>>

\* The subscription ends: its period is over, or a payment is missing.
End(r) ==
    /\ sub[r] \in {"active", "ending"}
    /\ sub' = [sub EXCEPT ![r] = "ended"]
    /\ due' = due \cup {[type |-> "deleted", of |-> r]}
    /\ UNCHANGED <<accountVars, cust, event, target, unsaved, clean>>

-----------------------------------------------------------------------------
(* POST /api/billing/webhook                                               *)

\* Stripe calls, for the first time or again.
Deliver(h) ==
    /\ event[h] = None
    /\ \E e \in due : event' = [event EXCEPT ![h] = e]
    /\ UNCHANGED <<accountVars, cust, sub, due, target, unsaved, clean>>

\* The call is over; with the answer 200 Stripe will not call again for it.
Hangup(h) == event' = [event EXCEPT ![h] = None] /\ target' = [target EXCEPT ![h] = None]
Received(h) == Hangup(h) /\ due' = due \ {event[h]}

\* FindByStripeCustomerID.  An unknown customer, and any error, is logged and
\* answered 200.
FindUser(h) ==
    /\ event[h] # None /\ target[h] = None
    /\ \/ \E e \in Email :
             /\ users[e] # None /\ users[e].customer = cust[event[h].of]
             /\ target' = [target EXCEPT ![h] = e]
             /\ UNCHANGED <<due, event, clean>>
       \/ Received(h) /\ clean' = clean \ {Owner(event[h].of)}
    /\ UNCHANGED <<accountVars, cust, sub, unsaved>>

\* An event of the same subscription that should have come after this one has
\* already been answered.
Late(h) ==
    LET e == event[h]
    IN  e.type = "completed" /\ sub[e.of] = "ended" /\ [type |-> "deleted", of |-> e.of] \notin due

\* Mutant of SetPlan: the end of a subscription is not handled.
SetPlanUp(h) ==
    /\ users' = [users EXCEPT ![target[h]].plan = IF event[h].type = "completed" THEN "pro" ELSE @]
    /\ clean' = IF Late(h) THEN clean \ {Owner(event[h].of)} ELSE clean

SetPlan(h) ==
    /\ users' = [users EXCEPT ![target[h]].plan = IF event[h].type = "completed" THEN "pro" ELSE "free"]
    /\ clean' = IF Late(h) THEN clean \ {Owner(event[h].of)} ELSE clean

\* UpdatePlan; an error is only logged, and answered 200 as well.
UpdatePlan(h) ==
    /\ target[h] # None
    /\ SetPlan(h) \/ (UNCHANGED users /\ clean' = clean \ {Owner(event[h].of)})
    /\ Received(h)
    /\ UNCHANGED <<cache, call, phase, seen, account, audits, unwritten, earlier, blind,
                   cust, sub, unsaved>>

\* The server dies before the UPDATE or after it, or Stripe has stopped waiting
\* for the answer: it will call again.
Drop(h) ==
    /\ event[h] # None
    /\ (target[h] # None /\ SetPlan(h)) \/ UNCHANGED <<users, clean>>
    /\ Hangup(h)
    /\ UNCHANGED <<cache, call, phase, seen, account, audits, unwritten, earlier, blind,
                   cust, sub, due, unsaved>>

Webhook(h) == Deliver(h) \/ FindUser(h) \/ UpdatePlan(h) \/ Drop(h)

-----------------------------------------------------------------------------

\* An administrator who sets a plan overrules the subscription.
Overrule(r) ==
    /\ Administer(r)
    /\ clean' = IF call[r].op = "set_plan" /\ users' # users THEN clean \ {call[r].user} ELSE clean

Serve(r) ==
    \/ (SignIn(r) \/ Authenticate(r)) /\ UNCHANGED <<cust, stripeVars, unsaved, clean>>
    \/ Overrule(r) /\ UNCHANGED <<cust, stripeVars, unsaved>>
    \/ CreateCheckout(r) \/ Cancel(r)

Next ==
    \/ \E r \in Request : Serve(r) \/ Pay(r) \/ End(r)
    \/ \E e \in Email : Expire(e) /\ UNCHANGED <<cust, stripeVars, unsaved, clean>>
    \/ \E h \in Hook : Webhook(h)

Init == AccountInit /\ BillingInit
Spec == Opening /\ Init /\ [][Next]_vars

\* A request that has started runs on; Redis drops what has expired; Stripe calls
\* again until a call is answered, and calls do not fail for ever.
Fairness ==
    /\ \A r \in Request : WF_vars(phase[r] # "idle" /\ Serve(r))
    /\ \A e \in Email : WF_vars(Expire(e) /\ UNCHANGED <<cust, stripeVars, unsaved, clean>>)
    /\ \A h \in Hook : WF_vars(Deliver(h)) /\ SF_vars(FindUser(h)) /\ SF_vars(UpdatePlan(h))

-----------------------------------------------------------------------------

\* Nobody has the plan "pro" who has not paid, however calls of Stripe overlap,
\* unless an administrator gave it.
ProIsPaidFor ==
    \A e \in Email :
        users[e] # None /\ users[e].plan = "pro"
          => \/ \E r \in Request : call[r].op = "checkout" /\ Owner(r) = e
                                     /\ sub[r] \notin {"none", "open"}
             \/ \E r \in Request : call[r].op = "set_plan" /\ call[r].user = e
                                     /\ call[r].to = "pro" /\ account[r] = e

\* An account gets a second Stripe customer only from checkouts that overlap, or
\* when the first could not be saved.
OneCustomerUnlessOverlap ==
    \A r, q \in Request :
        LET both == cust[r] = r /\ cust[q] = q /\ Owner(r) = Owner(q)
        IN  both /\ q \in earlier[r] => q \in unsaved

Paying(e) ==
    \E r \in Request : call[r].op = "checkout" /\ Owner(r) = e /\ sub[r] \in {"active", "ending"}

\* In the end the plan is what is paid for, whatever the order and the number of
\* Stripe's calls, unless one of the irregularities that clean records came up:
\* an event that could not be applied or came after the end of its subscription,
\* a second subscription, a cancellation, an administrator.
PlanSettles ==
    <>[](\A e \in clean : users[e] # None => (users[e].plan = "pro" <=> Paying(e)))
=============================================================================
