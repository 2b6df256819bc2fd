---------------------------- MODULE BillingProofs ----------------------------
(* What the accounts and their subscriptions keep to, for any requests, any   *)
(* number of overlapping webhook calls and any opening of the table.          *)
EXTENDS Billing, TLAPS

\* A request past the check of its token works for an account that has a row.
Within == {"get", "select", "set", "admitted", "edit", "customer", "save", "session", "list",
           "downgrade"}
Identifying == {"by_id", "by_email", "bind", "create"}
FlowAt(r) ==
    /\ phase[r] \in Identifying => SignsIn(r)
    /\ phase[r] \in Within => ~SignsIn(r) /\ users[call[r].by] # None
    /\ phase[r] = "bind" => users[call[r].email] # None
    /\ phase[r] = "set" => seen[r] # None
    /\ phase[r] = "edit" => call[r].op \in Edits /\ seen[r] # None /\ users[call[r].user] # None
    /\ phase[r] \in {"customer", "save", "session"} => call[r].op = "checkout"
    /\ phase[r] \in {"list", "downgrade"} => call[r].op = "cancel"
    /\ r \in unwritten => phase[r] = "ok" /\ call[r].op \in Edits /\ seen[r] # None
Flow == \A r \in Request : FlowAt(r)

\* Who was there before is answered, and stays so; only an answered request holds a row.
History == \A r \in Request :
      /\ phase[r] \notin Answered => account[r] = None
      /\ \A q \in earlier[r] : phase[q] \in Answered
      /\ phase[r] = "idle" => earlier[r] = {}

\* A customer is named by the checkout that made it, and is its account's.
CustomerOf(r) ==
    /\ phase[r] \in Identifying \cup {"idle", "get", "select", "set", "admitted", "customer"}
         => cust[r] = None
    /\ cust[r] # None
         => /\ call[r].op \in {"checkout", "cancel"} /\ users[Owner(r)] # None
            /\ call[cust[r]].op = "checkout" /\ cust[cust[r]] = cust[r] /\ Owner(cust[r]) = Owner(r)
    /\ phase[r] = "save" => cust[r] = r
    /\ phase[r] = "session" => cust[r] # None
    /\ sub[r] # "none" => phase[r] = "ok" /\ call[r].op = "checkout" /\ cust[r] # None
CustomerIn(e) ==
    users[e] # None /\ users[e].customer # None
      => LET c == users[e].customer
         IN  call[c].op = "checkout" /\ Owner(c) = e /\ cust[c] = c /\ phase[c] # "save"
Customers == (\A r \in Request : CustomerOf(r)) /\ (\A e \in Email : CustomerIn(e))

\* A customer that was made is in the row by the time the request goes on, unless
\* it could not be saved; who begins after that finds one.
SavedAt(r) ==
    /\ cust[r] = r /\ phase[r] # "save" => r \in unsaved \/ users[Owner(r)].customer # None
    /\ phase[r] = "customer" \/ cust[r] = r
         => \A q \in earlier[r] : cust[q] = q /\ Owner(q) = Owner(r) => q \in unsaved
Saved == \A r \in Request : SavedAt(r)

\* Events are of subscriptions that were paid; the row a call has found is its owner's.
Paid == {r \in Request : sub[r] \notin {"none", "open"}}
Events ==
    /\ \A e \in due : e.of \in Paid
    /\ \A h \in Hook : event[h] # None => event[h].of \in Paid
    /\ \A h \in Hook : target[h] # None =>
         event[h] # None /\ users[target[h]] # None /\ Owner(event[h].of) = target[h]

\* The sign-in is over and its row found, bound or made, whatever it was answered.
Came(r) == SignsIn(r) /\ account[r] # None

\* An address is one person's, and the row of a sign-in is its person's.
Addresses ==
    \A r \in Request :
      /\ SignsIn(r) =>
           /\ \A q \in Request : SignsIn(q) /\ call[q].email = call[r].email => call[q].person = call[r].person
           /\ users[call[r].email] # None
                => users[call[r].email].bound \in {Nobody, Elsewhere, call[r].person}
      /\ LetIn(r) => Came(r)
      /\ Came(r) => users[account[r]] # None /\ users[account[r]].bound = call[r].person

\* A sign-in that found nobody, every lookup having succeeded, has none before it.
Fruitless ==
    \A r \in Request : phase[r] \in {"by_email", "bind", "create"} /\ r \notin blind => Before(r) = {}

\* Either a person has one row, and nobody is about to make another one, or
\* each of their rows was made by a sign-in with none before it.
Bound(g) == {e \in Email : users[e] # None /\ users[e].bound = g}
Settled(g) ==
    \E e \in Email :
      /\ Bound(g) = {e}
      /\ \A r \in Request : SignsIn(r) /\ call[r].person = g
           => phase[r] \notin {"by_email", "bind", "create"} /\ (phase[r] = "ok" => account[r] = e)
Made(g) ==
    \A e \in Bound(g) : \E q \in Request :
      Came(q) /\ call[q].person = g /\ account[q] = e /\ Before(q) = {}
Rows == blind = {} => \A g \in Person : Settled(g) \/ Made(g)

IInv == /\ TypeOK /\ Flow /\ History /\ AuditOnlyOfEdits
        /\ Customers /\ Saved /\ Events /\ ProIsPaidFor
        /\ Addresses /\ Fruitless /\ Rows /\ AlwaysTheSameAccount

\* What a call carries, by its kind.
LEMMA CallFields ==
  ASSUME TypeOK, NEW r \in Request
  PROVE  /\ SignsIn(r) => call[r].person \in Person /\ call[r].email \in Email
         /\ ~SignsIn(r) => call[r].by \in Email
         /\ call[r].op \in Edits => call[r].user \in Email
         /\ call[r].op = "set_plan" => call[r].to \in Plan
         /\ call[r].op = "set_active" => call[r].to \in BOOLEAN
         /\ call[r].op \in {"checkout", "cancel"} \cup Edits => ~SignsIn(r)
BY DEF TypeOK, AccountTypeOK, Call, SignsIn, Edits

\* Rows keep their shape under the statements that change them.
LEMMA RowFields ==
  ASSUME NEW row \in Row
  PROVE  /\ row # None
         /\ \A g \in Person : [row EXCEPT !.bound = g] \in Row
         /\ \A p \in Plan : [row EXCEPT !.plan = p] \in Row
         /\ \A a \in BOOLEAN : [row EXCEPT !.active = a] \in Row
         /\ \A c \in Request : [row EXCEPT !.customer = c] \in Row
         /\ row.active \in BOOLEAN /\ row.customer \in Request \cup {None}
BY AccountConstants DEF Row

\* What an edit of an administrator makes of a row is a row.
LEMMA EditedOK ==
  ASSUME TypeOK, NEW r \in Request, call[r].op \in Edits, NEW row \in Row
  PROVE  Edited(r, row) \in Row
BY CallFields, RowFields DEF Edited, Edits

\* The types of what a step leaves to others.
LEMMA InitTypes == Opening /\ Init => TypeOK
<1> SUFFICES ASSUME Opening, Init PROVE TypeOK
  OBVIOUS
<1>1. users \in [Email -> Row \cup {None}]
  <2>1. [bound: Person \cup {Nobody, Elsewhere}, plan: Plan \ {"pro"}, active: BOOLEAN,
         customer: {None}] \subseteq Row
    BY DEF Row
  <2> QED
    BY <2>1 DEF Opening
<1>2. AccountTypeOK
  BY <1>1, AccountConstants DEF Init, AccountInit, AccountTypeOK, Phase
<1> QED
  BY <1>2 DEF Init, BillingInit, TypeOK

\* Types: the steps of a sign-in.
LEMMA SignInTypes ==
  ASSUME IInv, NEW r \in Request, SignIn(r), UNCHANGED <<cust, stripeVars, unsaved, clean>>
  PROVE  TypeOK'
<1> USE DEF IInv, TypeOK, AccountTypeOK, stripeVars, Goto, Phase, Answered, Begin, SignedIn, Holds, Committed, Update
<1>0. SignsIn(r) => call[r].person \in Person /\ call[r].email \in Email
  BY CallFields
<1>1. CASE Identify(r)
  BY <1>1 DEF Identify
<1>2. CASE FindByAuthProviderID(r)
  BY <1>2 DEF FindByAuthProviderID
<1>3. CASE FindByEmail(r)
  BY <1>0, <1>3 DEF FindByEmail, Flow, FlowAt, Identifying
<1>4. CASE Bind(r)
  <2>1. phase[r] = "bind" /\ SignsIn(r) /\ users[call[r].email] \in Row
    BY <1>0, <1>4 DEF Bind, Flow, FlowAt, Identifying
  <2>2. [users[call[r].email] EXCEPT !.bound = call[r].person] \in Row
    BY <1>0, <2>1, RowFields
  <2> QED
    BY <1>0, <1>4, <2>1, <2>2 DEF Bind
<1>5. CASE Create(r)
  <2>1. SignsIn(r) /\ NewRow(call[r].person) \in Row
    BY <1>0, <1>5 DEF Create, Flow, FlowAt, Identifying, NewRow, Row, Plan
  <2> QED
    BY <1>0, <1>5, <2>1 DEF Create
<1> QED
  BY <1>1, <1>2, <1>3, <1>4, <1>5 DEF SignIn

\* Types: the steps of an authenticated request.
LEMMA AuthenticateTypes ==
  ASSUME IInv, NEW r \in Request, Authenticate(r), UNCHANGED <<cust, stripeVars, unsaved, clean>>
  PROVE  TypeOK'
<1> USE DEF IInv, TypeOK, AccountTypeOK, stripeVars, Goto, Phase, Answered, Begin, Answer, Sees, Admit
<1>1. CASE Enter(r)
  BY <1>1 DEF Enter
<1>2. CASE Lookup(r)
  BY <1>2 DEF Lookup
<1>3. CASE Load(r)
  <2>1. call[r].by \in Email
    BY <1>3, CallFields DEF Load, Flow, FlowAt, Within
  <2> QED
    BY <1>3, <2>1 DEF Load
<1>4. CASE Fill(r)
  <2>1. call[r].by \in Email /\ seen[r] \in Row
    BY <1>4, CallFields DEF Fill, Flow, FlowAt, Within
  <2>2. [active |-> seen[r].active, expires |-> TRUE] \in [active: BOOLEAN, expires: BOOLEAN]
    BY <2>1, RowFields
  <2>3. cache' \in [Email -> [active: BOOLEAN, expires: BOOLEAN] \cup {None}]
    BY <1>4, <2>1, <2>2 DEF Fill
  <2>4. phase' \in [Request -> Phase] /\ seen' \in [Request -> Row \cup {None}]
    BY <1>4 DEF Fill
  <2> QED
    BY <1>4, <2>3, <2>4 DEF Fill
<1> QED
  BY <1>1, <1>2, <1>3, <1>4 DEF Authenticate

\* Types: the steps of an administrator's edit, its audit row and the cache.
LEMMA AdministerTypes ==
  ASSUME IInv, NEW r \in Request, Overrule(r), UNCHANGED <<cust, stripeVars, unsaved>>
  PROVE  TypeOK'
<1> USE DEF IInv, TypeOK, AccountTypeOK, stripeVars, Goto, Phase, Answered, Answer, Sees, Update
<1>0. clean' \subseteq Email
  BY DEF Overrule
<1>1. CASE GetUserForAudit(r)
  <2>1. call[r].user \in Email
    BY <1>1, CallFields DEF GetUserForAudit
  <2> QED
    BY <1>0, <1>1, <2>1 DEF GetUserForAudit
<1>2. CASE UpdateUser(r)
  <2>1. call[r].user \in Email /\ call[r].op \in Edits /\ users[call[r].user] \in Row
    BY <1>2, CallFields DEF UpdateUser, Flow, FlowAt
  <2>2. Edited(r, users[call[r].user]) \in Row
    BY <2>1, EditedOK
  <2> QED
    BY <1>0, <1>2, <2>1, <2>2 DEF UpdateUser, Holds
<1>3. CASE AuditLog(r)
  <2>1. seen[r] \in Row
    BY <1>3 DEF AuditLog, Flow, FlowAt
  <2> QED
    BY <1>0, <1>3, <2>1 DEF AuditLog
<1> QED
  BY <1>1, <1>2, <1>3 DEF Overrule, Administer

\* Types: the steps of a checkout.
LEMMA CheckoutTypes ==
  ASSUME IInv, NEW r \in Request, CreateCheckout(r) \/ Cancel(r)
  PROVE  TypeOK'
<1> USE DEF IInv, TypeOK, AccountTypeOK, stripeVars, Goto, Phase, Answered, Update
<1>0. phase[r] \in Within => call[r].by \in Email /\ users[call[r].by] \in Row
  BY CallFields DEF Flow, FlowAt
<1>1. CASE FindCustomer(r)
  <2>1. users[call[r].by].customer \in Request \cup {None}
    BY <1>0, <1>1, RowFields DEF FindCustomer, Within
  <2> QED
    BY <1>1, <2>1 DEF FindCustomer
<1>2. CASE NewCustomer(r)
  BY <1>2 DEF NewCustomer
<1>3. CASE SaveCustomer(r)
  <2>1. [users[call[r].by] EXCEPT !.customer = r] \in Row
    BY <1>0, <1>3, RowFields DEF SaveCustomer, Within
  <2> QED
    BY <1>0, <1>3, <2>1 DEF SaveCustomer, Within
<1>4. CASE NewSession(r)
  BY <1>4 DEF NewSession
<1>5. CASE FindSubscriber(r)
  <2>1. users[call[r].by].customer \in Request \cup {None}
    BY <1>0, <1>5, RowFields DEF FindSubscriber, Within
  <2> QED
    BY <1>5, <2>1 DEF FindSubscriber
<1>6. CASE EndAtPeriodEnd(r)
  BY <1>6 DEF EndAtPeriodEnd
<1>7. CASE Downgrade(r)
  <2>1. [users[call[r].by] EXCEPT !.plan = "free"] \in Row
    BY <1>0, <1>7, RowFields DEF Downgrade, Within, Plan
  <2> QED
    BY <1>0, <1>7, <2>1 DEF Downgrade, Within
<1> QED
  BY <1>1, <1>2, <1>3, <1>4, <1>5, <1>6, <1>7 DEF CreateCheckout, Cancel

\* What SetPlan does: one row, its plan.
LEMMA SetPlanOK ==
  ASSUME TypeOK, NEW h \in Hook, target[h] \in Email, users[target[h]] \in Row, SetPlan(h)
  PROVE  /\ \E p \in {"pro", "free"} :
              /\ p = "pro" => event[h].type = "completed"
              /\ users' = [users EXCEPT ![target[h]] = [users[target[h]] EXCEPT !.plan = p]]
         /\ users' \in [Email -> Row \cup {None}] /\ clean' \subseteq Email
<1>1. PICK p \in {"pro", "free"} :
        /\ p = "pro" => event[h].type = "completed"
        /\ users' = [users EXCEPT ![target[h]] = [users[target[h]] EXCEPT !.plan = p]]
  BY DEF SetPlan, TypeOK, AccountTypeOK
<1>2. [users[target[h]] EXCEPT !.plan = p] \in Row
  BY RowFields DEF Plan
<1> QED
  BY <1>1, <1>2, ZenonT(60) DEF TypeOK, AccountTypeOK, SetPlan

\* Types: Stripe and its webhooks.
LEMMA StripeTypes ==
  ASSUME IInv,
         \/ \E r \in Request : Pay(r) \/ End(r)
         \/ \E e \in Email : Expire(e) /\ UNCHANGED <<cust, stripeVars, unsaved, clean>>
         \/ \E h \in Hook : Webhook(h)
  PROVE  TypeOK'
<1> USE DEF IInv, TypeOK, AccountTypeOK, accountVars, stripeVars
<1>1. ASSUME NEW r \in Request, Pay(r) \/ End(r) PROVE TypeOK'
  <2>1. [type |-> "completed", of |-> r] \in Event /\ [type |-> "deleted", of |-> r] \in Event
    BY DEF Event
  <2> QED
    BY <1>1, <2>1 DEF Pay, End
<1>2. CASE \E e \in Email : Expire(e) /\ UNCHANGED <<cust, stripeVars, unsaved, clean>>
  BY <1>2 DEF Expire
<1>3. ASSUME NEW h \in Hook, Deliver(h) PROVE TypeOK'
  BY <1>3 DEF Deliver
<1>4. ASSUME NEW h \in Hook, FindUser(h) PROVE TypeOK'
  BY <1>4 DEF FindUser, Received, Hangup
<1>5. ASSUME NEW h \in Hook, UpdatePlan(h) PROVE TypeOK'
  <2>1. target[h] \in Email /\ users[target[h]] \in Row
    BY <1>5 DEF UpdatePlan, Events
  <2> QED
    BY <1>5, <2>1, SetPlanOK DEF UpdatePlan, Received, Hangup
<1>6. ASSUME NEW h \in Hook, Drop(h) PROVE TypeOK'
  <2>1. target[h] # None => target[h] \in Email /\ users[target[h]] \in Row
    BY DEF Events
  <2> QED
    BY <1>6, <2>1, SetPlanOK DEF Drop, Hangup
<1> QED
  BY <1>1, <1>2, <1>3, <1>4, <1>5, <1>6 DEF Webhook

\* Every step keeps the types.
LEMMA TypeStep == IInv /\ Next => TypeOK'
BY SignInTypes, AuthenticateTypes, AdministerTypes, CheckoutTypes, StripeTypes DEF Next, Serve

-----------------------------------------------------------------------------
\* What no step takes back: an answer, who was there before, a row, and what went
\* wrong.
Lasting ==
    /\ UNCHANGED call
    /\ \A q \in Request : /\ phase[q] \in Answered => phase'[q] = phase[q] /\ account'[q] = account[q]
                          /\ phase'[q] \notin Answered => account'[q] = account[q]
                          /\ phase[q] # "idle" => phase'[q] # "idle" /\ earlier'[q] = earlier[q]
                          /\ \/ earlier'[q] = earlier[q]
                             \/ phase'[q] # "idle" /\ earlier'[q] = {p \in Request : phase[p] \in Answered}
    /\ \A e \in Email : users[e] # None => users'[e] # None
    /\ blind \subseteq blind' /\ unsaved \subseteq unsaved'

\* Every step lets last what lasts.
LEMMA NextLasts == IInv /\ Next => Lasting
<1> SUFFICES ASSUME IInv, Next PROVE Lasting
  OBVIOUS
<1> USE DEF IInv, TypeOK, AccountTypeOK, Lasting, Answered
<1>0. \A r \in Request : /\ SignsIn(r) => call[r].email \in Email
                         /\ ~SignsIn(r) => call[r].by \in Email
  BY CallFields
<1>1. ASSUME NEW r \in Request, SignIn(r), UNCHANGED <<cust, stripeVars, unsaved, clean>>
      PROVE  Lasting
  <2>1. CASE Identify(r)
    BY <1>1, <2>1 DEF Identify, Begin, Goto
  <2>2. CASE FindByAuthProviderID(r)
    BY <1>1, <2>2 DEF FindByAuthProviderID, SignedIn, Holds, Committed, Goto
  <2>3. CASE FindByEmail(r)
    BY <1>1, <2>3 DEF FindByEmail, SignedIn, Holds, Committed, Goto
  <2>4. CASE Bind(r)
    <3>1. users[call[r].email] \in Row
      BY <1>0, <2>4 DEF Bind, Flow, FlowAt, Identifying
    <3>2. [users[call[r].email] EXCEPT !.bound = call[r].person] # None
      BY <2>4, <3>1, CallFields, RowFields DEF Bind, Flow, FlowAt, Identifying
    <3> QED
      BY <1>1, <2>4, <3>2 DEF Bind, SignedIn, Holds, Committed, Goto, Update
  <2>5. CASE Create(r)
    BY <1>1, <2>5 DEF Create, SignedIn, Holds, Committed, Goto, Update
  <2> QED
    BY <1>1, <2>1, <2>2, <2>3, <2>4, <2>5 DEF SignIn
<1>2. ASSUME NEW r \in Request, Authenticate(r), UNCHANGED <<cust, stripeVars, unsaved, clean>>
      PROVE  Lasting
  BY <1>2 DEF Authenticate, Enter, Lookup, Load, Fill, Begin, Goto, Admit, Answer
<1>3. ASSUME NEW r \in Request, Overrule(r), UNCHANGED <<cust, stripeVars, unsaved>>
      PROVE  Lasting
  <2>1. CASE GetUserForAudit(r) \/ AuditLog(r)
    BY <1>3, <2>1 DEF GetUserForAudit, AuditLog, Goto, Answer
  <2>2. CASE UpdateUser(r)
    <3>1. call[r].op \in Edits /\ call[r].user \in Email /\ users[call[r].user] \in Row
      BY <2>2, CallFields DEF UpdateUser, Flow, FlowAt
    <3>2. Edited(r, users[call[r].user]) # None
      BY <3>1, EditedOK, RowFields
    <3> QED
      BY <1>3, <2>2, <3>2 DEF UpdateUser, Holds, Goto, Answer, Update
  <2> QED
    BY <1>3, <2>1, <2>2 DEF Overrule, Administer
<1>4. ASSUME NEW r \in Request, CreateCheckout(r) \/ Cancel(r) PROVE Lasting
  <2>1. CASE FindCustomer(r) \/ NewCustomer(r) \/ NewSession(r)
    BY <2>1 DEF FindCustomer, NewCustomer, NewSession, Goto
  <2>2. CASE FindSubscriber(r) \/ EndAtPeriodEnd(r)
    BY <2>2 DEF FindSubscriber, EndAtPeriodEnd, Goto
  <2>3. CASE SaveCustomer(r) \/ Downgrade(r)
    <3>1. call[r].by \in Email /\ users[call[r].by] \in Row
      BY <1>0, <2>3 DEF SaveCustomer, Downgrade, Flow, FlowAt, Within
    <3>2. /\ [users[call[r].by] EXCEPT !.customer = r] # None
          /\ [users[call[r].by] EXCEPT !.plan = "free"] # None
      BY <3>1, RowFields DEF Plan
    <3> QED
      BY <2>3, <3>1, <3>2 DEF SaveCustomer, Downgrade, Goto, Update
  <2> QED
    BY <1>4, <2>1, <2>2, <2>3 DEF CreateCheckout, Cancel
<1>5. ASSUME NEW h \in Hook, target[h] # None, SetPlan(h)
      PROVE  \A e \in Email : users[e] # None => users'[e] # None
  <2>1. target[h] \in Email /\ users[target[h]] \in Row
    BY <1>5 DEF Events
  <2>2. PICK p \in Plan : users' = [users EXCEPT ![target[h]] = [users[target[h]] EXCEPT !.plan = p]]
    BY <1>5, <2>1, SetPlanOK DEF Plan
  <2> QED
    BY <2>1, <2>2, RowFields
<1>6. CASE \E r \in Request : Pay(r) \/ End(r)
  BY <1>6 DEF Pay, End, accountVars
<1>7. CASE \E e \in Email : Expire(e) /\ UNCHANGED <<cust, stripeVars, unsaved, clean>>
  BY <1>7 DEF Expire
<1>8. CASE \E h \in Hook : Webhook(h)
  BY <1>5, <1>8 DEF Webhook, Deliver, FindUser, UpdatePlan, Drop, accountVars
<1> QED
  BY <1>1, <1>2, <1>3, <1>4, <1>6, <1>7, <1>8 DEF Next, Serve

\* Every step keeps those who were there before answered.
LEMMA HistoryStep == IInv /\ Next => History'
<1> SUFFICES ASSUME IInv, Next, NEW r \in Request
             PROVE  /\ phase'[r] \notin Answered => account'[r] = None
                    /\ \A q \in earlier'[r] : phase'[q] \in Answered
                    /\ phase'[r] = "idle" => earlier'[r] = {}
  BY DEF History
<1>1. Lasting
  BY NextLasts
<1>2. earlier[r] \subseteq Request
  BY DEF IInv, TypeOK, AccountTypeOK
<1> QED
  BY <1>1, <1>2 DEF Lasting, IInv, History

\* A request that does not move, and whose audit row is not left to write, keeps
\* to its flow.
LEMMA FlowOfOthers ==
  ASSUME IInv, Lasting, NEW q \in Request, phase'[q] = phase[q], seen'[q] = seen[q],
         q \in unwritten' => q \in unwritten
  PROVE  FlowAt(q)'
<1>1. FlowAt(q) /\ (SignsIn(q) => call[q].email \in Email) /\ (~SignsIn(q) => call[q].by \in Email)
      /\ (call[q].op \in Edits => call[q].user \in Email)
  BY CallFields DEF IInv, Flow
<1>2. SignsIn(q)' = SignsIn(q)
  BY DEF Lasting, SignsIn
<1> QED
  BY <1>1, <1>2 DEF FlowAt, Lasting, Identifying

\* Every step keeps what the statement a request is at tells of it.
LEMMA FlowStep == IInv /\ Next => Flow'
<1> SUFFICES ASSUME IInv, Next, NEW q \in Request PROVE FlowAt(q)'
  BY DEF Flow
<1>0. Lasting /\ FlowAt(q) /\ (SignsIn(q) => call[q].email \in Email) /\ (~SignsIn(q) => call[q].by \in Email)
      /\ (call[q].op \in Edits => call[q].user \in Email)
  BY NextLasts, CallFields DEF IInv, Flow
<1>1. CASE UNCHANGED <<phase, seen, unwritten>>
  BY <1>0, <1>1, FlowOfOthers
<1>2. CASE \E r \in Request : Pay(r) \/ End(r)
  BY <1>1, <1>2 DEF Pay, End, accountVars
<1>3. CASE \E e \in Email : Expire(e) /\ UNCHANGED <<cust, stripeVars, unsaved, clean>>
  BY <1>1, <1>3 DEF Expire
<1>4. CASE \E h \in Hook : Webhook(h)
  BY <1>1, <1>4 DEF Webhook, Deliver, FindUser, UpdatePlan, Drop, accountVars
<1>5. ASSUME NEW r \in Request, Serve(r), q # r PROVE FlowAt(q)'
  <2> USE DEF Goto, Answer, Sees, Admit, Begin, SignedIn, Holds, Committed
  <2>1. CASE SignIn(r)
    BY <1>0, <1>5, <2>1, FlowOfOthers
       DEF IInv, TypeOK, AccountTypeOK, SignIn, Identify, FindByAuthProviderID, FindByEmail, Bind, Create
  <2>2. CASE Authenticate(r)
    BY <1>0, <1>5, <2>2, FlowOfOthers
       DEF IInv, TypeOK, AccountTypeOK, Authenticate, Enter, Lookup, Load, Fill
  <2>3. CASE Overrule(r)
    BY <1>0, <1>5, <2>3, FlowOfOthers
       DEF IInv, TypeOK, AccountTypeOK, Overrule, Administer, GetUserForAudit, UpdateUser, AuditLog
  <2>4. CASE CreateCheckout(r)
    BY <1>0, <1>5, <2>4, FlowOfOthers
       DEF IInv, TypeOK, AccountTypeOK, CreateCheckout, FindCustomer, NewCustomer, SaveCustomer, NewSession
  <2>5. CASE Cancel(r)
    BY <1>0, <1>5, <2>5, FlowOfOthers
       DEF IInv, TypeOK, AccountTypeOK, Cancel, FindSubscriber, EndAtPeriodEnd, Downgrade
  <2> QED
    BY <1>5, <2>1, <2>2, <2>3, <2>4, <2>5 DEF Serve
<1>6. CASE Serve(q)
  <2> USE DEF Goto, Answer, Sees, Admit, Begin, SignedIn, Holds, Committed, IInv, TypeOK, AccountTypeOK, FlowAt,
              Identifying, Within
  <2>0. SignsIn(q)' = SignsIn(q) /\ call' = call
    BY <1>0 DEF Lasting, SignsIn
  <2>1. CASE SignIn(q)
    <3>1. CASE Identify(q)
      BY <1>0, <2>0, <3>1 DEF Identify, Lasting, SignsIn
    <3>2. CASE FindByAuthProviderID(q)
      BY <1>0, <2>0, <3>2 DEF FindByAuthProviderID, Lasting
    <3>3. CASE FindByEmail(q)
      BY <1>0, <2>0, <3>3 DEF FindByEmail, Lasting
    <3>4. CASE Bind(q) \/ Create(q)
      BY <1>0, <2>0, <3>4 DEF Bind, Create, Lasting
    <3> QED
      BY <2>1, <3>1, <3>2, <3>3, <3>4 DEF SignIn
  <2>2. CASE Authenticate(q)
    <3>1. CASE Enter(q)
      BY <1>0, <2>0, <3>1 DEF Enter, Lasting, SignsIn
    <3>2. CASE Lookup(q) \/ Load(q) \/ Fill(q)
      BY <1>0, <2>0, <3>2 DEF Lookup, Load, Fill, Lasting
    <3> QED
      BY <2>2, <3>1, <3>2 DEF Authenticate
  <2>3. CASE Overrule(q)
    <3>1. CASE GetUserForAudit(q)
      BY <1>0, <2>0, <3>1 DEF GetUserForAudit, Lasting
    <3>2. CASE UpdateUser(q)
      BY <1>0, <2>0, <3>2 DEF UpdateUser, Lasting
    <3>3. CASE AuditLog(q)
      BY <1>0, <2>0, <3>3 DEF AuditLog, Lasting
    <3> QED
      BY <2>3, <3>1, <3>2, <3>3 DEF Overrule, Administer
  <2>4. CASE CreateCheckout(q)
    BY <1>0, <2>0, <2>4 DEF CreateCheckout, FindCustomer, NewCustomer, SaveCustomer, NewSession, Lasting
  <2>5. CASE Cancel(q)
    BY <1>0, <2>0, <2>5 DEF Cancel, FindSubscriber, EndAtPeriodEnd, Downgrade, Lasting
  <2> QED
    BY <1>6, <2>1, <2>2, <2>3, <2>4, <2>5 DEF Serve
<1> QED
  BY <1>2, <1>3, <1>4, <1>5, <1>6 DEF Next

\* An audit row is written when its edit has been answered.
LEMMA AuditStep == IInv /\ Next => AuditOnlyOfEdits'
<1> SUFFICES ASSUME IInv, Next, NEW a \in audits' PROVE phase'[a.req] = "ok"
  BY DEF AuditOnlyOfEdits
<1>1. Lasting
  BY NextLasts
<1>2. CASE a \in audits
  BY <1>1, <1>2 DEF Lasting, IInv, AuditOnlyOfEdits, TypeOK, AccountTypeOK, Answered
<1>3. CASE a \notin audits
  <2>1. PICK r \in Request : AuditLog(r)
    BY <1>3, ZenonT(60) DEF Next, Serve, SignIn, Identify, FindByAuthProviderID, FindByEmail, Bind, Create,
       Authenticate, Enter, Lookup, Load, Fill, Overrule, Administer, GetUserForAudit, UpdateUser,
       CreateCheckout, FindCustomer, NewCustomer, SaveCustomer, NewSession, Cancel, FindSubscriber,
       EndAtPeriodEnd, Downgrade, Pay, End, Expire, Webhook, Deliver, FindUser, UpdatePlan, Drop,
       accountVars
  <2> QED
    BY <1>3, <2>1 DEF AuditLog, IInv, Flow, FlowAt
<1> QED
  BY <1>2, <1>3

-----------------------------------------------------------------------------
\* Only its own statements move a request; Stripe and cancellations only go on
\* with subscriptions that were opened.
Stays(q) ==
    /\ phase'[q] = phase[q] /\ cust'[q] = cust[q] /\ account'[q] = account[q]
    /\ (q \in blind' <=> q \in blind) /\ (q \in unsaved' <=> q \in unsaved)
    /\ earlier'[q] = earlier[q]
Runs(q) ==
    \/ sub'[q] = sub[q]
    \/ sub[q] # "none" /\ sub'[q] # "none" /\ (q \in Paid => q \in Paid')

\* A step is one of q's own, or leaves q as it is, but that its subscription may go on.
LEMMA OwnSteps ==
  ASSUME IInv, Next, NEW q \in Request
  PROVE  Serve(q) \/ (Stays(q) /\ Runs(q))
<1> USE DEF IInv, TypeOK, AccountTypeOK, Goto, Answer, Sees, Admit, Begin, SignedIn, Holds, Committed
<1> SUFFICES ASSUME ~Serve(q) PROVE Stays(q) /\ Runs(q)
  OBVIOUS
<1>1. CASE UNCHANGED <<phase, cust, account, blind, unsaved, earlier, sub>>
  BY <1>1 DEF Stays, Runs
<1>2. ASSUME NEW r \in Request, Pay(r) \/ End(r) PROVE Stays(q) /\ Runs(q)
  BY <1>2 DEF Pay, End, accountVars, Stays, Runs, Paid
<1>3. ASSUME NEW r \in Request, Serve(r), q # r PROVE Stays(q) /\ Runs(q)
  <2>1. CASE SignIn(r) /\ UNCHANGED <<cust, stripeVars, unsaved, clean>>
    BY <1>3, <2>1 DEF SignIn, Identify, FindByAuthProviderID, FindByEmail, Bind, Create, Stays, Runs, stripeVars
  <2>2. CASE Authenticate(r) /\ UNCHANGED <<cust, stripeVars, unsaved, clean>>
    BY <1>3, <2>2 DEF Authenticate, Enter, Lookup, Load, Fill, Stays, Runs, stripeVars
  <2>3. CASE Overrule(r) /\ UNCHANGED <<cust, stripeVars, unsaved>>
    BY <1>3, <2>3 DEF Overrule, Administer, GetUserForAudit, UpdateUser, AuditLog, Stays, Runs, stripeVars
  <2>4. CASE CreateCheckout(r)
    BY <1>3, <2>4 DEF CreateCheckout, FindCustomer, NewCustomer, SaveCustomer, NewSession, Stays, Runs, stripeVars
  <2>5. CASE FindSubscriber(r) \/ Downgrade(r)
    BY <1>3, <2>5 DEF FindSubscriber, Downgrade, Stays, Runs, stripeVars
  <2>6. CASE EndAtPeriodEnd(r)
    BY <1>3, <2>6 DEF EndAtPeriodEnd, Stays, Runs, stripeVars, Paid
  <2> QED
    BY <1>3, <2>1, <2>2, <2>3, <2>4, <2>5, <2>6 DEF Serve, Cancel
<1>4. CASE \E h \in Hook : Webhook(h)
  BY <1>1, <1>4 DEF Webhook, Deliver, FindUser, UpdatePlan, Drop, accountVars
<1>5. CASE \E e \in Email : Expire(e) /\ UNCHANGED <<cust, stripeVars, unsaved, clean>>
  BY <1>1, <1>5 DEF Expire, stripeVars
<1> QED
  BY <1>2, <1>3, <1>4, <1>5 DEF Next

\* What a step does to the row of an address.
WasBound(e) == \E r \in Request :
    /\ Bind(r) /\ call[r].email = e /\ users[e] # None /\ account'[r] = e
    /\ users'[e] = [users[e] EXCEPT !.bound = call[r].person]
Created(e) == \E r \in Request :
    Create(r) /\ call[r].email = e /\ users[e] = None /\ users'[e] = NewRow(call[r].person)
WasEdited(e) == \E r \in Request :
    /\ UpdateUser(r) /\ call[r].user = e /\ users[e] # None /\ users'[e] = Edited(r, users[e])
    /\ account'[r] = e
CustomerSaved(e) == \E r \in Request :
    SaveCustomer(r) /\ call[r].by = e /\ users[e] # None /\ users'[e] = [users[e] EXCEPT !.customer = r]
Downgraded(e) == users[e] # None /\ users'[e] = [users[e] EXCEPT !.plan = "free"]
PlanSet(e) == \E h \in Hook, p \in {"pro", "free"} :
    /\ target[h] = e /\ users[e] # None /\ (p = "pro" => event[h].type = "completed")
    /\ users'[e] = [users[e] EXCEPT !.plan = p]
RowChange(e) ==
    \/ users'[e] = users[e]
    \/ WasBound(e) \/ Created(e) \/ WasEdited(e) \/ CustomerSaved(e) \/ Downgraded(e) \/ PlanSet(e)

\* How a step can change a row of users.
LEMMA RowChanges ==
  ASSUME IInv, Next, NEW e \in Email
  PROVE  RowChange(e)
<1> USE DEF IInv, TypeOK, AccountTypeOK, Goto, Answer, Update, SignedIn, Holds, Committed
<1> SUFFICES ASSUME users'[e] # users[e] PROVE RowChange(e)
  BY DEF RowChange
<1>1. ASSUME NEW r \in Request, SignIn(r) PROVE RowChange(e)
  <2>1. CASE Bind(r)
    <3>1. call[r].email \in Email /\ users[call[r].email] # None
      BY <2>1, CallFields DEF Bind, Flow, FlowAt, Identifying
    <3>2. e = call[r].email /\ account'[r] = e /\ users'[e] = [users[e] EXCEPT !.bound = call[r].person]
      BY <2>1, <3>1 DEF Bind
    <3> QED
      BY <2>1, <3>1, <3>2 DEF RowChange, WasBound
  <2>2. CASE Create(r)
    BY <1>1, <2>2, CallFields DEF Create, RowChange, Created, Flow, FlowAt, Identifying
  <2> QED
    BY <1>1, <2>1, <2>2 DEF SignIn, Identify, FindByAuthProviderID, FindByEmail
<1>2. ASSUME NEW r \in Request, Authenticate(r) PROVE RowChange(e)
  BY <1>2 DEF Authenticate, Enter, Lookup, Load, Fill
<1>3. ASSUME NEW r \in Request, Overrule(r) PROVE RowChange(e)
  BY <1>3, CallFields DEF Overrule, Administer, GetUserForAudit, UpdateUser, AuditLog, RowChange, WasEdited,
     Flow, FlowAt
<1>4. ASSUME NEW r \in Request, CreateCheckout(r) \/ Cancel(r) PROVE RowChange(e)
  <2>1. phase[r] \in {"save", "downgrade"} => call[r].by \in Email /\ users[call[r].by] # None
    BY CallFields DEF Flow, FlowAt, Within
  <2>2. CASE SaveCustomer(r)
    <3>1. e = call[r].by /\ users'[e] = [users[e] EXCEPT !.customer = r]
      BY <2>1, <2>2 DEF SaveCustomer
    <3> QED
      BY <2>1, <2>2, <3>1 DEF SaveCustomer, RowChange, CustomerSaved
  <2>3. CASE Downgrade(r)
    BY <2>1, <2>3 DEF Downgrade, RowChange, Downgraded
  <2> QED
    BY <1>4, <2>2, <2>3
       DEF CreateCheckout, Cancel, FindCustomer, NewCustomer, NewSession, FindSubscriber, EndAtPeriodEnd
<1>5. ASSUME NEW h \in Hook, target[h] # None, SetPlan(h) PROVE RowChange(e)
  <2>1. target[h] \in Email /\ users[target[h]] \in Row
    BY <1>5 DEF Events
  <2>2. PICK p \in {"pro", "free"} :
          /\ p = "pro" => event[h].type = "completed"
          /\ users' = [users EXCEPT ![target[h]] = [users[target[h]] EXCEPT !.plan = p]]
    BY <1>5, <2>1, SetPlanOK
  <2> QED
    BY <2>1, <2>2, RowFields DEF RowChange, PlanSet
<1>6. CASE \E r \in Request : Pay(r) \/ End(r)
  BY <1>6 DEF Pay, End, accountVars
<1>7. CASE \E f \in Email : Expire(f) /\ UNCHANGED <<cust, stripeVars, unsaved, clean>>
  BY <1>7 DEF Expire
<1>8. CASE \E h \in Hook : Webhook(h)
  BY <1>5, <1>8 DEF Webhook, Deliver, FindUser, UpdatePlan, Drop, accountVars
<1> QED
  BY <1>1, <1>2, <1>3, <1>4, <1>6, <1>7, <1>8 DEF Next, Serve

\* Its columns one by one.
LEMMA ColumnChanges ==
  ASSUME IInv, Next, NEW e \in Email, users[e] # None
  PROVE  /\ \/ users'[e].customer = users[e].customer
            \/ \E r \in Request : SaveCustomer(r) /\ call[r].by = e /\ users'[e].customer = r
         /\ \/ users'[e].bound = users[e].bound
            \/ \E r \in Request : /\ Bind(r) /\ call[r].email = e /\ account'[r] = e
                                  /\ users'[e].bound = call[r].person
         /\ \/ users'[e].plan = users[e].plan \/ users'[e].plan = "free"
            \/ \E r \in Request : /\ UpdateUser(r) /\ call[r].op = "set_plan" /\ call[r].user = e
                                  /\ account'[r] = e /\ users'[e].plan = call[r].to
            \/ \E h \in Hook : target[h] = e
<1>1. users[e] \in Row
  BY DEF IInv, TypeOK, AccountTypeOK
<1> DEFINE row == users[e]
<1>2. /\ \A c : [row EXCEPT !.customer = c].customer = c
      /\ \A c : [row EXCEPT !.customer = c].bound = row.bound
      /\ \A c : [row EXCEPT !.customer = c].plan = row.plan
      /\ \A p : [row EXCEPT !.plan = p].customer = row.customer
      /\ \A p : [row EXCEPT !.plan = p].bound = row.bound
      /\ \A p : [row EXCEPT !.plan = p].plan = p
      /\ \A a : [row EXCEPT !.active = a].customer = row.customer
      /\ \A a : [row EXCEPT !.active = a].bound = row.bound
      /\ \A a : [row EXCEPT !.active = a].plan = row.plan
      /\ \A g : [row EXCEPT !.bound = g].customer = row.customer
      /\ \A g : [row EXCEPT !.bound = g].bound = g
      /\ \A g : [row EXCEPT !.bound = g].plan = row.plan
  BY <1>1 DEF Row
<1>3. RowChange(e)
  BY RowChanges
<1>4. CASE users'[e] = users[e]
  BY <1>4
<1>5. CASE WasBound(e)
  BY <1>2, <1>5 DEF WasBound
<1>6. CASE WasEdited(e)
  <2>1. PICK r \in Request : /\ UpdateUser(r) /\ call[r].user = e /\ users'[e] = Edited(r, users[e])
                             /\ account'[r] = e
    BY <1>6 DEF WasEdited
  <2> QED
    BY <1>2, <2>1 DEF Edited
<1>7. CASE CustomerSaved(e)
  BY <1>2, <1>7 DEF CustomerSaved
<1>8. CASE Downgraded(e)
  BY <1>2, <1>8 DEF Downgraded
<1>9. CASE PlanSet(e)
  BY <1>2, <1>9 DEF PlanSet
<1> QED
  BY <1>3, <1>4, <1>5, <1>6, <1>7, <1>8, <1>9 DEF RowChange, Created

\* Who has a customer keeps it, and who is answered gets none.
LEMMA CustomerLasts ==
  ASSUME IInv, Next, NEW q \in Request
  PROVE  /\ cust[q] # None => cust'[q] = cust[q]
         /\ phase[q] \in Answered => cust'[q] = cust[q]
         /\ phase[q] # "customer" /\ phase'[q] = "save" => phase[q] = "save"
<1> USE DEF IInv, TypeOK, AccountTypeOK, Goto, Answer, Sees, Admit, Begin, SignedIn, Holds, Committed, Answered
<1>1. CASE Stays(q)
  BY <1>1 DEF Stays
<1>2. CASE Serve(q)
  <2>1. CASE SignIn(q) /\ UNCHANGED cust
    BY <2>1 DEF SignIn, Identify, FindByAuthProviderID, FindByEmail, Bind, Create
  <2>2. CASE Authenticate(q) /\ UNCHANGED cust
    BY <2>2 DEF Authenticate, Enter, Lookup, Load, Fill
  <2>3. CASE Overrule(q) /\ UNCHANGED cust
    BY <2>3 DEF Overrule, Administer, GetUserForAudit, UpdateUser, AuditLog
  <2>4. CASE CreateCheckout(q)
    BY <2>4 DEF CreateCheckout, FindCustomer, NewCustomer, SaveCustomer, NewSession, Customers, CustomerOf
  <2>5. CASE Cancel(q)
    BY <2>5 DEF Cancel, FindSubscriber, EndAtPeriodEnd, Downgrade, Customers, CustomerOf
  <2> QED
    BY <1>2, <2>1, <2>2, <2>3, <2>4, <2>5 DEF Serve
<1> QED
  BY <1>1, <1>2, OwnSteps

\* What a request knows of calls and of rows lasts.
LEMMA CustomerKnown ==
  ASSUME IInv, Next, NEW q \in Request, NEW c \in Request,
         call[q].op \in {"checkout", "cancel"}, users[Owner(q)] # None,
         call[c].op = "checkout", cust[c] = c, Owner(c) = Owner(q)
  PROVE  /\ call'[q].op \in {"checkout", "cancel"} /\ users'[call'[q].by] # None
         /\ call'[c].op = "checkout" /\ cust'[c] = c /\ call'[c].by = call'[q].by
<1>1. Lasting /\ Owner(q) \in Email
  BY NextLasts, CallFields DEF IInv, Owner
<1>2. cust'[c] = c
  BY CustomerLasts, AccountConstants
<1> QED
  BY <1>1, <1>2 DEF Lasting, Owner

\* Every step keeps a request's customer its own.
LEMMA CustomerOfStep == IInv /\ Next => \A q \in Request : CustomerOf(q)'
<1> SUFFICES ASSUME IInv, Next, NEW q \in Request PROVE CustomerOf(q)'
  OBVIOUS
<1> USE DEF IInv, TypeOK, AccountTypeOK, Goto, Answer, Sees, Admit, Begin, SignedIn, Holds, Committed, Answered
<1>0. CustomerOf(q) /\ FlowAt(q) /\ call' = call
  BY NextLasts DEF Customers, Flow, Lasting
<1>1. cust'[q] = cust[q] /\ cust[q] # None
        => /\ call'[q].op \in {"checkout", "cancel"} /\ users'[call'[q].by] # None
           /\ call'[cust'[q]].op = "checkout" /\ cust'[cust'[q]] = cust'[q] /\ call'[cust'[q]].by = call'[q].by
  BY <1>0, CustomerKnown DEF CustomerOf, Owner
<1>2. CASE Stays(q) /\ Runs(q)
  BY <1>0, <1>1, <1>2 DEF Stays, Runs, CustomerOf, Owner
<1>3. CASE SignIn(q) /\ UNCHANGED <<cust, stripeVars>>
  BY <1>0, <1>1, <1>3
     DEF SignIn, Identify, FindByAuthProviderID, FindByEmail, Bind, Create, CustomerOf, Owner, Identifying, stripeVars
<1>4. CASE Authenticate(q) /\ UNCHANGED <<cust, stripeVars>>
  BY <1>0, <1>1, <1>4 DEF Authenticate, Enter, Lookup, Load, Fill, CustomerOf, Owner, Identifying, stripeVars
<1>5. CASE Overrule(q) /\ UNCHANGED <<cust, stripeVars>>
  BY <1>0, <1>1, <1>5 DEF Overrule, Administer, GetUserForAudit, UpdateUser, AuditLog, CustomerOf, Owner, Identifying,
     stripeVars, FlowAt
<1>6. ASSUME phase[q] = "admitted", call[q].op \in {"checkout", "cancel"},
             users[call[q].by].customer # None
      PROVE  LET c == users[call[q].by].customer
             IN  /\ call'[q].op \in {"checkout", "cancel"} /\ users'[call'[q].by] # None
                 /\ call'[c].op = "checkout" /\ cust'[c] = c /\ call'[c].by = call'[q].by
                 /\ c \in Request /\ c # q
  <2>1. users[call[q].by] \in Row /\ call[q].by \in Email
    BY <1>0, <1>6, CallFields DEF FlowAt, Within
  <2>2. users[call[q].by].customer \in Request
    BY <1>6, <2>1, RowFields
  <2>3. CustomerIn(call[q].by) /\ cust[q] = None
    BY <1>0, <1>6, <2>1 DEF Customers, CustomerOf
  <2> QED
    BY <1>6, <2>1, <2>2, <2>3, CustomerKnown, RowFields, AccountConstants DEF CustomerIn, Owner
<1>7. CASE CreateCheckout(q)
  <2>1. CASE FindCustomer(q)
    <3>1. phase[q] = "admitted" /\ call[q].op = "checkout" /\ cust[q] = None /\ sub'[q] = sub[q] /\ sub[q] = "none"
      BY <1>0, <2>1 DEF FindCustomer, CustomerOf, stripeVars
    <3>2. CASE users[call[q].by].customer = None
      BY <1>0, <2>1, <3>1, <3>2 DEF FindCustomer, CustomerOf, Owner, Identifying
    <3>3. CASE users[call[q].by].customer # None
      BY <1>0, <1>6, <2>1, <3>1, <3>3 DEF FindCustomer, CustomerOf, Owner, Identifying
    <3> QED
      BY <3>2, <3>3
  <2>2. CASE NewCustomer(q)
    <3>1. call[q].op = "checkout" /\ users[Owner(q)] # None /\ Owner(q) \in Email /\ sub[q] = "none"
      BY <1>0, <2>2, CallFields DEF NewCustomer, FlowAt, Within, Owner, CustomerOf
    <3>2. users'[call'[q].by] # None
      BY <1>0, <3>1, NextLasts DEF Lasting, Owner
    <3> QED
      BY <1>0, <2>2, <3>1, <3>2, AccountConstants DEF NewCustomer, CustomerOf, Owner, Identifying, stripeVars
  <2>3. CASE SaveCustomer(q)
    BY <1>0, <1>1, <2>3, AccountConstants DEF SaveCustomer, CustomerOf, Owner, Identifying, stripeVars
  <2>4. CASE NewSession(q)
    BY <1>0, <1>1, <2>4 DEF NewSession, CustomerOf, Owner, Identifying, FlowAt
  <2> QED
    BY <1>7, <2>1, <2>2, <2>3, <2>4 DEF CreateCheckout
<1>8. CASE Cancel(q)
  <2>1. CASE FindSubscriber(q)
    <3>1. phase[q] = "admitted" /\ call[q].op = "cancel" /\ cust[q] = None /\ sub'[q] = sub[q] /\ sub[q] = "none"
      BY <1>0, <2>1 DEF FindSubscriber, CustomerOf, stripeVars
    <3>2. CASE users[call[q].by].customer = None
      BY <1>0, <2>1, <3>1, <3>2 DEF FindSubscriber, CustomerOf, Owner, Identifying
    <3>3. CASE users[call[q].by].customer # None
      BY <1>0, <1>6, <2>1, <3>1, <3>3 DEF FindSubscriber, CustomerOf, Owner, Identifying
    <3> QED
      BY <3>2, <3>3
  <2>2. CASE EndAtPeriodEnd(q)
    <3>1. sub[q] = "none" /\ call[q].op = "cancel"
      BY <1>0, <2>2 DEF EndAtPeriodEnd, CustomerOf, FlowAt
    <3> QED
      BY <1>0, <1>1, <2>2, <3>1 DEF EndAtPeriodEnd, CustomerOf, Owner, Identifying
  <2>3. CASE Downgrade(q)
    BY <1>0, <1>1, <2>3 DEF Downgrade, CustomerOf, Owner, Identifying, stripeVars
  <2> QED
    BY <1>8, <2>1, <2>2, <2>3 DEF Cancel
<1> QED
  BY <1>2, <1>3, <1>4, <1>5, <1>7, <1>8, OwnSteps DEF Serve

\* Every step keeps the customer of a row one that a checkout of its account made.
LEMMA CustomerInStep == IInv /\ Next => \A e \in Email : CustomerIn(e)'
<1> SUFFICES ASSUME IInv, Next, NEW e \in Email PROVE CustomerIn(e)'
  OBVIOUS
<1> USE DEF IInv, TypeOK, AccountTypeOK
<1>0. CustomerIn(e) /\ call' = call
  BY NextLasts DEF Customers, Lasting
<1>1. CASE users[e] = None
  <2>1. RowChange(e)
    BY RowChanges
  <2>2. users'[e] = None \/ \E r \in Request : users'[e] = NewRow(call[r].person)
    BY <1>1, <2>1 DEF RowChange, WasBound, Created, WasEdited, CustomerSaved, Downgraded, PlanSet
  <2>3. users'[e] # None => users'[e].customer = None
    <3>1. \A g : NewRow(g).customer = None
      BY DEF NewRow
    <3> QED
      BY <2>2, <3>1
  <2> QED
    BY <2>3 DEF CustomerIn
<1>2. CASE users[e] # None /\ users'[e].customer = users[e].customer
  <2>1. users[e].customer # None => users[e].customer \in Request
    BY <1>2, RowFields
  <2>2. \A c \in Request : cust[c] = c /\ phase[c] # "save" => cust'[c] = c /\ phase'[c] # "save"
    BY CustomerLasts, AccountConstants DEF Customers, CustomerOf
  <2> QED
    BY <1>0, <1>2, <2>1, <2>2 DEF CustomerIn, Owner
<1>3. ASSUME NEW r \in Request, SaveCustomer(r), call[r].by = e, users'[e].customer = r
      PROVE  CustomerIn(e)'
  BY <1>0, <1>3 DEF SaveCustomer, CustomerIn, Owner, Customers, CustomerOf, Flow, FlowAt, Goto
<1> QED
  BY <1>1, <1>2, <1>3, ColumnChanges

\* Every step keeps both.
LEMMA CustomersStep == IInv /\ Next => Customers'
BY CustomerOfStep, CustomerInStep DEF Customers

\* Every step keeps a customer that was made in its row, once its request goes on.
LEMMA SavedStep == IInv /\ Next => Saved'
<1> SUFFICES ASSUME IInv, Next, NEW q \in Request PROVE SavedAt(q)'
  BY DEF Saved
<1> USE DEF IInv, TypeOK, AccountTypeOK
<1>0. SavedAt(q) /\ CustomerOf(q) /\ FlowAt(q) /\ call' = call /\ unsaved \subseteq unsaved'
  BY NextLasts DEF Customers, Flow, Lasting, Saved
<1>1. \A e \in Email : users[e] # None /\ users[e].customer # None
                      => users'[e].customer # None
  BY ColumnChanges, AccountConstants
<1>2. ASSUME cust'[q] = q, cust[q] # q PROVE NewCustomer(q)
  <2>1. Serve(q)
    BY <1>2, OwnSteps DEF Stays
  <2>2. ASSUME phase[q] = "admitted", call[q].op \in {"checkout", "cancel"}
        PROVE  users[call[q].by].customer # q
    <3>1. call[q].by \in Email /\ users[call[q].by] # None /\ CustomerIn(call[q].by)
      BY <1>0, <2>2, CallFields DEF FlowAt, Within, Customers
    <3> QED
      BY <1>2, <3>1, AccountConstants DEF CustomerIn
  <2> QED
    BY <1>2, <2>1, <2>2
       DEF Serve, stripeVars, CreateCheckout, FindCustomer, SaveCustomer, NewSession,
           Cancel, FindSubscriber, EndAtPeriodEnd, Downgrade
<1>3. cust'[q] = q /\ phase'[q] # "save" => q \in unsaved' \/ users'[Owner(q)'].customer # None
  <2> SUFFICES ASSUME cust'[q] = q, phase'[q] # "save"
               PROVE  q \in unsaved' \/ users'[Owner(q)'].customer # None
    OBVIOUS
  <2>1. cust[q] = q
    BY <1>2 DEF NewCustomer, Goto
  <2>2. Owner(q) \in Email /\ users[Owner(q)] # None /\ Owner(q)' = Owner(q)
    BY <1>0, <2>1, CallFields, AccountConstants DEF CustomerOf, Owner
  <2>3. CASE phase[q] # "save"
    BY <1>0, <1>1, <2>1, <2>2, <2>3 DEF SavedAt
  <2>4. CASE phase[q] = "save"
    <3>1. SaveCustomer(q)
      BY <2>4, OwnSteps
         DEF Stays, Serve, SignIn, Identify, FindByAuthProviderID, FindByEmail, Bind, Create, Begin,
             Authenticate, Enter, Lookup, Load, Fill, Overrule, Administer, GetUserForAudit, UpdateUser, AuditLog,
             CreateCheckout, FindCustomer, NewCustomer, NewSession, Cancel, FindSubscriber, EndAtPeriodEnd,
             Downgrade
    <3>2. [users[Owner(q)] EXCEPT !.customer = q].customer = q
      BY <2>2 DEF Row
    <3> QED
      BY <2>2, <3>1, <3>2, AccountConstants DEF SaveCustomer, Update, Owner
  <2> QED
    BY <2>3, <2>4
<1>4. ASSUME phase'[q] = "customer" \/ cust'[q] = q, NEW p \in earlier'[q], cust'[p] = p, Owner(p)' = Owner(q)'
      PROVE  p \in unsaved'
  <2>1. earlier'[q] = earlier[q]
    <3>1. CASE phase[q] # "idle"
      BY <3>1, NextLasts DEF Lasting
    <3>2. CASE phase[q] = "idle"
      <4>1. phase'[q] = "customer"
        BY <1>2, <1>4, <1>0, <3>2, AccountConstants DEF NewCustomer, CustomerOf, Identifying
      <4> QED
        BY <3>2, <4>1, OwnSteps
           DEF Stays, Serve, SignIn, Identify, FindByAuthProviderID, FindByEmail, Bind, Create, Begin, Goto,
               Authenticate, Enter, Lookup, Load, Fill, Overrule, Administer, GetUserForAudit, UpdateUser,
               AuditLog, CreateCheckout, FindCustomer, NewCustomer, SaveCustomer, NewSession, Cancel,
               FindSubscriber, EndAtPeriodEnd, Downgrade
    <3> QED
      BY <3>1, <3>2
  <2>2. p \in Request /\ p \in earlier[q] /\ phase[p] \in Answered /\ cust[p] = p /\ Owner(p) = Owner(q)
    BY <1>0, <1>4, <2>1, CustomerLasts DEF History, Owner
  <2>3. CASE phase[q] = "customer" \/ cust[q] = q
    BY <1>0, <2>2, <2>3 DEF SavedAt
  <2>4. CASE phase[q] # "customer" /\ cust[q] # q
    <3>1. phase'[q] = "customer"
      BY <1>2, <1>4, <2>4 DEF NewCustomer
    <3>2. FindCustomer(q) /\ users[call[q].by].customer = None
      BY <2>4, <3>1, OwnSteps
       DEF Stays, Serve, SignIn, Identify, FindByAuthProviderID, FindByEmail, Bind, Create, SignedIn, Holds, Committed, Begin,
           Authenticate, Enter, Lookup, Load, Fill, Overrule, Administer, GetUserForAudit, UpdateUser, AuditLog,
           CreateCheckout, FindCustomer, NewCustomer, SaveCustomer, NewSession, Cancel, FindSubscriber,
           EndAtPeriodEnd, Downgrade, Goto, Answer, Admit
    <3> QED
      BY <1>0, <2>2, <3>2 DEF Saved, SavedAt, Answered, Owner
  <2> QED
    BY <2>3, <2>4
<1> QED
  BY <1>3, <1>4 DEF SavedAt

\* What was paid stays paid.
LEMMA PaidLasts == IInv /\ Next => Paid \subseteq Paid'
<1> SUFFICES ASSUME IInv, Next, NEW q \in Paid PROVE q \in Paid'
  OBVIOUS
<1>1. q \in Request /\ CustomerOf(q)
  BY DEF Paid, IInv, Customers
<1>2. CASE Stays(q) /\ Runs(q)
  BY <1>2 DEF Runs, Paid
<1>3. CASE Serve(q)
  <2>1. phase[q] = "ok" /\ call[q].op = "checkout"
    BY <1>1 DEF Paid, CustomerOf
  <2> QED
    BY <1>3, <2>1
       DEF Serve, SignIn, Identify, FindByAuthProviderID, FindByEmail, Bind, Create, Begin, stripeVars,
           Authenticate, Enter, Lookup, Load, Fill, Overrule, Administer, GetUserForAudit, UpdateUser, AuditLog,
           CreateCheckout, FindCustomer, NewCustomer, SaveCustomer, NewSession, Cancel, FindSubscriber,
           EndAtPeriodEnd, Downgrade, Paid
<1> QED
  BY <1>1, <1>2, <1>3, OwnSteps

\* Every step keeps Stripe's events to subscriptions that were paid.
LEMMA EventsStep == IInv /\ Next => Events'
<1> SUFFICES ASSUME IInv, Next PROVE Events'
  OBVIOUS
<1> USE DEF IInv, TypeOK, AccountTypeOK
<1>0. Events /\ Paid \subseteq Paid' /\ Lasting
  BY PaidLasts, NextLasts
<1>1. CASE UNCHANGED <<due, event, target>>
  BY <1>0, <1>1 DEF Events, Lasting, Owner, Event
<1>2. ASSUME NEW r \in Request, Serve(r) PROVE UNCHANGED <<due, event, target>>
  BY <1>2
     DEF Serve, SignIn, Authenticate, Overrule, Administer, CreateCheckout, FindCustomer, NewCustomer,
         SaveCustomer, NewSession, Cancel, FindSubscriber, EndAtPeriodEnd, Downgrade, stripeVars
<1>3. ASSUME NEW r \in Request, Pay(r) \/ End(r) PROVE Events'
  <2>1. r \in Paid' /\ UNCHANGED <<event, target>> /\ \A e \in due' : e \in due \/ e.of = r
    BY <1>3 DEF Pay, End, Paid
  <2> QED
    BY <1>0, <2>1 DEF Events, Lasting, Owner, Event
<1>4. CASE \E e \in Email : Expire(e) /\ UNCHANGED <<cust, stripeVars, unsaved, clean>>
  BY <1>1, <1>4 DEF stripeVars
<1>5. ASSUME NEW h \in Hook, Deliver(h) PROVE Events'
  <2>1. UNCHANGED <<due, target>> /\ \E e \in due : event' = [event EXCEPT ![h] = e]
    BY <1>5 DEF Deliver
  <2>2. \A k \in Hook : target[k] # None => event[k] # None
    BY <1>0 DEF Events
  <2> QED
    BY <1>0, <1>5, <2>1, <2>2 DEF Events, Lasting, Owner, Event, Deliver
<1>6. ASSUME NEW h \in Hook, Hangup(h), due' \subseteq due PROVE Events'
  BY <1>0, <1>6, BillingConstants DEF Events, Lasting, Owner, Event, Hangup
<1>7. ASSUME NEW h \in Hook, FindUser(h) PROVE Events'
  <2>1. CASE Received(h)
    BY <1>6, <2>1 DEF Received
  <2>2. ASSUME NEW e \in Email, users[e] # None, users[e].customer = cust[event[h].of],
               target' = [target EXCEPT ![h] = e], UNCHANGED <<due, event>>
        PROVE  Events'
    <3>1. event[h].of \in Request /\ event[h].of \in Paid /\ event[h] # None
      BY <1>0, <1>7 DEF FindUser, Events, Paid
    <3>2. cust[event[h].of] # None /\ call[cust[event[h].of]].by = call[event[h].of].by
      BY <3>1 DEF Paid, Customers, CustomerOf, Owner
    <3>3. CustomerIn(e)
      BY DEF Customers
    <3>4. Owner(event[h].of) = e
      BY <2>2, <3>2, <3>3 DEF CustomerIn, Owner
    <3> QED
      BY <1>0, <2>2, <3>1, <3>4 DEF Events, Lasting, Owner, Event
  <2> QED
    BY <1>7, <2>1, <2>2 DEF FindUser
<1>8. ASSUME NEW h \in Hook, UpdatePlan(h) \/ Drop(h) PROVE Events'
  BY <1>6, <1>8 DEF UpdatePlan, Drop, Received
<1> QED
  BY <1>1, <1>2, <1>3, <1>4, <1>5, <1>7, <1>8 DEF Next, Webhook

\* Every step keeps a plan that is pro paid for.
LEMMA ProStep == IInv /\ Next => ProIsPaidFor'
<1> SUFFICES ASSUME IInv, Next, NEW e \in Email, users'[e] # None, users'[e].plan = "pro"
             PROVE  \/ \E r \in Request : call'[r].op = "checkout" /\ call'[r].by = e /\ r \in Paid'
                    \/ \E r \in Request : call'[r].op = "set_plan" /\ call'[r].user = e
                                             /\ call'[r].to = "pro" /\ account'[r] = e
  BY DEF ProIsPaidFor, Paid, Owner
<1>0. Lasting /\ Paid \subseteq Paid'
  BY NextLasts, PaidLasts
<1>1. users[e] # None
  <2> SUFFICES ASSUME users[e] = None PROVE FALSE
    OBVIOUS
  <2>1. RowChange(e)
    BY RowChanges
  <2>2. \E r \in Request : users'[e] = NewRow(call[r].person)
    BY <2>1 DEF RowChange, WasBound, Created, WasEdited, CustomerSaved, Downgraded, PlanSet
  <2>3. \A g : NewRow(g).plan = "free"
    BY DEF NewRow
  <2> QED
    BY <2>2, <2>3
<1>2. CASE users[e].plan = "pro"
  <2>1. \/ \E r \in Request : call[r].op = "checkout" /\ call[r].by = e /\ r \in Paid
        \/ \E r \in Request : call[r].op = "set_plan" /\ call[r].user = e
                                 /\ call[r].to = "pro" /\ account[r] = e
    BY <1>1, <1>2 DEF IInv, ProIsPaidFor, Paid, Owner
  <2>2. \A r \in Request : account[r] = e => account'[r] = e
    BY <1>0, AccountConstants DEF IInv, History, Lasting
  <2> QED
    BY <1>0, <2>1, <2>2 DEF Lasting
<1>3. ASSUME NEW h \in Hook, target[h] = e
      PROVE  \E r \in Request : call'[r].op = "checkout" /\ call'[r].by = e /\ r \in Paid'
  <2>1. event[h].of \in Paid /\ Owner(event[h].of) = e
    BY <1>3, BillingConstants, AccountConstants DEF IInv, Events
  <2>2. CustomerOf(event[h].of) /\ event[h].of \in Request
    BY <2>1 DEF IInv, Customers, Paid
  <2> QED
    BY <1>0, <2>1, <2>2 DEF Lasting, CustomerOf, Paid, Owner
<1> QED
  BY <1>0, <1>1, <1>2, <1>3, ColumnChanges DEF Lasting

-----------------------------------------------------------------------------
\* Who was let in before a request is settled when it begins.
LEMMA LetInLasts ==
  ASSUME IInv, Next, NEW q \in Request
  PROVE  /\ LetIn(q) => LetIn(q)' /\ Came(q)
         /\ Came(q) => Came(q)' /\ account'[q] = account[q] /\ phase[q] # "idle"
         /\ phase[q] # "idle" => Before(q)' = Before(q) /\ earlier'[q] = earlier[q]
         /\ LetIn(q) => phase[q] # "idle"
<1> USE DEF IInv, TypeOK, AccountTypeOK
<1>1. Lasting /\ earlier[q] \subseteq Request /\ \A p \in earlier[q] : phase[p] \in Answered
  BY NextLasts DEF History
<1>2. \A p \in Request : phase[p] \in Answered => (LetIn(p)' <=> LetIn(p))
  BY <1>1 DEF Lasting, LetIn, SignsIn
<1>3. ASSUME phase[q] # "idle" PROVE Before(q)' = Before(q) /\ earlier'[q] = earlier[q]
  <2>1. earlier'[q] = earlier[q] /\ call' = call
    BY <1>1, <1>3 DEF Lasting
  <2> QED
    BY <1>1, <1>2, <2>1 DEF Before
<1>4. Came(q) => Came(q)' /\ account'[q] = account[q] /\ phase[q] # "idle"
  BY <1>1 DEF Came, SignsIn, History, Lasting, Answered
<1>5. LetIn(q) => Came(q)
  BY DEF Addresses
<1> QED
  BY <1>1, <1>2, <1>3, <1>4, <1>5 DEF LetIn, Lasting, Answered

\* A row that is a person's stays theirs; a sign-in binds or makes those that become
\* theirs, and then has that row.
LEMMA BoundLasts ==
  ASSUME IInv, Next, NEW e \in Email, NEW g \in Person
  PROVE  /\ e \in Bound(g) => e \in Bound(g)'
         /\ e \in Bound(g)' => \/ e \in Bound(g)
                               \/ \E r \in Request : /\ SignsIn(r) /\ call[r].person = g
                                                      /\ phase[r] \in {"bind", "create"}
                                                      /\ Came(r)' /\ account'[r] = e
<1> USE DEF IInv, TypeOK, AccountTypeOK
<1>0. Lasting
  BY NextLasts
<1>1. \A r \in Request : Bind(r) \/ Create(r) => SignsIn(r) /\ SignsIn(r)' /\ phase[r] \in {"bind", "create"}
  BY <1>0 DEF Bind, Create, Flow, FlowAt, Identifying, Lasting, SignsIn
<1>2. ASSUME users[e] = None, e \in Bound(g)'
      PROVE  \E r \in Request : /\ SignsIn(r) /\ call[r].person = g /\ phase[r] \in {"bind", "create"}
                                /\ Came(r)' /\ account'[r] = e
  <2>1. RowChange(e) /\ users'[e] # None /\ users'[e].bound = g
    BY <1>2, RowChanges DEF Bound
  <2>2. PICK r \in Request : /\ Create(r) /\ call[r].email = e /\ users'[e] = NewRow(call[r].person)
    BY <1>2, <2>1 DEF RowChange, WasBound, Created, WasEdited, CustomerSaved, Downgraded, PlanSet
  <2>3. \A p : NewRow(p).bound = p
    BY DEF NewRow
  <2>4. account'[r] = e
    BY <1>2, <2>1, <2>2 DEF Create, SignedIn, Holds, Committed, Goto
  <2> QED
    BY <1>1, <2>1, <2>2, <2>3, <2>4, AccountConstants DEF Came
<1>3. ASSUME NEW r \in Request, Bind(r), call[r].email = e, users[e] # None, account'[r] = e,
             users'[e].bound = call[r].person
      PROVE  /\ e \in Bound(g) => users'[e].bound = g
             /\ users'[e].bound = g
                  => /\ SignsIn(r) /\ call[r].person = g /\ phase[r] \in {"bind", "create"}
                     /\ Came(r)' /\ account'[r] = e
  <2>1. SignsIn(r) /\ phase[r] = "bind" /\ Came(r)'
    BY <1>1, <1>3, AccountConstants DEF Bind, Came
  <2>3. users[e].bound \in {Nobody, Elsewhere, call[r].person}
    BY <1>3, <2>1 DEF Addresses
  <2> QED
    BY <1>3, <2>1, <2>3, AccountConstants DEF Bound
<1>4. ASSUME e \in Bound(g) PROVE e \in Bound(g)'
  <2>1. users[e] # None /\ users[e].bound = g /\ users'[e] # None
    BY <1>0, <1>4 DEF Bound, Lasting
  <2> QED
    BY <1>3, <1>4, <2>1, ColumnChanges DEF Bound
<1>5. ASSUME users[e] # None, e \in Bound(g)', e \notin Bound(g)
      PROVE  \E r \in Request : /\ SignsIn(r) /\ call[r].person = g /\ phase[r] \in {"bind", "create"}
                                /\ Came(r)' /\ account'[r] = e
  <2>1. users'[e].bound = g /\ users[e].bound # g
    BY <1>5 DEF Bound
  <2> QED
    BY <1>3, <1>5, <2>1, ColumnChanges
<1> QED
  BY <1>2, <1>4, <1>5

\* How a sign-in comes to its row.
LEMMA LettingIn ==
  ASSUME IInv, Next, NEW r \in Request, LetIn(r)' \/ Came(r)', ~Came(r)
  PROVE  /\ SignsIn(r) /\ phase[r] \in Identifying
         /\ \/ FindByAuthProviderID(r) /\ account'[r] \in Bound(call[r].person)
            \/ FindByEmail(r) \/ Bind(r) \/ Create(r)
<1> USE DEF IInv, TypeOK, AccountTypeOK
<1>0. ~LetIn(r) /\ call' = call
  BY LetInLasts, NextLasts DEF Lasting
<1>1. /\ SignsIn(r) /\ account[r] = None /\ phase[r] # "ok"
      /\ phase'[r] = "ok" \/ account'[r] # None
      /\ ~Stays(r)
  BY <1>0 DEF LetIn, Came, SignsIn, Stays
<1>2. SignIn(r)
  BY <1>1, OwnSteps, CallFields
     DEF Serve, SignsIn, Authenticate, Enter, Lookup, Load, Fill, Overrule, Administer, GetUserForAudit,
         UpdateUser, AuditLog, CreateCheckout, FindCustomer, NewCustomer, SaveCustomer, NewSession, Cancel,
         FindSubscriber, EndAtPeriodEnd, Downgrade, Flow, FlowAt, Within, Edits
<1>3. CASE FindByAuthProviderID(r)
  BY <1>1, <1>3 DEF FindByAuthProviderID, SignedIn, Holds, Committed, Goto, Bound, Identifying
<1> QED
  BY <1>1, <1>2, <1>3 DEF SignIn, Identify, Begin, Goto, FindByEmail, Bind, Create, Identifying

\* Every step keeps an address one person's, and who is let in in a row of theirs.
LEMMA AddressesStep == IInv /\ Next => Addresses'
<1> SUFFICES ASSUME IInv, Next, NEW r \in Request
             PROVE  /\ SignsIn(r)' =>
                         /\ \A q \in Request : SignsIn(q)' /\ call'[q].email = call'[r].email
                                                => call'[q].person = call'[r].person
                         /\ users'[call'[r].email] # None
                              => users'[call'[r].email].bound \in {Nobody, Elsewhere, call'[r].person}
                    /\ LetIn(r)' => Came(r)'
                    /\ Came(r)' => /\ users'[account'[r]] # None
                                   /\ users'[account'[r]].bound = call'[r].person
  BY DEF Addresses
<1> USE DEF IInv, TypeOK, AccountTypeOK
<1>0. Lasting
  BY NextLasts
<1>1. \A q \in Request : (SignsIn(q)' <=> SignsIn(q)) /\ call'[q] = call[q]
  BY <1>0 DEF Lasting, SignsIn
<1>2. \A q \in Request : Bind(q) \/ Create(q) => SignsIn(q)
  BY DEF Bind, Create, Flow, FlowAt, Identifying
<1>3. ASSUME SignsIn(r), users'[call[r].email] # None
      PROVE  users'[call[r].email].bound \in {Nobody, Elsewhere, call[r].person}
  <2> DEFINE e == call[r].email
  <2>1. e \in Email /\ call[r].person \in Person
    BY <1>3, CallFields
  <2>2. CASE users[e] # None
    BY <1>2, <1>3, <2>1, <2>2, ColumnChanges DEF Addresses
  <2>3. CASE users[e] = None
    <3>1. RowChange(e)
      BY <2>1, RowChanges
    <3>2. PICK q \in Request : Create(q) /\ call[q].email = e /\ users'[e] = NewRow(call[q].person)
      BY <1>3, <2>3, <3>1 DEF RowChange, WasBound, Created, WasEdited, CustomerSaved, Downgraded, PlanSet
    <3>3. call[q].person = call[r].person
      BY <1>2, <1>3, <3>2 DEF Addresses
    <3>4. \A p : NewRow(p).bound = p
      BY DEF NewRow
    <3> QED
      BY <3>2, <3>3, <3>4
  <2> QED
    BY <2>2, <2>3
<1>4. ASSUME Came(r) PROVE account'[r] # None /\ account'[r] \in Bound(call[r].person)'
  <2>1. call[r].person \in Person /\ account'[r] = account[r] /\ account[r] # None
        /\ account[r] \in Bound(call[r].person)
    BY <1>4, CallFields, LetInLasts DEF Addresses, Came, Bound
  <2> QED
    BY <1>1, <2>1, BoundLasts DEF Bound
<1>5. ASSUME ~Came(r), LetIn(r)' \/ Came(r)' PROVE account'[r] # None /\ account'[r] \in Bound(call[r].person)'
  <2>0. SignsIn(r) /\ call[r].person \in Person /\ call[r].email \in Email
    BY <1>5, LettingIn, CallFields
  <2>9. account[r] = None /\ (phase'[r] = "ok" \/ account'[r] # None)
    BY <1>5, <2>0 DEF Came, LetIn
  <2>1. CASE FindByAuthProviderID(r) /\ account'[r] \in Bound(call[r].person)
    BY <1>1, <2>0, <2>1, BoundLasts, AccountConstants DEF Bound
  <2>2. CASE FindByEmail(r)
    <3>2. users[call[r].email] # None /\ users[call[r].email].bound \notin {Nobody, Elsewhere}
          /\ account'[r] = call[r].email
      BY <2>2, <2>9 DEF FindByEmail, Goto, SignedIn, Holds, Committed
    <3>3. account'[r] \in Bound(call[r].person)
      BY <2>0, <3>2 DEF Addresses, Bound
    <3> QED
      BY <1>1, <2>0, <3>2, <3>3, BoundLasts, AccountConstants DEF Bound
  <2>3. CASE Bind(r) \/ Create(r)
    <3>1. phase[r] \in {"bind", "create"} /\ SignsIn(r)
      BY <2>0, <2>3 DEF Bind, Create
    <3>2. account'[r] = call[r].email /\ (users[call[r].email] # None \/ Create(r))
      BY <2>3, <2>9, <3>1 DEF Bind, Create, Goto, SignedIn, Holds, Committed, Flow, FlowAt
    <3>3. users[call[r].email] # None => users[call[r].email] \in Row
      BY <2>0
    <3>4. \/ users'[call[r].email] = [users[call[r].email] EXCEPT !.bound = call[r].person]
             /\ users[call[r].email] # None
          \/ users'[call[r].email] = NewRow(call[r].person)
      BY <2>0, <2>3, <2>9, <3>1 DEF Bind, Create, Goto, SignedIn, Holds, Committed, Update, Flow, FlowAt
    <3>5. [users[call[r].email] EXCEPT !.bound = call[r].person].bound = call[r].person
          \/ users[call[r].email] = None
      BY <3>3 DEF Row
    <3>6. NewRow(call[r].person).bound = call[r].person /\ NewRow(call[r].person) \in Row
      BY <2>0 DEF NewRow, Row, Plan
    <3>7. [users[call[r].email] EXCEPT !.bound = call[r].person] # None \/ users[call[r].email] = None
      BY <2>0, <3>3, RowFields
    <3> QED
      <4>1. users'[call[r].email] # None /\ users'[call[r].email].bound = call[r].person
        BY <3>4, <3>5, <3>6, <3>7, AccountConstants
      <4>2. account'[r] # None /\ account'[r] = call[r].email /\ call'[r].person = call[r].person
        BY <1>1, <2>0, <3>2, AccountConstants
      <4> QED
        BY <2>0, <4>1, <4>2 DEF Bound
  <2> QED
    BY <1>5, <2>1, <2>2, <2>3, LettingIn
<1>6. ASSUME LetIn(r)' \/ Came(r)'
      PROVE  Came(r)' /\ users'[account'[r]] # None /\ users'[account'[r]].bound = call'[r].person
  <2>1. SignsIn(r)'
    BY <1>6 DEF LetIn, Came
  <2>2. account'[r] # None /\ account'[r] \in Bound(call[r].person)'
    BY <1>4, <1>5, <1>6
  <2> QED
    BY <1>1, <2>1, <2>2 DEF Bound, Came
<1> QED
  BY <1>1, <1>3, <1>6 DEF Addresses

\* Every step keeps a sign-in that found nobody without one before it.
LEMMA FruitlessStep == IInv /\ Next => Fruitless'
<1> SUFFICES ASSUME IInv, Next, NEW r \in Request,
                    phase'[r] \in {"by_email", "bind", "create"}, r \notin blind'
             PROVE  Before(r)' = {}
  BY DEF Fruitless
<1> USE DEF IInv, TypeOK, AccountTypeOK
<1>0. Lasting /\ r \notin blind
  BY NextLasts DEF Lasting
<1>1. CASE phase[r] \in {"by_email", "bind", "create"}
  BY <1>0, <1>1, LetInLasts DEF Fruitless
<1>2. CASE phase[r] \notin {"by_email", "bind", "create"}
  <2>1. FindByAuthProviderID(r)
    BY <1>2, OwnSteps, ZenonT(60)
       DEF Stays, Serve, SignIn, Identify, FindByEmail, Bind, Create, Begin, Goto, SignedIn, Holds, Committed,
           Authenticate, Enter, Lookup, Load, Fill, Admit, Answer, Overrule, Administer, GetUserForAudit,
           UpdateUser, AuditLog, CreateCheckout, FindCustomer, NewCustomer, SaveCustomer, NewSession, Cancel,
           FindSubscriber, EndAtPeriodEnd, Downgrade
  <2>2. \A e \in Email : users[e] # None => users[e].bound # call[r].person
    BY <1>0, <2>1 DEF FindByAuthProviderID, SignedIn, Holds, Committed, Goto
  <2>3. Before(r)' = Before(r) /\ Before(r) \subseteq Request
    BY <2>1, LetInLasts DEF FindByAuthProviderID, Before
  <2>4. ASSUME NEW q \in Before(r) PROVE FALSE
    <3>1. q \in Request /\ Came(q) /\ call[q].person = call[r].person
      BY <2>3 DEF Before, Addresses
    <3>2. account[q] \in Email /\ users[account[q]] # None /\ users[account[q]].bound = call[q].person
      BY <3>1 DEF Addresses, Came
    <3> QED
      BY <2>2, <3>1, <3>2
  <2> QED
    BY <2>3, <2>4
<1> QED
  BY <1>1, <1>2

\* Every step keeps a person to one settled row, or to rows made by sign-ins with none before.
LEMMA RowsStep == IInv /\ Next => Rows'
<1> SUFFICES ASSUME IInv, Next, blind' = {}, NEW g \in Person
             PROVE  Settled(g)' \/ Made(g)'
  BY DEF Rows
<1> USE DEF IInv, TypeOK, AccountTypeOK
<1>0. Lasting /\ blind = {}
  BY NextLasts DEF Lasting
<1>1. \A q \in Request : (SignsIn(q)' <=> SignsIn(q)) /\ call'[q] = call[q]
  BY <1>0 DEF Lasting, SignsIn
<1>2. CASE Made(g)
  <2>1. ASSUME NEW e \in Bound(g)'
        PROVE  \E q \in Request : Came(q)' /\ call'[q].person = g /\ account'[q] = e /\ Before(q)' = {}
    <3>0. e \in Email
      BY DEF Bound
    <3>1. CASE e \in Bound(g)
      <4>1. PICK q \in Request : Came(q) /\ call[q].person = g /\ account[q] = e /\ Before(q) = {}
        BY <1>2, <3>1 DEF Made
      <4> QED
        BY <1>1, <4>1, LetInLasts
    <3>2. CASE e \notin Bound(g)
      <4>1. PICK q \in Request : /\ SignsIn(q) /\ call[q].person = g /\ phase[q] \in {"bind", "create"}
                                /\ Came(q)' /\ account'[q] = e
        BY <3>0, <3>2, BoundLasts
      <4>2. Before(q) = {} /\ phase[q] # "idle"
        BY <1>0, <4>1 DEF Fruitless
      <4> QED
        BY <1>1, <4>1, <4>2, LetInLasts
    <3> QED
      BY <3>1, <3>2
  <2> QED
    BY <2>1 DEF Made
<1>3. CASE Settled(g)
  <2>1. PICK e \in Email :
          /\ Bound(g) = {e}
          /\ \A r \in Request : SignsIn(r) /\ call[r].person = g
               => phase[r] \notin {"by_email", "bind", "create"} /\ (phase[r] = "ok" => account[r] = e)
    BY <1>3 DEF Settled
  <2>2. Bound(g)' = {e}
    <3>1. Bound(g)' \subseteq Email
      BY DEF Bound
    <3> QED
      BY <2>1, <3>1, BoundLasts
  <2>3. ASSUME NEW r \in Request, SignsIn(r), call[r].person = g
        PROVE  phase'[r] \notin {"by_email", "bind", "create"} /\ (phase'[r] = "ok" => account'[r] = e)
    <3>1. phase[r] \notin {"by_email", "bind", "create"} /\ (phase[r] = "ok" => account[r] = e)
      BY <2>1, <2>3
    <3>2. CASE Stays(r)
      BY <3>1, <3>2 DEF Stays
    <3>3. CASE SignIn(r)
      <4>1. CASE Identify(r)
        BY <4>1 DEF Identify, Begin, Goto
      <4>2. CASE FindByAuthProviderID(r)
        <5>1. users[e] # None /\ users[e].bound = call[r].person
          BY <2>1, <2>3 DEF Bound
        <5>2. r \notin blind'
          OBVIOUS
        <5>3. PICK f \in Email : users[f] # None /\ users[f].bound = call[r].person /\ SignedIn(r, f)
          BY <4>2, <5>1, <5>2 DEF FindByAuthProviderID
        <5>4. f = e
          BY <2>1, <2>3, <5>3 DEF Bound
        <5> QED
          BY <5>3, <5>4 DEF SignedIn, Holds, Committed, Goto
      <4> QED
        BY <3>1, <3>3, <4>1, <4>2 DEF SignIn, FindByEmail, Bind, Create
    <3>4. CASE ~SignIn(r) /\ Serve(r)
      <4>1. phase[r] \notin Within
        BY <2>3 DEF Flow, FlowAt
      <4>2. call[r].op = "sign_in"
        BY <2>3 DEF SignsIn
      <4>3. phase'[r] = phase[r] /\ account'[r] = account[r]
        BY <3>4, <4>1, <4>2
           DEF Serve, Authenticate, Enter, Lookup, Load, Fill, Overrule, Administer, GetUserForAudit, UpdateUser,
               AuditLog, CreateCheckout, FindCustomer, NewCustomer, SaveCustomer, NewSession, Cancel,
               FindSubscriber, EndAtPeriodEnd, Downgrade, Within
      <4> QED
        BY <3>1, <4>3
    <3> QED
      BY <3>2, <3>3, <3>4, OwnSteps
  <2> QED
    BY <1>1, <2>2, <2>3 DEF Settled
<1> QED
  BY <1>0, <1>2, <1>3 DEF Rows

\* Every step keeps a person who signs in again to the account of before.
LEMMA SameStep == IInv /\ Next => AlwaysTheSameAccount'
<1> SUFFICES ASSUME IInv, Next, NEW r \in Request, LetIn(r)', Before(r)' # {}, blind' = {}
             PROVE  \E q \in Request :
                       /\ SignsIn(q)' /\ call'[q].person = call'[r].person /\ account'[q] = account'[r]
                       /\ \E b \in Before(r)' : q = b \/ b \notin earlier'[q]
  BY DEF AlwaysTheSameAccount
<1> USE DEF IInv, TypeOK, AccountTypeOK
<1>0. blind = {} /\ \A q \in Request : call'[q] = call[q]
  BY NextLasts DEF Lasting
<1>1. phase[r] # "idle" /\ Before(r)' = Before(r) /\ Before(r) # {} /\ earlier[r] \subseteq Request
  <2>1. phase[r] # "idle"
    BY LettingIn, LetInLasts DEF Identifying, Came
  <2> QED
    BY <2>1, LetInLasts
<1>2. CASE LetIn(r)
  <2>1. PICK q \in Request :
          /\ SignsIn(q) /\ call[q].person = call[r].person /\ account[q] = account[r]
          /\ \E b \in Before(r) : q = b \/ b \notin earlier[q]
    BY <1>0, <1>1, <1>2 DEF AlwaysTheSameAccount
  <2>2. Came(r) /\ Came(q) /\ account'[r] = account[r]
    BY <1>2, <2>1, LetInLasts DEF Came
  <2>3. Came(q)' /\ account'[q] = account[q] /\ earlier'[q] = earlier[q]
    BY <2>2, LetInLasts
  <2> QED
    BY <1>0, <1>1, <2>1, <2>2, <2>3 DEF Came
<1>3. CASE ~LetIn(r)
  <2>0. ~Came(r)
    <3>1. phase[r] \notin Answered
      BY <1>0, <1>3, NextLasts DEF LetIn, SignsIn, Lasting
    <3> QED
      BY <3>1 DEF History, Came
  <2> DEFINE g == call[r].person
             a == account'[r]
  <2>1. FindByAuthProviderID(r) /\ a \in Bound(g) /\ g \in Person
    BY <1>0, <1>1, <2>0, LettingIn, CallFields DEF Fruitless, FindByEmail, Bind, Create
  <2>2. PICK b \in Request : b \in Before(r) /\ LetIn(b) /\ call[b].person = g
    BY <1>1 DEF Before
  <2>3. SignsIn(b)' /\ account'[b] = account[b]
    BY <2>2, LetInLasts DEF LetIn
  <2>4. CASE Settled(g)
    <3>1. account[b] = a
      BY <2>1, <2>2, <2>4 DEF Settled, LetIn
    <3> QED
      BY <1>0, <1>1, <2>2, <2>3, <3>1
  <2>5. CASE Made(g)
    <3>1. PICK q \in Request : Came(q) /\ call[q].person = g /\ account[q] = a /\ Before(q) = {}
      BY <2>1, <2>5 DEF Made
    <3>2. b \notin earlier[q]
      BY <2>2, <3>1 DEF Before
    <3>3. SignsIn(q)' /\ account'[q] = a /\ earlier'[q] = earlier[q]
      BY <3>1, LetInLasts DEF Came
    <3> QED
      BY <1>0, <1>1, <2>2, <3>1, <3>2, <3>3
  <2> QED
    BY <1>0, <2>1, <2>4, <2>5 DEF Rows
<1> QED
  BY <1>2, <1>3

-----------------------------------------------------------------------------
\* The invariant holds at the start.
LEMMA InitOK == Opening /\ Init => IInv
<1> SUFFICES ASSUME Opening, Init PROVE IInv
  OBVIOUS
<1>1. TypeOK
  BY InitTypes
<1> USE <1>1 DEF Init, AccountInit, BillingInit
<1>2. Flow /\ History /\ AuditOnlyOfEdits
  BY DEF Flow, FlowAt, History, AuditOnlyOfEdits, Identifying, Within
<1>3. \A e \in Email : users[e] # None
         => users[e].plan \in Plan \ {"pro"} /\ users[e].customer = None
  BY DEF Opening
<1>4. Customers
  <2>1. \A r \in Request : CustomerOf(r)
    BY DEF CustomerOf
  <2> QED
    BY <1>3, <2>1 DEF Customers, CustomerIn
<1>5. Saved /\ Events
  BY AccountConstants DEF Saved, SavedAt, Events
<1>6. ProIsPaidFor
  BY <1>3 DEF ProIsPaidFor
<1>7. Addresses
  BY DEF Addresses, Came, LetIn, SignsIn, Opening
<1>8. Fruitless /\ AlwaysTheSameAccount
  BY DEF Fruitless, AlwaysTheSameAccount, LetIn
<1>9. Rows
  <2> SUFFICES ASSUME NEW g \in Person PROVE Settled(g) \/ Made(g)
    BY DEF Rows
  <2>1. CASE Bound(g) = {}
    BY <2>1 DEF Made
  <2>2. CASE Bound(g) # {}
    <3>1. PICK e \in Email : users[e] # None /\ users[e].bound = g
      BY <2>2 DEF Bound
    <3>2. Bound(g) = {e}
      BY <3>1 DEF Bound, Opening
    <3> QED
      BY <3>2 DEF Settled
  <2> QED
    BY <2>1, <2>2
<1> QED
  BY <1>1, <1>2, <1>4, <1>5, <1>6, <1>7, <1>8, <1>9 DEF IInv

\* And of a step that changes nothing.
LEMMA Stutter == IInv /\ UNCHANGED vars => IInv'
<1> SUFFICES ASSUME IInv, UNCHANGED vars PROVE IInv'
  OBVIOUS
<1> USE DEF IInv, vars, accountVars, stripeVars
<1>1. TypeOK'
  BY DEF TypeOK, AccountTypeOK
<1>2. Flow' /\ History' /\ AuditOnlyOfEdits'
  BY DEF Flow, FlowAt, History, AuditOnlyOfEdits, SignsIn
<1>3. Customers' /\ Saved'
  BY DEF Customers, CustomerOf, CustomerIn, Saved, SavedAt, Owner
<1>4. Events' /\ ProIsPaidFor'
  BY DEF Events, ProIsPaidFor, Paid, Owner
<1>5. Addresses'
  BY DEF Addresses, Came, SignsIn, LetIn
<1>6. \A r \in Request : /\ (LetIn(r)' <=> LetIn(r)) /\ (SignsIn(r)' <=> SignsIn(r))
                        /\ (Came(r)' <=> Came(r)) /\ Before(r)' = Before(r)
  BY DEF LetIn, SignsIn, Came, Before
<1>7. Fruitless' /\ AlwaysTheSameAccount'
  BY <1>6 DEF Fruitless, AlwaysTheSameAccount
<1>8. \A g \in Person : Bound(g)' = Bound(g)
  BY DEF Bound
<1>9. \A g \in Person : (Settled(g) => Settled(g)') /\ (Made(g) => Made(g)')
  BY <1>6, <1>8 DEF Settled, Made
<1>10. Rows'
  BY <1>9 DEF Rows
<1> QED
  BY <1>1, <1>2, <1>3, <1>4, <1>5, <1>7, <1>10

\* The invariant holds throughout.
LEMMA Inductive == Spec => []IInv
<1>1. IInv /\ [Next]_vars => IInv'
  <2>1. IInv /\ Next => IInv'
    BY TypeStep, FlowStep, HistoryStep, AuditStep, CustomersStep, SavedStep, EventsStep, ProStep,
       AddressesStep, FruitlessStep, RowsStep, SameStep DEF IInv
  <2> QED
    BY <2>1, Stutter
<1> QED
  BY InitOK, <1>1, PTL DEF Spec

-----------------------------------------------------------------------------
\* Every statement, call of Stripe and expiry of Redis leaves values of the expected
\* shape: a request past its check has a row, an event its subscription.
THEOREM TypeCorrect == Spec => []TypeOK
<1>1. IInv => TypeOK
  BY DEF IInv
<1> QED
  BY Inductive, <1>1, PTL

\* AuditLog of UpdateUser: no audit row of an edit that failed.
THEOREM AuditsAreOfEdits == Spec => []AuditOnlyOfEdits
<1>1. IInv => AuditOnlyOfEdits
  BY DEF IInv
<1> QED
  BY Inductive, <1>1, PTL

\* findOrCreateUser: however sign-ins interleave, who was let in before gets that
\* account again, or one that overlapping sign-ins made.
THEOREM SameAccount == Spec => []AlwaysTheSameAccount
<1>1. IInv => AlwaysTheSameAccount
  BY DEF IInv
<1> QED
  BY Inductive, <1>1, PTL

\* The webhook: whatever the number and the order of Stripe's calls, "pro" is paid
\* for or given by an administrator.
THEOREM ProPaid == Spec => []ProIsPaidFor
<1>1. IInv => ProIsPaidFor
  BY DEF IInv
<1> QED
  BY Inductive, <1>1, PTL

\* CreateCheckout: two customers of one account come from checkouts that overlapped,
\* or from an UPDATE that failed.
THEOREM OneCustomer == Spec => []OneCustomerUnlessOverlap
<1>1. IInv => OneCustomerUnlessOverlap
  BY DEF IInv, Saved, SavedAt, OneCustomerUnlessOverlap
<1> QED
  BY Inductive, <1>1, PTL

\* What the answers rest on: no step of another request, of Stripe or of Redis takes
\* back an answer, who was there before, or the account a sign-in was let into.
THEOREM AnswersLast ==
  Spec => [][\A r \in Request : phase[r] \in Answered
               => phase'[r] = phase[r] /\ account'[r] = account[r] /\ earlier'[r] = earlier[r]]_vars
<1> DEFINE P == \A r \in Request : phase[r] \in Answered
               => phase'[r] = phase[r] /\ account'[r] = account[r] /\ earlier'[r] = earlier[r]
<1>1. IInv /\ Next => P
  BY NextLasts DEF Lasting, Answered
<1> HIDE DEF P
<1>2. IInv /\ [Next]_vars => [P]_vars
  BY <1>1
<1>3. Spec => [][P]_vars
  BY Inductive, <1>2, PTL DEF Spec
<1> QED
  BY <1>3 DEF P
=============================================================================
