------------------------------ MODULE Account -------------------------------
(***************************************************************************)
(* The accounts of api-go: sign-in with Google (handler/auth.go), the      *)
(* check that every authenticated request goes through, with its cached    *)
(* user (middleware/auth.go, service/auth_service.go), and the edit of an  *)
(* account by an administrator (handler/admin.go).  Each statement commits *)
(* by itself and requests interleave between statements.                   *)
(***************************************************************************)
EXTENDS FiniteSets

CONSTANTS
    Email,       \* names a row of users: unique, and no statement changes it
    Person,      \* ids of Google accounts
    Nobody,      \* auth_provider_id is NULL
    Elsewhere,   \* an id of another provider
    Request,
    Calls,       \* what the requests may be
    None

VARIABLES
    users,       \* the table
    cache,       \* Redis: user:<id>
    call,        \* what each request is
    phase,       \* the statement it has reached, or its answer
    seen,        \* the row it has read
    account,     \* the row a sign-in has found, bound or made, an edit has changed
    audits,      \* admin_audit_logs
    unwritten,   \* requests whose goroutine has still to write its audit row
    earlier,     \* the requests answered when this one began, for the properties
    blind        \* sign-ins one of whose lookups failed, for the properties

accountVars == <<users, cache, call, phase, seen, account, audits, unwritten, earlier, blind>>

Plan == {"free", "pro_trial", "pro", "demo"}

Row == [bound: Person \cup {Nobody, Elsewhere}, plan: Plan, active: BOOLEAN,
        customer: Request \cup {None}]

Call ==
    [op: {"sign_in"}, person: Person, email: Email]
      \cup [op: {"me", "checkout", "cancel"}, by: Email]
      \cup [op: {"set_plan"}, by: Email, user: Email, to: Plan]
      \cup [op: {"set_active"}, by: Email, user: Email, to: BOOLEAN]

Answered == {"ok", "unauthorized", "not_found", "bad_request", "failed"}
Phase ==
    {"idle", "by_id", "by_email", "bind", "create", "get", "select", "set", "admitted", "edit"}
      \cup {"customer", "save", "session", "list", "downgrade"} \cup Answered

ASSUME AccountConstants ==
    /\ Calls \subseteq Call /\ {Nobody, Elsewhere} \cap Person = {} /\ Nobody # Elsewhere
    /\ None \notin Email \cup Request /\ None \notin Row
    /\ None \notin [active: BOOLEAN, expires: BOOLEAN]

AccountTypeOK ==
    /\ users \in [Email -> Row \cup {None}]
    /\ cache \in [Email -> [active: BOOLEAN, expires: BOOLEAN] \cup {None}]
    /\ call \in [Request -> Call] /\ phase \in [Request -> Phase]
    /\ seen \in [Request -> Row \cup {None}] /\ account \in [Request -> Email \cup {None}]
    /\ audits \subseteq [req: Request, old: Row] /\ unwritten \subseteq Request
    /\ earlier \in [Request -> SUBSET Request] /\ blind \subseteq Request

AccountInit ==
    /\ cache = [e \in Email |-> None]
    /\ call \in [Request -> Calls] /\ phase = [r \in Request |-> "idle"]
    /\ seen = [r \in Request |-> None] /\ account = [r \in Request |-> None]
    /\ audits = {} /\ unwritten = {}
    /\ earlier = [r \in Request |-> {}] /\ blind = {}

\* The table when the model starts: subscriptions are still to come, each person
\* has one row at most, and nobody signs in with an address of someone else.
SignsIn(r) == call[r].op = "sign_in"
Opening ==
    /\ users \in [Email -> [bound: Person \cup {Nobody, Elsewhere}, plan: Plan \ {"pro"},
                           active: BOOLEAN, customer: {None}] \cup {None}]
    /\ \A e, f \in Email :
          users[e] # None /\ users[f] # None /\ users[e].bound = users[f].bound
            => e = f \/ users[e].bound \notin Person
    /\ \A r \in Request : SignsIn(r) =>
          /\ \A q \in Request : SignsIn(q) /\ call[q].email = call[r].email => call[q].person = call[r].person
          /\ users[call[r].email] # None
               => users[call[r].email].bound \in {Nobody, Elsewhere, call[r].person}

-----------------------------------------------------------------------------

Goto(r, p) == phase' = [phase EXCEPT ![r] = p]
Sees(r, x) == seen' = [seen EXCEPT ![r] = x]

\* The request ends: what it has read is forgotten.
Answer(r, a) == Goto(r, a) /\ Sees(r, None)

\* One UPDATE of a row, naming the columns it sets.
Update(e, row) == users' = [users EXCEPT ![e] = row]
Holds(r, e) == account' = [account EXCEPT ![r] = e]

Begin(r, p) ==
    /\ phase[r] = "idle"
    /\ earlier' = [earlier EXCEPT ![r] = {q \in Request : phase[q] \in Answered}]
    /\ Goto(r, p)

-----------------------------------------------------------------------------
(* GET /api/auth/google/callback: findOrCreateUser                         *)

Identify(r) ==
    /\ call[r].op = "sign_in" /\ Begin(r, "by_id")
    /\ UNCHANGED <<users, cache, call, seen, account, audits, unwritten, blind>>

\* The sign-in has its row.  The login time that is then written, and the
\* display name of a new account, are not modelled.
SignedIn(r, e) ==
    /\ Holds(r, e)
    /\ Goto(r, "ok")

\* A statement that commits may be reported as failed all the same, and its
\* request answered with an error.
Committed(r, e) == SignedIn(r, e) \/ (Holds(r, e) /\ Goto(r, "failed"))

\* Mutant of FindByAuthProviderID: people are looked up by email only.
FindByEmailOnly(r) ==
    /\ phase[r] = "by_id"
    /\ Goto(r, "by_email")
    /\ UNCHANGED <<users, cache, call, seen, account, audits, unwritten, earlier, blind>>

\* FindByAuthProviderID.  The id is not unique in the table; any error, a
\* timeout too, is taken for "no such user".
FindByAuthProviderID(r) ==
    /\ phase[r] = "by_id"
    /\ \/ \E e \in Email :
             /\ users[e] # None /\ users[e].bound = call[r].person
             /\ SignedIn(r, e)
             /\ UNCHANGED blind
       \/ /\ \A e \in Email : users[e] # None => users[e].bound # call[r].person
          /\ Goto(r, "by_email")
          /\ UNCHANGED <<account, blind>>
       \/ /\ blind' = blind \cup {r}
          /\ Goto(r, "by_email")
          /\ UNCHANGED account
    /\ UNCHANGED <<users, cache, call, seen, audits, unwritten, earlier>>

\* FindByEmail: a row of before OAuth, or of another provider, is to be bound.
FindByEmail(r) ==
    LET e == call[r].email
    IN  /\ phase[r] = "by_email"
        /\ \/ /\ users[e] # None
              /\ IF users[e].bound \in {Nobody, Elsewhere}
                 THEN Goto(r, "bind") /\ UNCHANGED account
                 ELSE SignedIn(r, e)
              /\ UNCHANGED blind
           \/ /\ users[e] = None
              /\ Goto(r, "create")
              /\ UNCHANGED <<account, blind>>
           \/ /\ blind' = blind \cup {r}
              /\ Goto(r, "create")
              /\ UNCHANGED account
        /\ UNCHANGED <<users, cache, call, seen, audits, unwritten, earlier>>

\* UpdateAuthProvider.
Bind(r) ==
    LET e == call[r].email
    IN  /\ phase[r] = "bind"
        /\ \/ Update(e, [users[e] EXCEPT !.bound = call[r].person]) /\ Committed(r, e)
           \/ Goto(r, "failed") /\ UNCHANGED <<users, account>>
        /\ UNCHANGED <<cache, call, seen, audits, unwritten, earlier, blind>>

\* Mutant of NewRow: the column has no default.
NewRowUnplanned(g) == [bound |-> g, plan |-> None, active |-> TRUE, customer |-> None]

NewRow(g) == [bound |-> g, plan |-> "free", active |-> TRUE, customer |-> None]

\* INSERT, which the unique index on email may refuse.
Create(r) ==
    LET e == call[r].email
    IN  /\ phase[r] = "create"
        /\ \/ users[e] = None /\ Update(e, NewRow(call[r].person)) /\ Committed(r, e)
           \/ Goto(r, "failed") /\ UNCHANGED <<users, account>>
        /\ UNCHANGED <<cache, call, seen, audits, unwritten, earlier, blind>>

SignIn(r) == Identify(r) \/ FindByAuthProviderID(r) \/ FindByEmail(r) \/ Bind(r) \/ Create(r)

-----------------------------------------------------------------------------
(* AuthMiddleware: GetUser and the check of is_active                      *)

\* A request with a token, which only a sign-in issues: its row is bound.
Enter(r) ==
    /\ call[r].op # "sign_in" /\ users[call[r].by] # None /\ users[call[r].by].bound \in Person
    /\ Begin(r, "get")
    /\ UNCHANGED <<users, cache, call, seen, account, audits, unwritten, blind>>

\* A handler that has nothing to change is left out: "me" is answered at once.
Admit(r, active) ==
    Answer(r, IF ~active THEN "unauthorized" ELSE IF call[r].op = "me" THEN "ok" ELSE "admitted")

\* GET user:<id>; an error of Redis, or one that takes 500 ms, is a miss.
Lookup(r) ==
    LET c == cache[call[r].by]
    IN  /\ phase[r] = "get"
        /\ \/ c # None /\ Admit(r, c.active)
           \/ Goto(r, "select") /\ UNCHANGED seen
        /\ UNCHANGED <<users, cache, call, account, audits, unwritten, earlier, blind>>

\* FindByID.
Load(r) ==
    /\ phase[r] = "select"
    /\ \/ Sees(r, users[call[r].by]) /\ Goto(r, "set")
       \/ Answer(r, "unauthorized")
    /\ UNCHANGED <<users, cache, call, account, audits, unwritten, earlier, blind>>

\* Mutant of Fill: SET without an expiry.
FillForEver(r) ==
    /\ phase[r] = "set"
    /\ cache' = [cache EXCEPT ![call[r].by] = [active |-> seen[r].active, expires |-> FALSE]]
    /\ Admit(r, seen[r].active)
    /\ UNCHANGED <<users, call, account, audits, unwritten, earlier, blind>>

\* SET for five minutes, best effort, whatever has been committed meanwhile.
Fill(r) ==
    /\ phase[r] = "set"
    /\ \/ cache' = [cache EXCEPT ![call[r].by] = [active |-> seen[r].active, expires |-> TRUE]]
       \/ UNCHANGED cache
    /\ Admit(r, seen[r].active)
    /\ UNCHANGED <<users, call, account, audits, unwritten, earlier, blind>>

Expire(e) ==
    /\ cache[e] # None /\ cache[e].expires
    /\ cache' = [cache EXCEPT ![e] = None]
    /\ UNCHANGED <<users, call, phase, seen, account, audits, unwritten, earlier, blind>>

Authenticate(r) == Enter(r) \/ Lookup(r) \/ Load(r) \/ Fill(r)

-----------------------------------------------------------------------------
(* PATCH /api/admin/users/:id                                              *)

Edits == {"set_plan", "set_active"}

\* GetUserForAudit: what the columns were.
GetUserForAudit(r) ==
    /\ phase[r] = "admitted" /\ call[r].op \in Edits
    /\ LET row == users[call[r].user]
       IN  \/ row # None /\ Sees(r, row) /\ Goto(r, "edit")
           \/ Answer(r, "not_found")
    /\ UNCHANGED <<users, cache, call, account, audits, unwritten, earlier, blind>>

Edited(r, row) ==
    IF call[r].op = "set_plan" THEN [row EXCEPT !.plan = call[r].to]
                               ELSE [row EXCEPT !.active = call[r].to]

\* Mutant of UpdateUser: the audit goroutine starts before the UPDATE.
AuditFirst(r) ==
    LET e == call[r].user
    IN  /\ phase[r] = "edit"
        /\ unwritten' = unwritten \cup {r}
        /\ \/ Update(e, Edited(r, users[e])) /\ Committed(r, e)
           \/ Goto(r, "failed") /\ UNCHANGED <<users, account>>
        /\ UNCHANGED <<cache, call, seen, audits, earlier, blind>>

\* UpdateUser, which leaves the cached user alone; then the audit row is left to
\* a goroutine of its own.
UpdateUser(r) ==
    LET e == call[r].user
    IN  /\ phase[r] = "edit"
        /\ \/ /\ Update(e, Edited(r, users[e])) /\ Holds(r, e)
              /\ \/ Goto(r, "ok") /\ unwritten' = unwritten \cup {r} /\ UNCHANGED seen
                 \/ Answer(r, "failed") /\ UNCHANGED unwritten
           \/ Answer(r, "failed") /\ UNCHANGED <<users, account, unwritten>>
        /\ UNCHANGED <<cache, call, audits, earlier, blind>>

\* AuditLog runs with the context of the request, which is cancelled when the
\* handler returns: the row may be lost.
AuditLog(r) ==
    /\ r \in unwritten
    /\ unwritten' = unwritten \ {r} /\ Sees(r, None)
    /\ \/ audits' = audits \cup {[req |-> r, old |-> seen[r]]}
       \/ UNCHANGED audits
    /\ UNCHANGED <<users, cache, call, phase, account, earlier, blind>>

Administer(r) == GetUserForAudit(r) \/ UpdateUser(r) \/ AuditLog(r)

-----------------------------------------------------------------------------

\* The sign-in is over and has let its person in.
LetIn(r) == SignsIn(r) /\ phase[r] = "ok"
Before(r) == {q \in earlier[r] : LetIn(q) /\ call[q].person = call[r].person}

\* A person who signs in again gets the account of before, also with another
\* email, or one that a sign-in made which overlapped with one of before,
\* whatever that one was answered; unless a lookup has failed.
AlwaysTheSameAccount ==
    \A r \in Request :
        LetIn(r) /\ Before(r) # {} /\ blind = {}
          => \E q \in Request :
                /\ SignsIn(q) /\ call[q].person = call[r].person /\ account[q] = account[r]
                /\ \E b \in Before(r) : q = b \/ b \notin earlier[q]

\* An audit row tells of an edit that was made.
AuditOnlyOfEdits == \A a \in audits : phase[a.req] = "ok"

\* Nothing deletes a cached user when its row changes; still, what a request is
\* admitted or refused on becomes what the table says.
EditTakesHold == <>[](\A e \in Email : cache[e] # None => cache[e].active = users[e].active)
=============================================================================
