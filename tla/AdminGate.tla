------------------------------ MODULE AdminGate -------------------------------
(* The way into the admin console: the account, then the second factor        *)
(* (src/app/admin-frontend/src/components/mfa, lib/mfa-store.ts, lib/api.ts,  *)
(* app/page.tsx 84-171; the server's half is handler/admin_mfa.go and         *)
(* service/mfa_service.go).  One tab of one administrator.                    *)
(*                                                                            *)
(* fetchAPI meets a 401 by refreshing the token and sending the request once  *)
(* more, and a wrong code is a 401: it is sent, and counted, twice.  The      *)
(* Enter key sends the code again whatever is in flight, so that two codes    *)
(* pass the lock-out together; a database or a Redis that fails is answered   *)
(* step by step, and the status of a row that cannot be read is "no row".     *)
EXTENDS Naturals, FiniteSets

CONSTANTS
    MaxTyped,        \* submissions of a code, a bound of the model
    maxAttempts      \* wrong codes before the lock-out
ASSUME GateAssumption == MaxTyped \in Nat \ {0} /\ maxAttempts \in Nat \ {0}

VARIABLES
    gate,       \* the tab: view, account, error, token, and what it asks
    mfa,        \* the server: admin_mfa row, attempts, session, the code used
    codes,      \* the submissions in flight, each at its step
    past        \* what happened: typed, lapsed, abandoned, misread
gateVars == <<gate, mfa, codes, past>>

InFlight == 2   \* submissions at a time, a bound of the model
MostAttempts == maxAttempts + InFlight - 1
Code == [no: 1 .. MaxTyped, right: BOOLEAN, enrols: BOOLEAN, again: BOOLEAN,
         step: {"sent", "passed", "taken"}]

GateView == {"loading", "setup", "scan", "challenge", "authenticated", "error", "away"}
GateTypeOK ==
    /\ gate \in [me: {"loading", "admin", "other", "failed"}, view: GateView, error: BOOLEAN,
                 token: BOOLEAN, asks: {"nothing", "status", "session", "start"}]
    /\ mfa \in [row: {"none", "pending", "enabled"}, attempts: 0 .. MostAttempts,
                session: BOOLEAN, used: BOOLEAN]
    /\ codes \subseteq Code
    /\ past \in [typed: 0 .. MaxTyped, sent: 0 .. MaxTyped, lapsed: BOOLEAN,
                 abandoned: BOOLEAN, misread: BOOLEAN]

\* MfaGate mounts: it asks for the status at once.
GateMounted(g) == [g EXCEPT !.view = "loading", !.error = FALSE, !.asks = "status"]

GateInit ==
    /\ \E row \in {"none", "enabled"} :
          mfa = [row |-> row, attempts |-> 0, session |-> FALSE, used |-> FALSE]
    /\ gate = [me |-> "loading", view |-> "loading", error |-> FALSE, token |-> FALSE, asks |-> "nothing"]
    /\ codes = {} /\ past = [typed |-> 0, sent |-> 0, lapsed |-> FALSE, abandoned |-> FALSE, misread |-> FALSE]

-----------------------------------------------------------------------------
\* The page: a spinner, a refusal, or the gate with the console behind it.
ShowsRefusal == gate.me \in {"other", "failed"}
ShowsGate == gate.me = "admin"
ShowsConsole == ShowsGate /\ gate.view = "authenticated"
Tabs == IF ShowsConsole THEN {"users", "stats", "audit", "batch", "flags"} ELSE {}

Me(answer) ==
    /\ gate.me \in {"loading", "failed"} /\ gate.view # "away"
    /\ gate' = IF answer = "admin" THEN GateMounted([gate EXCEPT !.me = answer]) ELSE [gate EXCEPT !.me = answer]
    /\ UNCHANGED <<mfa, codes, past>>

\* checkAuth: the status, and then the session of the token kept, if any.  A
\* status whose query fails says that there is no row, whatever there is.
checkAuth ==
    /\ ShowsGate /\ gate.asks = "status"
    /\ \/ /\ gate' = [gate EXCEPT !.view = "error", !.asks = "nothing"]
          /\ UNCHANGED past
       \/ /\ gate' = [gate EXCEPT !.view = "setup", !.asks = "nothing"]
          /\ past' = [past EXCEPT !.misread = (mfa.row = "enabled")]
       \/ /\ mfa.row = "enabled"
          /\ gate' = IF gate.token THEN [gate EXCEPT !.asks = "session"]
                     ELSE [gate EXCEPT !.view = "challenge", !.asks = "nothing"]
          /\ UNCHANGED past
    /\ UNCHANGED <<mfa, codes>>
SessionCheck ==              \* a query that fails says the token is not valid
    /\ gate.asks = "session"
    /\ \E view \in {"error", "challenge", "authenticated"} :
          /\ view = "authenticated" => mfa.session /\ gate.token
          /\ gate' = [gate EXCEPT !.view = view, !.asks = "nothing"]
    /\ UNCHANGED <<mfa, codes, past>>
Retry ==
    /\ ShowsGate /\ gate.view = "error"
    /\ gate' = GateMounted(gate)
    /\ UNCHANGED <<mfa, codes, past>>

\* The setup: one row per administrator, and its secret is shown only once.  A
\* row that is there is refused (409, or the table's unique user); one that is
\* not may fail to be stored, and one that is stored may be answered in vain.
OffersSetup == ShowsGate /\ gate.view = "setup" /\ gate.asks = "nothing"
handleStartSetup ==
    /\ OffersSetup
    /\ gate' = [gate EXCEPT !.asks = "start", !.error = FALSE]
    /\ UNCHANGED <<mfa, codes, past>>
Setup(lost) ==
    /\ gate.asks = "start" /\ mfa.row = "none"
    /\ mfa' = [mfa EXCEPT !.row = "pending"]
    /\ gate' = IF lost THEN [gate EXCEPT !.asks = "nothing", !.error = TRUE]
               ELSE [gate EXCEPT !.asks = "nothing", !.view = "scan"]
    /\ past' = [past EXCEPT !.abandoned = @ \/ lost]
    /\ UNCHANGED codes
SetupRefused ==
    /\ gate.asks = "start"
    /\ gate' = [gate EXCEPT !.asks = "nothing", !.error = TRUE]
    /\ UNCHANGED <<mfa, codes, past>>

\* Six digits are there to send; only the button minds what is in flight.
AsksForCode == ShowsGate /\ gate.view \in {"scan", "challenge"}
ButtonEnabled == AsksForCode /\ codes = {}
handleVerify(right) ==
    /\ AsksForCode /\ Cardinality(codes) < InFlight /\ past.sent < MaxTyped
    /\ past' = [past EXCEPT !.typed = @ + 1, !.sent = @ + 1]
    /\ codes' = codes \cup {[no |-> past.sent + 1, right |-> right, enrols |-> gate.view = "scan",
                              again |-> FALSE, step |-> "sent"]}
    /\ gate' = [gate EXCEPT !.error = FALSE]
    /\ UNCHANGED mfa

-----------------------------------------------------------------------------
\* SetupVerify and Verify: the lock-out, and later the row, the code and the
\* replay; then the code is marked as used, the attempts are forgotten, the row
\* is enabled and a session is opened, each by a call that may fail.
Locked == mfa.attempts >= maxAttempts
Expected(c) == mfa.row = IF c.enrols THEN "pending" ELSE "enabled"
Stepped(c, step) == (codes \ {c}) \cup {[c EXCEPT !.step = step]}

\* An answer reaches the form only while it is there.
Refused(g) == IF AsksForCode THEN [g EXCEPT !.error = TRUE] ELSE g

CheckRateLimit(c) ==
    /\ c.step = "sent" /\ ~Locked
    /\ codes' = Stepped(c, "passed")
    /\ UNCHANGED <<gate, mfa, past>>
CheckReplay(c) ==
    /\ c.step = "passed" /\ Expected(c) /\ c.right /\ ~mfa.used
    /\ codes' = Stepped(c, "taken")
    /\ UNCHANGED <<gate, mfa, past>>

\* A wrong code is counted, if Redis takes it; one used before, or whose use
\* Redis does not tell, is refused alike.  fetchAPI sends either once more.
Unauthorized(c, counted) ==
    /\ c.step = "passed" /\ Expected(c)
    /\ counted => ~c.right
    /\ mfa' = IF counted THEN [mfa EXCEPT !.attempts = @ + 1] ELSE mfa
    /\ codes' = IF c.again THEN codes \ {c}
                ELSE (codes \ {c}) \cup {[c EXCEPT !.again = TRUE, !.step = "sent"]}
    /\ gate' = IF c.again THEN Refused(gate) ELSE gate
    /\ UNCHANGED past

\* MarkCodeUsed and ClearAttempts, whose errors nobody sees; then the rest.
Redeemed(marked, cleared) ==
    [mfa EXCEPT !.used = @ \/ marked, !.attempts = IF cleared THEN 0 ELSE @]
Forgiven(cleared) ==
    [past EXCEPT !.typed = IF cleared THEN Cardinality(codes) - 1 ELSE @]
Accepted(c, marked, cleared) ==
    /\ c.step = "taken"
    /\ mfa' = [Redeemed(marked, cleared) EXCEPT !.row = "enabled", !.session = TRUE]
    /\ past' = [Forgiven(cleared) EXCEPT !.lapsed = FALSE]
    /\ gate' = [gate EXCEPT !.token = TRUE, !.view = "authenticated"]
    /\ codes' = codes \ {c}
\* EnableMFA or CreateSession fails, or the answer does: what was done stays.
HalfDone(c, marked, cleared, done) ==
    /\ c.step = "taken"
    /\ mfa' = [Redeemed(marked, cleared) EXCEPT !.row = IF done = "nothing" THEN @ ELSE "enabled",
                                                !.session = @ \/ done = "session"]
    /\ past' = Forgiven(cleared)
    /\ codes' = codes \ {c} /\ gate' = Refused(gate)
\* Locked out, another row than the form's, or a database, a Redis or a secret
\* that cannot be read.
Rejected(c) ==
    /\ c.step # "taken"
    /\ codes' = codes \ {c} /\ gate' = Refused(gate)
    /\ UNCHANGED <<mfa, past>>

\* The refresh is refused: the tab leaves for Google.
SessionEnds(c) ==
    /\ c.again /\ codes' = {}
    /\ gate' = [gate EXCEPT !.view = "away", !.asks = "nothing"]
    /\ UNCHANGED <<mfa, past>>

-----------------------------------------------------------------------------
\* The log-out button ends the session, forgets the token and leaves, without
\* waiting; getMfaToken forgets a token that has expired.  An hour, a quarter of
\* an hour and the life of a code are longer than any request.
Logout(lost) ==
    /\ ShowsConsole
    /\ mfa' = [mfa EXCEPT !.session = @ /\ lost]
    /\ gate' = [gate EXCEPT !.view = "away", !.token = FALSE]
    /\ UNCHANGED <<codes, past>>
SessionLapses ==
    /\ mfa.session /\ codes = {}
    /\ mfa' = [mfa EXCEPT !.session = FALSE]
    /\ gate' = [gate EXCEPT !.token = FALSE]
    /\ past' = [past EXCEPT !.lapsed = TRUE]
    /\ UNCHANGED codes
LockLifts ==
    /\ mfa.attempts > 0 /\ codes = {}
    /\ mfa' = [mfa EXCEPT !.attempts = 0] /\ past' = [past EXCEPT !.typed = 0]
    /\ UNCHANGED <<gate, codes>>
CodeChanges ==
    /\ mfa.used /\ codes = {}
    /\ mfa' = [mfa EXCEPT !.used = FALSE]
    /\ UNCHANGED <<gate, codes, past>>
ReloadConsole ==
    /\ gate.me # "loading" /\ codes = {}
    /\ gate' = [gate EXCEPT !.me = "loading", !.view = "loading", !.error = FALSE, !.asks = "nothing"]
    /\ past' = [past EXCEPT !.abandoned = @ \/ mfa.row = "pending"]
    /\ UNCHANGED <<mfa, codes>>

GateNext ==
    \/ \E answer \in {"admin", "other", "failed"} : Me(answer)
    \/ checkAuth
    \/ SessionCheck
    \/ Retry
    \/ handleStartSetup
    \/ \E lost \in BOOLEAN : Setup(lost)
    \/ SetupRefused
    \/ \E right \in BOOLEAN : handleVerify(right)
    \/ \E c \in codes : CheckRateLimit(c)
    \/ \E c \in codes : CheckReplay(c)
    \/ \E c \in codes, counted \in BOOLEAN : Unauthorized(c, counted)
    \/ \E c \in codes, marked, cleared \in BOOLEAN : Accepted(c, marked, cleared)
    \/ \E c \in codes, marked, cleared \in BOOLEAN, done \in {"nothing", "row", "session"} :
          HalfDone(c, marked, cleared, done)
    \/ \E c \in codes : Rejected(c)
    \/ \E c \in codes : SessionEnds(c)
    \/ \E lost \in BOOLEAN : Logout(lost)
    \/ SessionLapses
    \/ LockLifts
    \/ CodeChanges
    \/ ReloadConsole
GateSpec == GateInit /\ [][GateNext]_gateVars

-----------------------------------------------------------------------------
\* AdminMFAMiddleware lets the console's requests through.
Admits == mfa.row # "enabled" \/ (gate.token /\ mfa.session)

\* The console is open only to a tab whose requests the server admits, until
\* the session runs out under it (MfaGate never asks again).
OpenGateIsHonoured == ShowsConsole => mfa.row = "enabled" /\ (Admits \/ past.lapsed)

\* A lock-out is never dearer than two attempts for each code submitted since
\* the attempts were last forgotten (RecordAttempt and the second sending of fetchAPI).
LockoutIsEarned == mfa.attempts <= 2 * past.typed

\* An administrator who is offered the setup can begin it, unless an earlier
\* one was begun and left (its row is still there and its secret is gone) or
\* the status could not be read of a row that is enabled.
SetupCanBegin ==
    OffersSetup => \/ mfa.row = "none"
                   \/ mfa.row = "pending" /\ past.abandoned
                   \/ mfa.row = "enabled" /\ past.misread

GateSound == OpenGateIsHonoured /\ LockoutIsEarned /\ SetupCanBegin
=============================================================================
