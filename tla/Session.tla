------------------------------ MODULE Session -------------------------------
(* The session of one browser tab: the token cookie, the account the pages    *)
(* believe in, requests that meet a 401 and share one refresh of the token,   *)
(* the redirect to the login page, signing in and out                         *)
(* (src/app/frontend/src/lib/api.ts, lib/swr.tsx, lib/auth-store.ts,          *)
(* components/providers, app/login, app/auth/callback, components/layout).    *)
(*                                                                            *)
(* A request carries the cookie as it was when the request was sent.  A page  *)
(* load throws away the state of the tab and every request still in flight.   *)
(* The cookie lives as long as the token in it, up to a second: an expired    *)
(* token is still sent in that second and never after it.                     *)
EXTENDS Naturals, FiniteSets

CONSTANT MaxCalls      \* calls of the pages, a bound of the model
ASSUME CallsAssumption == MaxCalls \in Nat \ {0}

VARIABLES
    cookie,        \* "none", or the token in it: "live" or "expired"
    serving,       \* the account exists and is not deactivated
    tab,           \* page, user, loading, redirecting and the load under way
    asked,         \* of "api" (fetchAPI) and "swr" (swrFetcher): the request
    refreshing,    \* the cookie refreshPromise was sent with, or "idle"
    identity,      \* the fetches of /api/auth/me in flight, with their cookie
    leaving,       \* a logout is in flight: "no", "signOut" or "fired"
    made,          \* calls of the pages so far
    out            \* how the last sign-out went: "in", "clean" or "raced"
sessionVars == <<cookie, serving, tab, asked, refreshing, identity, leaving, made, out>>

Token == {"none", "expired", "live"}
Fetcher == {"api", "swr"}
Guarded == {"dashboard"}          \* stands for every page inside AuthGuard
Page == {"home", "login", "callback"} \cup Guarded
Asker == {"provider", "callback"}
Idle == [at |-> "idle", with |-> "none"]

SessionTypeOK ==
    /\ cookie \in Token /\ serving \in BOOLEAN /\ made \in 0 .. MaxCalls
    /\ tab \in [page: Page, user: BOOLEAN, loading: BOOLEAN, redirecting: BOOLEAN,
                to: Page \cup {"nowhere", "google"}]
    /\ asked \in [Fetcher -> [at: {"idle", "first", "refresh", "second"}, with: Token]]
    /\ refreshing \in Token \cup {"idle"}
    /\ identity \in [Asker -> Token \cup {"idle"}]
    /\ leaving \in {"no", "signOut", "fired"}
    /\ out \in {"in", "clean", "raced"}

\* A page just loaded: the first fetch of the account starts at once, and the
\* callback page asks a second time.
Loaded(page, with) ==
    /\ tab' = [page |-> page, user |-> FALSE, loading |-> TRUE, redirecting |-> FALSE, to |-> "nowhere"]
    /\ asked' = [f \in Fetcher |-> Idle] /\ refreshing' = "idle" /\ leaving' = "no"
    /\ identity' = [a \in Asker |-> IF a = "provider" \/ page = "callback" THEN with ELSE "idle"]

SessionInit ==
    /\ cookie \in {"none", "live"} /\ serving = TRUE /\ made = 0 /\ out = "in"
    /\ tab = [page |-> "dashboard", user |-> FALSE, loading |-> TRUE, redirecting |-> FALSE, to |-> "nowhere"]
    /\ asked = [f \in Fetcher |-> Idle] /\ refreshing = "idle" /\ leaving = "no"
    /\ identity = [provider |-> cookie, callback |-> "idle"]

\* What the middleware lets through, and what the refresh endpoint does: the
\* one checks the account, the other only the token and its week.
Admitted(with) == with = "live" /\ serving
Renewable(with) == with # "none"

\* AuthGuard and LoginPage move on within the tab, keeping its state.
Guard ==
    /\ tab.page \in Guarded /\ ~tab.loading /\ ~tab.user
    /\ tab' = [tab EXCEPT !.page = "login"]
    /\ UNCHANGED <<cookie, serving, asked, refreshing, identity, leaving, made, out>>
ShowsContent == tab.page \in Guarded /\ ~tab.loading /\ tab.user
LoginPage ==
    /\ tab.page = "login" /\ ~tab.loading /\ tab.user
    /\ tab' = [tab EXCEPT !.page = "home"]
    /\ UNCHANGED <<cookie, serving, asked, refreshing, identity, leaving, made, out>>
ShowsForm == tab.page = "login" /\ ~(tab.loading \/ tab.user)

\* What the header and the user menu offer.
HeaderLinks ==
    IF tab.loading THEN {}
    ELSE IF tab.user THEN {"home"} \cup Guarded ELSE {"home", "login"}
OffersSignOut == ~tab.loading /\ tab.user

Visit(page) ==
    /\ tab.to = "nowhere" /\ page \in HeaderLinks /\ page # tab.page
    /\ tab' = [tab EXCEPT !.page = page]
    /\ UNCHANGED <<cookie, serving, asked, refreshing, identity, leaving, made, out>>

\* fetchMe: only a 401 takes the user away; the first one ends the loading
\* state, the callback page goes home whatever became of its own.
FetchMe(a, answer) ==
    /\ identity[a] # "idle"
    /\ answer \in {"failed", IF Admitted(identity[a]) THEN "ok" ELSE "401"}
    /\ identity' = [identity EXCEPT ![a] = "idle"]
    /\ tab' = [tab EXCEPT !.user = IF answer = "failed" THEN @ ELSE answer = "ok",
                          !.loading = @ /\ a # "provider",
                          !.page = IF a = "callback" /\ @ = "callback" THEN "home" ELSE @]
    /\ UNCHANGED <<cookie, serving, asked, refreshing, leaving, made, out>>

Ask(f) ==
    /\ ShowsContent /\ asked[f] = Idle /\ made < MaxCalls
    /\ asked' = [asked EXCEPT ![f] = [at |-> "first", with |-> cookie]]
    /\ made' = made + 1
    /\ UNCHANGED <<cookie, serving, tab, refreshing, identity, leaving, out>>

\* refreshToken: whoever comes while a refresh is in flight waits for it.
RefreshToken(f) ==
    /\ asked' = [asked EXCEPT ![f].at = "refresh"]
    /\ refreshing' = IF refreshing = "idle" THEN cookie ELSE refreshing

\* A session that cannot be saved: log out without waiting, and leave, once.
RedirectedAgain(t) == [t EXCEPT !.to = "login"]      \* mutant: without the flag
Redirected(t) == IF t.redirecting THEN t ELSE [t EXCEPT !.redirecting = TRUE, !.to = "login"]
Redirect ==
    /\ tab' = Redirected(tab)
    /\ leaving' = IF tab.redirecting \/ leaving # "no" THEN leaving ELSE "fired"

FirstAnswer(f) ==
    /\ asked[f].at = "first"
    /\ \/ asked' = [asked EXCEPT ![f] = Idle] /\ UNCHANGED refreshing      \* answered, or a network error
       \/ ~Admitted(asked[f].with) /\ RefreshToken(f)
    /\ UNCHANGED <<cookie, serving, tab, identity, leaving, made, out>>

\* The refresh is answered: every waiting call is sent again, with the new
\* cookie, or ends the session; a network error only fails them.
Waiting == {f \in Fetcher : asked[f].at = "refresh"}
Resume(at, with) ==
    asked' = [f \in Fetcher |-> IF f \in Waiting THEN [at |-> at, with |-> with] ELSE asked[f]]
RefreshAnswered ==
    /\ refreshing # "idle" /\ Renewable(refreshing)
    /\ refreshing' = "idle" /\ cookie' = "live" /\ Resume("second", "live")
    /\ UNCHANGED <<serving, tab, identity, leaving, made, out>>
RefreshRefused ==              \* by any answer but a success, a 429 or a 500 too
    /\ refreshing # "idle"
    /\ refreshing' = "idle" /\ Resume("idle", "none") /\ Redirect
    /\ UNCHANGED <<cookie, serving, identity, made, out>>
RefreshFailed ==
    /\ refreshing # "idle"
    /\ refreshing' = "idle" /\ Resume("idle", "none")
    /\ UNCHANGED <<cookie, serving, tab, identity, leaving, made, out>>

\* A second 401: fetchAPI only reports it, swrFetcher ends the session.
SecondAnswer(f) ==
    /\ asked[f].at = "second"
    /\ asked' = [asked EXCEPT ![f] = Idle]
    /\ IF f = "swr" /\ ~Admitted(asked[f].with) THEN Redirect ELSE UNCHANGED <<tab, leaving>>
    /\ UNCHANGED <<cookie, serving, refreshing, identity, made, out>>

\* signOut waits for the logout, whatever its answer, and loads the login page.
SignOut ==
    /\ OffersSignOut /\ leaving = "no" /\ tab.to = "nowhere"
    /\ leaving' = "signOut"
    /\ UNCHANGED <<cookie, serving, tab, asked, refreshing, identity, made, out>>
Raced == refreshing # "idle"
LoggedOut(failed) ==
    /\ leaving # "no"
    /\ cookie' = IF failed THEN cookie ELSE "none"
    /\ out' = CASE leaving = "fired" -> out
                [] failed \/ Raced   -> "raced"
                [] OTHER             -> "clean"
    /\ tab' = IF leaving = "signOut" THEN [tab EXCEPT !.to = "login"] ELSE tab
    /\ leaving' = "no"
    /\ UNCHANGED <<serving, asked, refreshing, identity, made>>

\* The browser reaches the page it was sent to.
LoadPage ==
    /\ tab.to \in Page /\ Loaded(tab.to, cookie)
    /\ UNCHANGED <<cookie, serving, made, out>>
ReloadPage ==
    /\ tab.to = "nowhere" /\ tab.page # "callback" /\ Loaded(tab.page, cookie)
    /\ UNCHANGED <<cookie, serving, made, out>>

\* Google sends the person back with a fresh cookie, to the callback page; one
\* who gives up there comes back to the login page.
GoogleLogin ==
    /\ ShowsForm /\ tab.to = "nowhere"
    /\ tab' = [tab EXCEPT !.to = "google"]
    /\ UNCHANGED <<cookie, serving, asked, refreshing, identity, leaving, made, out>>
GoogleCallback(accepted) ==
    /\ tab.to = "google"
    /\ cookie' = IF accepted THEN "live" ELSE cookie
    /\ out' = IF accepted THEN "in" ELSE out
    /\ Loaded(IF accepted THEN "callback" ELSE "login", cookie')
    /\ UNCHANGED <<serving, made>>

\* Time, and an administrator.
TokenAges ==
    /\ cookie # "none"
    /\ cookie' = IF cookie = "live" THEN "expired" ELSE "none"
    /\ UNCHANGED <<serving, tab, asked, refreshing, identity, leaving, made, out>>
Deactivate ==
    /\ serving /\ serving' = FALSE
    /\ UNCHANGED <<cookie, tab, asked, refreshing, identity, leaving, made, out>>

Answers ==
    \/ \E a \in Asker, answer \in {"ok", "401", "failed"} : FetchMe(a, answer)
    \/ \E f \in Fetcher : FirstAnswer(f)
    \/ \E f \in Fetcher : SecondAnswer(f)
    \/ RefreshAnswered
    \/ RefreshRefused
    \/ RefreshFailed
    \/ \E failed \in BOOLEAN : LoggedOut(failed)
    \/ LoadPage

SessionNext ==
    \/ Answers
    \/ Guard
    \/ LoginPage
    \/ \E page \in Page : Visit(page)
    \/ \E f \in Fetcher : Ask(f)
    \/ SignOut
    \/ ReloadPage
    \/ GoogleLogin
    \/ \E accepted \in BOOLEAN : GoogleCallback(accepted)
    \/ TokenAges
    \/ Deactivate
SessionSpec == SessionInit /\ [][SessionNext]_sessionVars

-----------------------------------------------------------------------------
\* Nothing waits for nobody: who waits for the shared refresh is answered by one
\* that was sent (refreshToken), and while the account is unknown its fetch is
\* under way (UserProvider).
NobodyWaitsForNothing ==
    /\ Waiting # {} => refreshing # "idle"
    /\ tab.loading => identity["provider"] # "idle"

\* A tab that is about to leave for the login page is the only one that logged
\* out on its own: the flag of auth-store.ts is what both fetchers go by.
FlagIsOfTheRedirect == leaving = "fired" => tab.redirecting /\ tab.to # "nowhere"

\* After a sign-out that was answered, with no refresh in flight then, nobody
\* is signed in again without going through Google (signOut, fetchMe).
SignedOutIsOut == out = "clean" => cookie = "none"

SessionSafe == NobodyWaitsForNothing /\ FlagIsOfTheRedirect /\ SignedOutIsOut

=============================================================================
