------------------------------ MODULE ReadPages ------------------------------
(***************************************************************************)
(* The pages that only read (frontend app/dashboard, employment,           *)
(* liquidity and discovery) and the cache they read through: SWR with the  *)
(* settings of lib/swr.tsx, one entry and at most one request per key, a   *)
(* failed request tried again twice while somebody looks at its key.  What *)
(* a page shows follows from the entries of its keys: a skeleton, an       *)
(* error, or its content; the tabs are below the page and are lost with    *)
(* its content.                                                            *)
(***************************************************************************)
EXTENDS Integers, FiniteSets

CONSTANTS
    Period,         \* periods of the history of the liquidity page
    Crisis,         \* crisis ranges, which stand before the period
    FirstPeriod,    \* the period selected at first
    NoCrisis        \* no range is selected

ASSUME ReadConstants == FirstPeriod \in Period /\ NoCrisis \notin Crisis

VARIABLE rp         \* the page looked at, what is selected on it, the cache

readVars == <<rp>>

HistoryRanges == Period \X (Crisis \cup {NoCrisis})

\* Keys: what is read, and of which range.
plumbing == <<"plumbing", NoCrisis>>
risk == <<"risk", NoCrisis>>
riskHistory == <<"riskHistory", NoCrisis>>
backtest == <<"backtest", NoCrisis>>
discovery == <<"discovery", NoCrisis>>
Key == {plumbing, risk, riskHistory, backtest, discovery} \cup HistoryRanges
Pages == {"dashboard", "employment", "liquidity", "discovery"}

Unasked == [has |-> FALSE, error |-> FALSE, call |-> FALSE, tries |-> 0]
Fetched == [has |-> TRUE, error |-> FALSE, call |-> FALSE, tries |-> 0]
FirstCall(known) == [has |-> known, error |-> FALSE, call |-> TRUE, tries |-> 0]

Entry == [has: BOOLEAN, error: BOOLEAN, call: BOOLEAN, tries: 0..3]
ReadState ==
    [page: Pages, tab: {"dashboard", "history", "backtest"}, mode: {"overview", "detail"},
     range: HistoryRanges, keys: [Key -> Entry]]
ReadTypeOK == rp \in ReadState

-----------------------------------------------------------------------------
\* What is shown.

\* isLoading: a request is under way and there is nothing to show before it is answered.
Loading(s, k) == s.keys[k].call /\ ~s.keys[k].has

\* The keys the page itself reads, and the one of the tab it shows.
FrameKeys(page) ==
    CASE page = "dashboard" -> {plumbing, risk} [] page = "employment" -> {risk}
      [] page = "liquidity" -> {plumbing} [] page = "discovery" -> {discovery}

TabKey(s) ==
    CASE s.tab = "dashboard" -> {} [] s.tab = "backtest" -> {backtest}
      [] s.tab = "history" -> IF s.page = "employment" THEN {riskHistory} ELSE {s.range}

\* DashboardContent waits for both and never looks at an error.
DashboardContent(s) ==
    IF \E k \in FrameKeys("dashboard") : Loading(s, k) \/ ~s.keys[k].has THEN "skeleton" ELSE "content"

\* LiquidityContent: an error stands before what is known.
LiquidityContent(s) ==
    IF Loading(s, plumbing) THEN "skeleton" ELSE IF s.keys[plumbing].error THEN "error"
    ELSE IF s.keys[plumbing].has THEN "content" ELSE "nothing"

EmploymentContent(s) ==
    IF Loading(s, risk) THEN "skeleton"
    ELSE IF s.keys[risk].error \/ ~s.keys[risk].has THEN "error" ELSE "content"

DiscoveryPage(s) ==
    IF Loading(s, discovery) THEN "skeleton" ELSE IF s.keys[discovery].error THEN "error"
    ELSE IF s.keys[discovery].has THEN "content" ELSE "nothing"

FrameView(s) ==
    CASE s.page = "dashboard" -> DashboardContent(s) [] s.page = "liquidity" -> LiquidityContent(s)
      [] s.page = "employment" -> EmploymentContent(s) [] s.page = "discovery" -> DiscoveryPage(s)

RiskHistoryTab(s) ==
    IF Loading(s, riskHistory) THEN "skeleton" ELSE IF s.keys[riskHistory].error THEN "error"
    ELSE IF s.keys[riskHistory].has THEN "content" ELSE "nothing"

BacktestTab(s) ==
    IF Loading(s, backtest) THEN "skeleton" ELSE IF s.keys[backtest].error THEN "error"
    ELSE IF s.keys[backtest].has THEN "content" ELSE "nothing"

\* HistoryChartsTab.  The overview has its tiles whatever happens, "no data" on each
\* until there are some, and a line under them; the detail shows one of the three.
HistoryOverview(s) ==
    [tiles |-> IF s.keys[s.range].has THEN "content" ELSE "nothing",
     line |-> IF Loading(s, s.range) THEN "skeleton" ELSE IF s.keys[s.range].error THEN "error" ELSE ""]
HistoryDetail(s) ==
    IF Loading(s, s.range) THEN "skeleton" ELSE IF s.keys[s.range].error THEN "error"
    ELSE IF s.keys[s.range].has THEN "content" ELSE "nothing"

HistoryFooter(s) == s.keys[s.range].has

\* The button of a period is marked only without a crisis range.
HistoryToolbar(s) ==
    [mode |-> s.mode, period |-> IF s.range[2] = NoCrisis THEN {s.range[1]} ELSE {},
     crisis |-> {s.range[2]} \ {NoCrisis}]

TabView(s) ==
    CASE s.tab = "dashboard" -> "content" [] s.tab = "backtest" -> BacktestTab(s)
      [] s.tab = "history" ->
            IF s.page = "employment" THEN RiskHistoryTab(s)
            ELSE IF s.mode = "detail" THEN HistoryDetail(s) ELSE HistoryOverview(s).tiles

PageView(s) == IF FrameView(s) = "content" THEN TabView(s) ELSE FrameView(s)

-----------------------------------------------------------------------------
\* The cache.

\* MountedRead(s): the keys somebody looks at.
MountedRead(s) == FrameKeys(s.page) \cup IF FrameView(s) = "content" THEN TabKey(s) ELSE {}

Called(e) == [has |-> e.has, error |-> e.error, call |-> TRUE, tries |-> 0]

\* After a step: tabs that lost their page begin again, a key that is newly looked at
\* is asked for (not if it was answered just now), one nobody looks at is not tried again.
AfterRead(s, recent) ==
    LET t == IF FrameView(s) = "content" THEN s
             ELSE [s EXCEPT !.tab = "dashboard", !.mode = "overview",
                            !.range = <<FirstPeriod, NoCrisis>>]
    IN  [t EXCEPT !.keys =
            [k \in Key |->
                IF k \notin MountedRead(t) THEN [@[k] EXCEPT !.tries = 0]
                ELSE IF k \in MountedRead(rp) \/ (recent /\ @[k].has) THEN @[k] ELSE Called(@[k])]]

\* The page is opened, some of its keys being known from before.
ReadInit ==
    \E page \in Pages, known \in BOOLEAN :
        rp = [page |-> page, tab |-> "dashboard", mode |-> "overview",
              range |-> <<FirstPeriod, NoCrisis>>,
              keys |-> [k \in Key |-> IF k \in FrameKeys(page) THEN FirstCall(known) ELSE Unasked]]

ReadAnswered(k) ==
    /\ rp.keys[k].call
    /\ \E recent \in BOOLEAN :
        rp' = AfterRead([rp EXCEPT !.keys[k] = Fetched], recent)

\* A mutant: a failure only ends the request.
FailedSilently(k, denied) ==
    /\ rp.keys[k].call
    /\ rp' = AfterRead([rp EXCEPT !.keys[k].call = FALSE, !.keys[k].tries = IF denied THEN 3 ELSE @ + 1], FALSE)

\* A failed request keeps what is known; access denied or nothing found (4xx) is not
\* tried again.
Failed(k, denied) ==
    /\ rp.keys[k].call
    /\ rp' = AfterRead([rp EXCEPT !.keys[k] = [has |-> @.has, error |-> TRUE, call |-> FALSE,
                                               tries |-> IF denied THEN 3 ELSE @.tries + 1]], FALSE)

\* onErrorRetry: 2 and 4 seconds later, the third failure is the last.
WillRetry(e) == e.error /\ ~e.call /\ e.tries \in 1..2
onErrorRetry(k) ==
    /\ WillRetry(rp.keys[k]) /\ k \in MountedRead(rp)
    /\ rp' = AfterRead([rp EXCEPT !.keys[k] = [@ EXCEPT !.call = TRUE]], FALSE)

\* The browser is back on line: every key looked at is asked for again.
Reconnect ==
    rp' = [rp EXCEPT !.keys = [k \in Key |-> IF k \in MountedRead(rp) THEN Called(@[k]) ELSE @[k]]]

-----------------------------------------------------------------------------
\* What the user does.

\* handleRefresh, disabled while refreshing; and the retry of the error screen, which is not.
handleRefresh ==
    /\ rp.page \in {"liquidity", "employment"}
    /\ \E k \in FrameKeys(rp.page) :
        /\ FrameView(rp) = "error" \/ (FrameView(rp) = "content" /\ ~rp.keys[k].call)
        /\ rp' = AfterRead([rp EXCEPT !.keys[k] = Called(@)], FALSE)

RetryHistory ==
    /\ FrameView(rp) = "content" /\ rp.page = "employment" /\ rp.tab = "history"
    /\ RiskHistoryTab(rp) = "error"
    /\ rp' = [rp EXCEPT !.keys[riskHistory] = Called(@)]

SelectReadTab(tab) ==
    /\ FrameView(rp) = "content"
    /\ \/ rp.page = "employment" /\ tab \in {"dashboard", "history"}
       \/ rp.page = "liquidity"
    /\ \E recent \in BOOLEAN :
        rp' = AfterRead([rp EXCEPT !.tab = tab, !.mode = "overview",
                               !.range = <<FirstPeriod, NoCrisis>>], recent)

OnHistory == FrameView(rp) = "content" /\ rp.page = "liquidity" /\ rp.tab = "history"

\* handlePeriod drops the crisis range, handleCrisis keeps the period below it.
handlePeriod(p) ==
    /\ OnHistory
    /\ \E recent \in BOOLEAN : rp' = AfterRead([rp EXCEPT !.range = <<p, NoCrisis>>], recent)

handleCrisis(c) ==
    /\ OnHistory
    /\ \E recent \in BOOLEAN : rp' = AfterRead([rp EXCEPT !.range = <<@[1], c>>], recent)

\* setViewMode, and a tile, which opens its chart in the detail.
setViewMode(mode) == OnHistory /\ rp' = [rp EXCEPT !.mode = mode]

ReadNext ==
    \/ \E k \in Key : ReadAnswered(k) \/ onErrorRetry(k) \/ \E denied \in BOOLEAN : Failed(k, denied)
    \/ Reconnect \/ handleRefresh \/ RetryHistory
    \/ \E tab \in {"dashboard", "history", "backtest"} : SelectReadTab(tab)
    \/ \E p \in Period : handlePeriod(p)
    \/ \E c \in Crisis : handleCrisis(c)
    \/ \E mode \in {"overview", "detail"} : setViewMode(mode)

ReadSpec == ReadInit /\ [][ReadNext]_readVars

-----------------------------------------------------------------------------

\* The key whose entry decides what is seen.
Deciding == IF FrameView(rp) = "content" THEN TabKey(rp) ELSE FrameKeys(rp.page)
GivenUp(k) == rp.keys[k].error /\ ~rp.keys[k].call /\ ~WillRetry(rp.keys[k])

\* Each screen has its reason: one that waits has a request under way, or one to be
\* tried again -- but the dashboard, which goes on waiting when the last try failed;
\* an error was the last answer; nothing is missing from a page but a key that failed
\* or, in the overview of the history, one still asked for, whose tiles say "no data";
\* and no key looked at was never asked for.
ScreensAreTrue ==
    /\ PageView(rp) = "skeleton" =>
        \E k \in Deciding : rp.keys[k].call \/ WillRetry(rp.keys[k])
                            \/ (rp.page = "dashboard" /\ GivenUp(k))
    /\ PageView(rp) = "error" => \E k \in Deciding : rp.keys[k].error
    /\ PageView(rp) = "content" => \A k \in Deciding : rp.keys[k].has
    /\ PageView(rp) = "nothing" => OnHistory /\ rp.mode = "overview" /\ HistoryOverview(rp).line # ""
    /\ \A k \in MountedRead(rp) : rp.keys[k].call \/ rp.keys[k].has \/ rp.keys[k].error
    /\ OnHistory => Cardinality(HistoryToolbar(rp).period \cup HistoryToolbar(rp).crisis) = 1

\* A tab is left by the user only, or with the whole page when a request of the page
\* itself fails: a refresh that fails takes the content and the tab away.
KeepsTab ==
    rp'.tab # rp.tab => SelectReadTab(rp'.tab)
        \/ \E k \in FrameKeys(rp.page), denied \in BOOLEAN : Failed(k, denied)

TabsAreKept == [][KeepsTab]_readVars

=============================================================================
