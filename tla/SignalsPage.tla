----------------------------- MODULE SignalsPage -----------------------------
(***************************************************************************)
(* The signals page (frontend app/signals/page.tsx): one ticker field, and *)
(* four kinds of request whose answers fill the page.  Analysing a ticker  *)
(* clears the page and asks for its signal, its prices and its markers at  *)
(* once; changing the period asks for prices and markers of the ticker in  *)
(* the field; the exit and history tabs ask for the ticker's past signals; *)
(* the batch button analyses the whole watchlist.  No request is ever      *)
(* cancelled, so an answer may arrive after a later one was applied.       *)
(***************************************************************************)
EXTENDS Naturals, FiniteSets

CONSTANTS
    Symbol,         \* tickers
    Span,           \* periods of the price chart
    DefaultSpan,    \* the period shown first ('6mo')
    Blank,          \* an empty field, a null state
    MaxAsked        \* a bound: how many requests the page sends in all

ASSUME SignalsPageConstants ==
    Blank \notin Symbol /\ DefaultSpan \in Span /\ MaxAsked \in Nat \ {0}

VARIABLES
    sp,             \* the page's useState values
    spCalls,        \* requests that are not answered yet
    spAsked,        \* how many were sent: the number of the latest one
    spMixed         \* history: why prices of another ticker may be shown

spVars == <<sp, spCalls, spAsked, spMixed>>

Tab == {"entry", "exit_analysis", "history", "system"}
Prices == [ticker: Symbol, period: Span]

SignalsState ==
    [ticker: Symbol \cup {Blank}, signal: Symbol \cup {Blank}, history: Prices \cup {Blank},
     chartMarkers: BOOLEAN, signalHistory: Symbol \cup {Blank}, historyLoading: BOOLEAN,
     loading: BOOLEAN, error: BOOLEAN, activeTab: Tab, period: Span,
     batchResults: BOOLEAN, batchLoading: BOOLEAN]
SignalsTypeOK ==
    /\ sp \in SignalsState
    /\ \A c \in spCalls :
        /\ c.kind \in {"linked", "analyze", "period", "signalHistory", "batch"}
        /\ c.no <= spAsked /\ c.ticker \in Symbol \cup {Blank} /\ c.period \in Span
    /\ spAsked \in 0..MaxAsked
    /\ spMixed \in BOOLEAN

-----------------------------------------------------------------------------
\* What the page shows.

ShowsBatch == sp.batchResults /\ ~sp.batchLoading
ShowsResult == sp.signal # Blank /\ ~sp.loading
ShowsGuide == sp.signal = Blank /\ ~sp.loading /\ sp.ticker = Blank
ShowsSkeleton == sp.loading \/ sp.batchLoading

\* The chart is a part of the result and draws what history holds, whichever
\* ticker that is; the overlays need markers.
ShowsChart == ShowsResult /\ sp.history # Blank

\* The exit and history tabs list the positions of signalHistory beside the
\* price and the name of the signal.
ShowsPositions ==
    ShowsResult /\ sp.activeTab \in {"exit_analysis", "history"} /\ sp.signalHistory # Blank

-----------------------------------------------------------------------------
\* Requests.

Call(kind, no, ticker, period) ==
    [kind |-> kind, no |-> no, ticker |-> ticker, period |-> period]

\* The effect on [activeTab, ticker]: the two tabs that need past signals ask
\* for them, unless some were read before, of whichever ticker.
WantsHistory(s) ==
    /\ s.activeTab \in {"exit_analysis", "history"}
    /\ s.signalHistory = Blank /\ ~s.historyLoading /\ s.ticker # Blank

\* The page takes the state s and sends the calls new; the effect runs when
\* the tab or the ticker changed.
Commit(s, new, answered) ==
    LET runs == (s.activeTab # sp.activeTab \/ s.ticker # sp.ticker) /\ WantsHistory(s)
        more == IF runs THEN {Call("signalHistory", spAsked + Cardinality(new) + 1,
                                   s.ticker, s.period)} ELSE {}
    IN  /\ spAsked + Cardinality(new \cup more) <= MaxAsked
        /\ sp' = IF runs THEN [s EXCEPT !.historyLoading = TRUE] ELSE s
        /\ spCalls' = (spCalls \ answered) \cup new \cup more
        /\ spAsked' = spAsked + Cardinality(new \cup more)

Fresh == [ticker |-> Blank, signal |-> Blank, history |-> Blank, chartMarkers |-> FALSE,
          signalHistory |-> Blank, historyLoading |-> FALSE, loading |-> FALSE,
          error |-> FALSE, activeTab |-> "entry", period |-> DefaultSpan,
          batchResults |-> FALSE, batchLoading |-> FALSE]

\* The page is opened, bare or by a link /signals?ticker=...&tab=...: the link
\* fills the field and the tab, which may ask for past signals at once, and
\* analyses the ticker 100 ms later.
SignalsInit ==
    /\ spMixed = FALSE
    /\ \/ sp = Fresh /\ spCalls = {} /\ spAsked = 0
       \/ \E t \in Symbol, tab \in Tab :
            LET linked == [Fresh EXCEPT !.ticker = t, !.activeTab = tab]
                asks == IF WantsHistory(linked)
                          THEN {Call("signalHistory", 1, t, DefaultSpan)} ELSE {}
            IN  /\ sp = [linked EXCEPT !.historyLoading = WantsHistory(linked)]
                /\ spCalls = {Call("linked", 0, t, DefaultSpan)} \cup asks
                /\ spAsked = Cardinality(asks)

\* handleAnalyze up to its await.
Analyzing(t) ==
    [sp EXCEPT !.loading = TRUE, !.error = FALSE, !.signal = Blank, !.batchResults = FALSE,
               !.history = Blank, !.chartMarkers = FALSE, !.ticker = t]

Analyze(t, period, done) ==
    /\ Commit(Analyzing(t), {Call("analyze", spAsked + 1, t, period)}, done)
    \* An earlier answer may still come and fill the cleared page.
    /\ spMixed' = \E c \in spCalls \ done : c.kind \in {"analyze", "period"}

\* The button is disabled while the page loads; the Enter key and the tickers
\* of the bar are not, and a card of the batch analyses its ticker.
AnalyzeField ==
    /\ sp.ticker # Blank
    /\ Analyze(sp.ticker, sp.period, {})

AnalyzeTicker(t) == Analyze(t, sp.period, {})

AnalyzeNothing ==
    /\ sp.ticker = Blank /\ ~sp.error
    /\ sp' = [sp EXCEPT !.error = TRUE]
    /\ UNCHANGED <<spCalls, spAsked, spMixed>>

OpenCard(t) ==
    /\ ShowsBatch
    /\ Analyze(t, sp.period, {})

\* The timer of a link fires with what its first render knew.
AnalyzeLinked(c) ==
    /\ c.kind = "linked"
    /\ Analyze(c.ticker, c.period, {c})

TypeTicker(t) ==
    /\ t # sp.ticker
    /\ Commit([sp EXCEPT !.ticker = t], {}, {})
    /\ UNCHANGED spMixed

SelectTab(tab) ==
    /\ ShowsResult /\ tab # sp.activeTab
    /\ Commit([sp EXCEPT !.activeTab = tab], {}, {})
    /\ UNCHANGED spMixed

\* handlePeriodChange asks for the ticker in the field.
handlePeriodChange(p) ==
    /\ ShowsResult
    /\ LET new == IF sp.ticker = Blank THEN {}
                  ELSE {Call("period", spAsked + 1, sp.ticker, p)}
       IN  /\ p # sp.period \/ new # {}
           /\ Commit([sp EXCEPT !.period = p], new, {})
    /\ spMixed' = (spMixed \/ (sp.ticker # Blank /\ sp.ticker # sp.signal))

\* The button of the two tabs.
handleFetchSignalHistory ==
    /\ ShowsResult /\ sp.activeTab \in {"exit_analysis", "history"}
    /\ ~sp.historyLoading /\ sp.ticker # Blank
    /\ Commit([sp EXCEPT !.historyLoading = TRUE],
              {Call("signalHistory", spAsked + 1, sp.ticker, sp.period)}, {})
    /\ UNCHANGED spMixed

AnalyzeAll ==
    /\ ~sp.batchLoading /\ ~sp.loading
    /\ Commit([sp EXCEPT !.batchLoading = TRUE, !.batchResults = FALSE,
                         !.signal = Blank, !.error = FALSE],
              {Call("batch", spAsked + 1, Blank, sp.period)}, {})
    /\ UNCHANGED spMixed

CloseError ==
    /\ sp.error
    /\ sp' = [sp EXCEPT !.error = FALSE]
    /\ UNCHANGED <<spCalls, spAsked, spMixed>>

-----------------------------------------------------------------------------
\* Answers, in any order.

Answered(c, s) ==
    /\ sp' = s
    /\ spCalls' = spCalls \ {c}
    /\ UNCHANGED spAsked

\* All three requests succeeded, or the one for the markers alone failed.
AnalyzeAnswered(c) ==
    /\ c.kind = "analyze"
    /\ \E markers \in BOOLEAN :
        Answered(c, [sp EXCEPT !.signal = c.ticker, !.chartMarkers = markers, !.loading = FALSE,
                               !.history = [ticker |-> c.ticker, period |-> c.period]])
    /\ UNCHANGED spMixed

\* A mutant: no finally, so a failure leaves the page loading.
AnalyzeFailedLoading(c) ==
    /\ c.kind = "analyze"
    /\ Answered(c, [sp EXCEPT !.error = TRUE])
    /\ UNCHANGED spMixed

AnalyzeFailed(c) ==
    /\ c.kind = "analyze"
    /\ Answered(c, [sp EXCEPT !.error = TRUE, !.loading = FALSE])
    /\ UNCHANGED spMixed

PeriodAnswered(c) ==
    /\ c.kind = "period"
    /\ \E markers \in BOOLEAN :
        Answered(c, [sp EXCEPT !.chartMarkers = markers,
                               !.history = [ticker |-> c.ticker, period |-> c.period]])
    /\ UNCHANGED spMixed

PeriodFailed(c) ==
    /\ c.kind = "period" /\ Answered(c, sp) /\ UNCHANGED spMixed

HistoryAnswered(c) ==
    /\ c.kind = "signalHistory"
    /\ \E got \in {c.ticker, sp.signalHistory} :   \* an error leaves what was there
        Answered(c, [sp EXCEPT !.signalHistory = got, !.historyLoading = FALSE])
    /\ UNCHANGED spMixed

BatchAnswered(c) ==
    /\ c.kind = "batch"
    /\ \E ok \in BOOLEAN :
        Answered(c, [sp EXCEPT !.batchResults = ok \/ @, !.error = ~ok \/ @,
                               !.batchLoading = FALSE])
    /\ UNCHANGED spMixed

SignalsNext ==
    \/ AnalyzeField \/ AnalyzeNothing \/ AnalyzeAll \/ CloseError
    \/ \E t \in Symbol : AnalyzeTicker(t) \/ OpenCard(t)
    \/ \E t \in Symbol \cup {Blank} : TypeTicker(t)
    \/ \E tab \in Tab : SelectTab(tab)
    \/ \E p \in Span : handlePeriodChange(p)
    \/ handleFetchSignalHistory
    \/ \E c \in spCalls :
        \/ AnalyzeLinked(c) \/ AnalyzeAnswered(c) \/ AnalyzeFailed(c)
        \/ PeriodAnswered(c) \/ PeriodFailed(c) \/ HistoryAnswered(c) \/ BatchAnswered(c)

\* A request is answered, or fails, at last.
SignalsFairness ==
    WF_spVars(\E c \in spCalls :
        \/ AnalyzeLinked(c) \/ AnalyzeAnswered(c) \/ AnalyzeFailed(c)
        \/ PeriodAnswered(c) \/ PeriodFailed(c) \/ HistoryAnswered(c) \/ BatchAnswered(c))

SignalsSpec == SignalsInit /\ [][SignalsNext]_spVars /\ SignalsFairness

-----------------------------------------------------------------------------
\* The chart under the price of a ticker draws that ticker's prices, although
\* no request is cancelled, unless two analyses overlapped or the period was
\* changed while the field held another ticker.
ChartIsOfTheSignal == ShowsChart /\ ~spMixed => sp.history.ticker = sp.signal

\* A skeleton or a spinner stands only while the request that ends it is under
\* way, whichever way and in whichever order the requests end.
SpinnersHaveRequests ==
    LET underWay(kind) == \E c \in spCalls : c.kind = kind
    IN  /\ sp.loading => underWay("analyze")
        /\ sp.batchLoading => underWay("batch")
        /\ sp.historyLoading => underWay("signalHistory")

=============================================================================
