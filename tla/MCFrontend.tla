------------------------------ MODULE MCFrontend ------------------------------
(***************************************************************************)
(* A small instance of every part of the two frontends.  The parts share   *)
(* no state of the browser: each is a page or a section that is mounted by *)
(* itself, so a behaviour is of one part, chosen at the start, and the     *)
(* others have no state ("off").                                           *)
(***************************************************************************)
EXTENDS SignalsPage, ExitRules, EntryRecord, HoldingsPage, CashSection, HoldingsFigures,
        HoldingsTabs, ChartWindow, DashboardFigures, HistoryFigures, ReadPages, Session,
        AdminGate, AdminConsole

VARIABLE part

Parts == {"signals", "exits", "entry", "holdings", "cash", "figures", "tabs", "chart",
          "employment", "liquidity", "history", "reads", "session", "gate", "console"}

Off == "off"

\* The parts that are not looked at have no state.
MCInit ==
    /\ part \in Parts
    /\ IF part = "signals" THEN SignalsInit
       ELSE sp = Off /\ spCalls = Off /\ spAsked = Off /\ spMixed = Off
    /\ IF part = "exits" THEN ExitInit ELSE position = Off
    /\ IF part = "entry" THEN EntryInit
       ELSE /\ erShown = Off /\ erRecording = Off /\ erView = Off /\ erGet = Off /\ erTasks = Off
            /\ erStarted = Off /\ erRows = Off /\ erBuys = Off /\ erMade = Off /\ erExcused = Off
    /\ IF part = "holdings" THEN HoldingsInit
       ELSE hpRows = Off /\ hp = Off /\ hpGet = Off /\ hpCalls = Off /\ hpSent = Off
    /\ IF part = "cash" THEN CashInit
       ELSE csRows = Off /\ cs = Off /\ csCalls = Off /\ csSent = Off /\ csMissed = Off
    /\ IF part = "figures" THEN HoldingsFiguresInit ELSE hv = Off
    /\ IF part = "tabs" THEN HoldingsTabsInit ELSE ht = Off /\ htTrades = Off
    /\ IF part = "chart" THEN ChartInit ELSE cw = Off
    /\ IF part = "employment" THEN FiguresInit ELSE efMonths = Off /\ efRest = Off
    /\ IF part = "liquidity" THEN LiquidityInit ELSE lf = Off
    /\ IF part = "history" THEN HistoryInit ELSE hf = Off
    /\ IF part = "reads" THEN ReadInit ELSE rp = Off
    /\ IF part = "session" THEN SessionInit
       ELSE /\ cookie = Off /\ serving = Off /\ tab = Off /\ asked = Off /\ refreshing = Off
            /\ identity = Off /\ leaving = Off /\ made = Off /\ out = Off
    /\ IF part = "gate" THEN GateInit ELSE gate = Off /\ mfa = Off /\ codes = Off /\ past = Off
    /\ IF part = "console" THEN ConsoleInit
       ELSE /\ acRows = Off /\ acLog = Off /\ acPage = Off /\ acReads = Off /\ acEdits = Off
            /\ acSent = Off

\* All but one part stay as they are.
OnlyPart(p) ==
    /\ part = p /\ UNCHANGED part
    /\ IF p = "signals" THEN TRUE ELSE UNCHANGED spVars
    /\ IF p = "exits" THEN TRUE ELSE UNCHANGED exitVars
    /\ IF p = "entry" THEN TRUE ELSE UNCHANGED entryVars
    /\ IF p = "holdings" THEN TRUE ELSE UNCHANGED holdingsVars
    /\ IF p = "cash" THEN TRUE ELSE UNCHANGED cashVars
    /\ IF p = "figures" THEN TRUE ELSE UNCHANGED holdingFigureVars
    /\ IF p = "tabs" THEN TRUE ELSE UNCHANGED tabsVars
    /\ IF p = "chart" THEN TRUE ELSE UNCHANGED chartVars
    /\ IF p = "employment" THEN TRUE ELSE UNCHANGED figuresVars
    /\ IF p = "liquidity" THEN TRUE ELSE UNCHANGED liquidityVars
    /\ IF p = "history" THEN TRUE ELSE UNCHANGED historyVars
    /\ IF p = "reads" THEN TRUE ELSE UNCHANGED readVars
    /\ IF p = "session" THEN TRUE ELSE UNCHANGED sessionVars
    /\ IF p = "gate" THEN TRUE ELSE UNCHANGED gateVars
    /\ IF p = "console" THEN TRUE ELSE UNCHANGED consoleVars

MCNext ==
    \/ OnlyPart("signals") /\ SignalsNext
    \/ OnlyPart("exits") /\ ExitNext
    \/ OnlyPart("entry") /\ EntryNext
    \/ OnlyPart("holdings") /\ HoldingsNext
    \/ OnlyPart("cash") /\ CashNext
    \/ OnlyPart("figures") /\ HoldingsFiguresNext
    \/ OnlyPart("tabs") /\ HoldingsTabsNext
    \/ OnlyPart("chart") /\ ChartNext
    \/ OnlyPart("employment") /\ FiguresNext
    \/ OnlyPart("liquidity") /\ LiquidityNext
    \/ OnlyPart("history") /\ HistoryNext
    \/ OnlyPart("reads") /\ ReadNext
    \/ OnlyPart("session") /\ SessionNext
    \/ OnlyPart("gate") /\ GateNext
    \/ OnlyPart("console") /\ ConsoleNext

mcVars == <<part, spVars, exitVars, entryVars, holdingsVars, cashVars, holdingFigureVars, tabsVars,
            chartVars, figuresVars, liquidityVars, historyVars, readVars, sessionVars, gateVars,
            consoleVars>>

MCSpec == MCInit /\ [][MCNext]_mcVars

-----------------------------------------------------------------------------
\* The instance.

MCLot ==
    {[id |-> 1, ticker |-> 2, account |-> "nisa", sector |-> "tech", shares |-> 2, avg |-> 3, fx |-> 100],
     [id |-> 2, ticker |-> 2, account |-> "tokutei", sector |-> "energy", shares |-> 1, avg |-> 4, fx |-> 0],
     [id |-> 3, ticker |-> 1, account |-> "tokutei", sector |-> "other", shares |-> 1, avg |-> 600, fx |-> 0]}
MCPrice == [t \in {1, 2} |-> IF t = 1 THEN {1200} ELSE {5}]
MCProfit == {-2, 0, 1}

MCBars ==
    [d \in 1..8 |-> IF d <= 2 THEN [low |-> 3, high |-> 3, close |-> 3, ema |-> NoEma]
                    ELSE [low |-> d, high |-> d + 2, close |-> d + 1, ema |-> IF d = 3 THEN NoEma ELSE 9 - d]]
MCSigns ==
    {[kind |-> k, date |-> d, active |-> d # 3] :
        k \in {"FVG", "BOS", "CHoCH", "OB", "OTE"}, d \in {0, 3, 6, 8}}
MCCrises == {<<1, 2>>, <<4, 6>>}
MCRatios == -1..3

MCMonth(u, level, n, c) == [u3 |-> u, u6 |-> u, nfp |-> n, level |-> level, income |-> level, close |-> c]
MCReading ==
    {MCMonth(40, 150, 100, 5), MCMonth(44, 151, -20, NoFigure), MCMonth(50, NoFigure, NoFigure, 6),
     MCMonth(NoFigure, 152, 150, NoFigure)}
MCRest ==
    {[employment |-> 0, consumption |-> 0, structure |-> 0],
     [employment |-> 5, consumption |-> 7, structure |-> 8],
     [employment |-> 35, consumption |-> 25, structure |-> 25]}

\* Figures at and beside the thresholds of each judgement.
MCFigures ==
    [layers |-> [l1 |-> {0, 29, 30, 34, 45}, l2a |-> {0, 34, 35, 39, 40, 50, 65}, l2b |-> {0, 39, 40, 61, 70, 80}],
     falls |-> [reserves1m |-> {Unknown, 0, -5, -10, -15}, reserves1w |-> {0, -5}, nl3m |-> {0, -10, -15, -20},
                nl1m |-> {0, -10}, kre2m |-> {0, -15, -25}, kre1m |-> {0, -15}, rrp1w |-> {0, -30}],
     shocks |-> [vix |-> {Unknown, 20, 21, 30, 31, 40}, vixWeek |-> {0, 15}, vixMonth |-> {0, 20},
                 hy |-> {Unknown, 499, 500, 600}, hyMonth |-> {0, 150}, igMonth |-> {0, 50}, sofr |-> {Unknown}],
     credit |-> [hy |-> {Unknown, 350, 351, 501}, ig |-> {Unknown, 100, 101, 151},
                 curve |-> {Unknown, -1, 0, 50}, dxy |-> {105, 106}],
     margin |-> [margin2y |-> {-10, 39, 59, 61, 79, 99, 110}, mmf |-> {Unknown, -21, -8, -7, 0, 21}],
     policy |-> [ff |-> {Unknown, 20, 100, 200, 400}, inflation |-> {250, 350}, rrp |-> {Unknown, 40, 201, 501},
                 tga |-> {500, 501}, soma3m |-> {-60, 0, 210}, cut6m |-> {0, 25, 100}],
     dashboard |-> [l1 |-> {20, 34, 45, 60}, l2a |-> {0, 40, 50, 65}, l2b |-> {39, 70, 80},
                    total |-> {20, 21, 41, 60, 61, 81}, sahm |-> {49, 50}, cut6m |-> {0, 25},
                    soma3m |-> {0, 210, -60}, rrp |-> {40, 300}],
     events |-> [l1 |-> {20}, l2a |-> {0}, l2b |-> {39}, total |-> {20}, vix |-> {20, 30, 40},
                 hy |-> {499, 500, 600}, sofr |-> {Unknown}, kre2m |-> {0, -15, -25}, reserves1m |-> {0, -15}]]
MCFedRow == [soma : {8, 9, Unknown}, rrp : {1, 2, Unknown}, tga : {1, 9, Unknown}]

-----------------------------------------------------------------------------
\* The types of all parts.
FrontendTypeOK ==
    CASE part = "signals" -> SignalsTypeOK
      [] part = "exits" -> ExitTypeOK
      [] part = "entry" -> EntryTypeOK
      [] part = "holdings" -> HoldingsTypeOK
      [] part = "cash" -> CashTypeOK
      [] part = "figures" -> HoldingsFiguresTypeOK
      [] part = "tabs" -> HoldingsTabsTypeOK
      [] part = "chart" -> ChartTypeOK
      [] part = "employment" -> FiguresTypeOK
      [] part = "liquidity" -> LiquidityTypeOK
      [] part = "history" -> HistoryTypeOK
      [] part = "reads" -> ReadTypeOK
      [] part = "session" -> SessionTypeOK
      [] part = "gate" -> GateTypeOK
      [] part = "console" -> ConsoleTypeOK

\* The signals page: whatever order its uncancelled requests are answered in, the
\* chart is of the ticker named, no spinner outlives its request, an entry is
\* recorded once and with its trade (each with the exceptions its parts name).
SignalsSound ==
    /\ part = "signals" => ChartIsOfTheSignal /\ SpinnersHaveRequests
    /\ part = "entry" => EntrySound

\* The exit tab: a sale the rules make is announced, one it announces is founded,
\* and a position has one row of the history.
ExitSound == part = "exits" => EverySaleIsAnnounced /\ NoUnfoundedSale /\ ListedOnce

\* Lists that are edited through dialogs and rows: once everything is answered
\* they are the server's (holdings, cash balances, the tables of the console).
ListsAreTrue ==
    /\ part = "holdings" => SettledListIsTrue
    /\ part = "cash" => SettledCashIsTrue
    /\ part = "console" => ConsoleIsTrue

\* The canvas charts: the window stays in the data, moves as told, is the range
\* that is highlighted, and what is drawn lies in it.
ChartShowsItsWindow == part = "chart" => ChartIsTrue

\* Figures that are judged twice, by the API and again by a page, agree.
EconomySound ==
    /\ part = "employment" => EmploymentFiguresSound
    /\ part = "liquidity" => LiquidityFiguresSound /\ DashboardSound
    /\ part = "history" => HistoryIsTrue

\* The sums of the holdings page agree with each other, its tabs with the trades
\* they are of, its cash in either currency, and the console's cards with its rows.
MoneySound ==
    /\ part = "figures" => HoldingsFiguresSound
    /\ part = "tabs" => HoldingsTabsSound
    /\ part = "cash" => CashTotalsAgree
    /\ part = "console" => CardsAddUp

\* The pages that only read: every screen has its reason.
ScreensHaveReasons == part = "reads" => ScreensAreTrue

\* Nobody waits for nothing, a sign-out that was answered holds, the console is
\* open only to those the server admits.
AccessSound ==
    /\ part = "session" => SessionSafe
    /\ part = "gate" => GateSound

\* What a step may not do: an edit that leaves the shares alone change them, a
\* tab be left by itself, an event get milder when its figure gets worse.
FrontendSteps ==
    [][/\ part = "holdings" => KeepsShares
       /\ part = "reads" => KeepsTab
       /\ part = "liquidity" => NotMilder]_<<holdingsVars, readVars, liquidityVars>>

=============================================================================
