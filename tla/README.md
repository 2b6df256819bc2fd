# Open Regime: specifications, model checks and proofs

TLA+ models of Open Regime, a stock-signal and market-regime platform, kept
beside its code. They cover what is hard to test: requests that overlap
statement by statement, caches that race with the tables they copy, pages that
are ahead of their server, connections that break half way, figures that are
judged twice by different code.

Paths below are relative to the repository. `PROJECT.json` lists the runs, the
mutants, the code lines behind every definition, the hazards and the theorems.

## 1. The system

| Part | Code | State it keeps | Operations | What is hard |
|---|---|---|---|---|
| API server | `api-go/` (Go, Echo) | PostgreSQL, Redis | CRUD of holdings, trades, cash, watchlists; discovery feed; accounts, billing, administration; scores | one goroutine per request, one SQL statement at a time at READ COMMITTED; few transactions |
| Compute service | `app/backend/` (FastAPI, one worker) | a dictionary (L1) and Redis (L2) | regime, signals, exits, charts | two cache levels with separate lifetimes, a connection tried once |
| Batch | `app/batch/` (cron) | the macro tables, `data_revisions`, `batch_logs`, snapshots | fetch, detect revisions, upsert, layer stress, snapshot, notify, warm the caches | every statement commits by itself; a run can die anywhere |
| Frontend | `app/frontend/` (Next.js, SWR) | SWR's cache, page state, `localStorage`, refs of the canvas charts | optimistic edits, dialogs, revalidation, migration, token refresh, charts, figures computed from answers | answers and readings overtake one another; state that lives in two places; the server's thresholds applied again |
| Administration | `app/admin-frontend/` | the gate's store, SWR's cache | users, flags, logs, second factor | requests sent twice; several edits of one table at once |
| finviz | `tools/finviz/`, `.github/workflows/` | JSON files | scan, score, publish | a timeout and a second publication |

The browser reaches both servers through nginx; the batch calls them directly
to warm their caches; finviz publishes over HTTP. The servers share PostgreSQL
and Redis and never call each other.

For each part, what makes it correct:

- **Portfolio.** Each request is one atomic step of the tables, or none; no
  update is lost to a sale; a sale never sells shares twice, nor computes its
  profit from an average price that no longer holds; trades point at holdings of
  their own account; every request is answered.
- **Watchlists.** Lists stay free of repeats and within their limit; a deleted
  list stays deleted; an edit removes nothing it was not asked to remove, unless
  it overlaps another.
- **Ticker bar.** Once everything is answered the bar shows what the server holds.
- **Discovery feed.** Readers see whole publications; an outdated cache entry has
  a known cause and does not last.
- **Rate limiter.** An address that stays under the limit is served.
- **Accounts and billing.** The plan follows the last event of the subscription;
  one account per person; a changed account is seen by the next requests.
- **Employment, batch.** Revisions are numbered without gaps or repeats and each
  belongs to a value that was stored; a re-run reports nothing twice.
- **Caches.** What is served is at most one lifetime and one backfill old, whichever
  level it is in.
- **Scores, regimes, exits.** What the API decides and what a page says of the
  same figures agree, at the thresholds too; an event does not get milder when
  its figure gets worse; a sale the rules make is announced to the user.
- **Signals page.** The chart is of the ticker named; an entry is recorded once,
  with its trade; no spinner outlives its request.
- **Holdings page.** Once everything is answered the list is the server's; sums
  made by separate code agree; an edit changes only what was edited.
- **Charts.** The window lies in the data, moves as told and is what is
  highlighted; what is drawn lies in it.
- **Session.** Nobody waits for an answer that is not on its way; a sign-out
  that was answered holds.
- **Admin gate and console.** The console is open to whom the server admits; a
  table nobody edits is the server's.

`PROJECT.json` lists all the parts with what is modelled of each, and 39 hazards
with the line where each bites.

## 2. Modules

```
Ledger            what the holdings and trades tables promise, one step per request
  ^ implements
Portfolio         the requests as SQL statements, row locks, transactions
  |- MCPortfolio           the instance
  '- PortfolioProofs       TLAPS

Watchlist         the watchlist API, statement by statement
  ^ extended by
QuickTickers      the ticker bar of the signals page, over that API and SWR
  |- MCQuickTickers        the instance
  '- WatchlistProofs       TLAPS, of both

DiscoveryFeed     publications, their cache, its readers
  |- MCDiscoveryFeed       the instance
  '- DiscoveryFeedProofs   TLAPS

Account           sign-in, the cached user of every request, administration
  ^ extended by
Billing           checkout, cancellation, Stripe and its webhook
  |- MCBilling             the instance
  '- BillingProofs         TLAPS, of both

Employment        POST /employment/indicators, statement by statement
  ^ extended by
Batch             the batch runs that write the same table
  |- MCBatch               the instance
  '- BatchProofs           TLAPS

ComputeCache      the two levels of the compute service under its threads
  |- MCComputeCache        the instance
  '- ComputeCacheProofs    TLAPS

RateLimit         the counters of one address

The frontends, each part by itself, all instantiated by MCFrontend, whose
theorems are in FrontendProofs and BrowserProofs (TLAPS):
SignalsPage       the requests of the signals page, none of which is cancelled
EntryRecord       recording and cancelling an entry: two requests each
ExitRules         a position under the exit rules, and what two tabs say of it
HoldingsPage      the list of holdings, its dialogs and their requests
CashSection       the cash balances, on the page and on the server
HoldingsFigures   every sum of the portfolio tab, the rings, the table
HoldingsTabs      trades, statistics, trend
ChartWindow       the canvas charts: window, wheel, drag, ranges, marks
LiquidityFigures  market state, events, policy: the API's verdict and the page's
EmploymentFigures Sahm rule, scores, phases, charts: likewise
  ^ both extended by
DashboardFigures  the integrated dashboard
Glass             the tones of scores that the pages share
Lists             filter and sort, as both programs use them
HistoryFigures    the history charts of the liquidity page
ReadPages         pages that only read: keys, retries, screens
Session           cookie, shared refresh, redirect, sign-in and sign-out
AdminGate         account, second factor, lock-out
AdminConsole      the tables of the console and their edits
```

### Portfolio and Ledger

`holdings` and `trades` are the committed tables; a row's id is the request that
inserted it. `avg_price` is represented by who wrote it last (`basis`): that
tells whether a sale used the price of its moment, which is all the properties
ask of prices. `phase[r]` is the statement a request has reached, or its answer.

A single statement is one action (`CreateHolding`, `UpdateHolding`, `AddShares`,
`DeleteHolding`, `DeleteTrade`). `CreateTrade` is `CheckOwner` and `InsertTrade`.
`SellFromHolding` is `LockRow` (`SELECT ... FOR UPDATE` and the checks),
`InsertSale`, `WriteHolding`, `Commit`; `Locked` makes every other writer of the
row wait, as PostgreSQL does. `Abort` is a client that hangs up, a lost
connection or a server that dies; a statement whose commit took effect may still
be answered by a 500 (`Committed`).

`Ledger` has one atomic step per request. `ImplementsLedger` says that the
committed tables only move by its steps.

### Watchlist and QuickTickers

`lists` are the rows of `user_watchlists`; `writer` stands for `updated_at`,
which the page's comparison of answers can see. Create, Update and Delete are
one statement each. `ModifyTicker` is `FindList` (only for the path "default"),
`CreateDefault` or `ReadList`, and `UpdateTickers`, with no transaction.
`validateTickers` and the loop of a removal (`without`) are recursive functions
of the position in the list, which can be reasoned about where a fold cannot;
the duplicate and size checks are as in the code; `Upper`
is `strings.ToUpper(strings.TrimSpace(..))`, given by a table. The lists there
are at first (`Opening`) were written by requests like these: they are legal.

`QuickTickers` adds the page: the bar, edited before the request is sent; SWR's
data for the lists, its GET and the answer on its way; the migration of
`localStorage`. SWR is external: it drops the answer of a GET that an edit has
overtaken, keeps its object when new data are deeply equal (then no effect of
the page runs), and revalidates after errors and on reconnecting.

### DiscoveryFeed

`rows` is the committed content of `discovered_stocks`. A publication is `Begin`
(what its DELETE can see), `Delete` (waits for row locks, passes over rows gone
meanwhile), `Insert` (the primary key), `Commit`, and then `ClearDay`,
`ListKeys`, `ClearHistory`, the three Redis commands of `invalidateCache`.
`Skip` is a refused command, whose error is ignored, or a dead server. A read is
`Lookup`, `Query`, `Fill`, `Reply`; an entry carries whether it was outdated
when it was written and whether it expires. `past` and `lapsed` are history
variables for the properties. The date does not change during a behaviour.

### Account and Billing

`users` is keyed by the email, which is unique and never changes; a row keeps
the Google account it is bound to, the plan, `is_active` and the Stripe customer.
A sign-in is `FindByAuthProviderID`, `FindByEmail`, then `Bind`, `Create` or
nothing, as in `findOrCreateUser`: each lookup takes every error for "not found".
An UPDATE or an INSERT that commits may be reported as failed, and its request answered
with an error (`Committed`); so may the edit of an administrator. `account` is the row that
a sign-in found or wrote, whatever it was answered.
Every other request goes through `Enter`, `Lookup`, `Load`, `Fill`
(`AuthMiddleware` and `GetUser`) before its handler. `UpdateUser` leaves the
cached user alone and starts the goroutine of `AuditLog`, which may lose its row.

`CreateCheckout` is `FindCustomer`, `NewCustomer`, `SaveCustomer`, `NewSession`;
a customer is named by the checkout that made it. `Cancel` is `FindSubscriber`,
`EndAtPeriodEnd`, `Downgrade`. Stripe is external: `Pay` and `End` make the two
events, `Deliver` calls the webhook with an event until a call is answered 200,
with calls that overlap and come in any order; `FindUser` and `UpdatePlan` are
the webhook's two statements. `clean` and `blind` record the irregularities after
which the properties promise nothing.

### Employment and Batch

`indicators` and `revisions` are the tables `economic_indicators` (the months of
one indicator, with value, change and `revision_count`) and
`economic_indicator_revisions`. A request is `FindExistingIndicator`, then
`InsertIndicator` and `InsertInitialRevision`, or `InsertRevision` and
`UpdateIndicator`, or `UpdateIndicator` alone; each of them may fail, and the
error of the initial revision is ignored. A statement may also commit and be reported as
failed, as a client that hangs up makes it: its request is answered 500. `irregular`
records the three ways in which the count of a month falls behind its revisions: such an
INSERT, an UPDATE that fails after it, and one that writes an older count over a newer.

A batch run is `LogStart`, `Fetch`, `DetectRevisions`, `SaveRevisions`, an
`UpsertPage` per page, `AllUpserted`, `LogFinish`; `Raise` is an exception, and a
run that is killed takes no further step. `RowsFrom` computes the change of a
month from the months that were fetched, as `fetch_employment_indicators` does;
what FRED publishes (`Figures`) is external and may differ from run to run.
`Upserted` leaves the count of a row alone: it is not a column of the batch.
A page is one row. `touched` is what others changed since a run compared.

### ComputeCache

`l1` is the dictionary of the process, `l2` Redis; a quote is known by the tick
it was fetched at. A thread of the pool goes through `_fetch_single_quote`:
`Lookup` in L1, `GetRedis` (with `Connect` and `Ping` at the first use),
`RedisGet`, `Fill`, or `Fetch`, `Store`, `RedisSet`. Both `Fill` and `Store` end
with `_evict_l1`: `Scan`, `Delete` key by key, `Trim` and `Cut`. The interpreter
(CPython 3.11, as in the Dockerfile) switches threads at calls and between the
turns of a loop; hence a look into L1 is one step, and a list that is made while
another thread changes the keys of L1 may fail (`disturbed`), as a `del` of a key
that has gone does. A surplus that has become negative when the list is cut is a slice that
ends so many keys before the last (`Sliced`); it takes something only where L1 holds three or
more, so that the proofs cover it and the run does not. `Raise` is what becomes of that: a miss in `cache_get`, an
error answer out of `cache_set`. The calendar is a constant: `NextOpen` is the next
open by it. `company` and `untidy` serve the properties.

### Signals page: SignalsPage, EntryRecord, ExitRules

`sp` is the state of the page, `spCalls` the requests on their way, which are
answered in any order: `Analyze` sends three at once, `ChangePeriod` two; an
answer (`AnalyzeAnswered` and its like, or a failure) sets what its `.then` sets,
whatever the page shows by then. `spMixed` remembers that two analyses overlapped
or that the period was changed over another ticker. A link may open the page on the tab of
the exits or of the history, which asks for the past signals before anything is analysed.

`EntryRecord` has the page's belief (`erShown`, what SWR read last), the tasks it
started and the rows of the server. Recording is createHolding and then
createTrade; cancelling is deleteHolding and a search for the trade in a field the
answer does not have. `erExcused` are the tickers of which a request failed.

`ExitRules` abstracts a price to the comparisons the rules make with it: `Fires`
is what each of the four rules finds on a bar, `NextBar` their order with the
partial sale, `trade_results` and `evaluate_current` the two answers of the
service, `getActiveVerdict`, `mirrorTile` and `rows` what the page makes of them.

### Holdings page: HoldingsPage, CashSection, HoldingsFigures, HoldingsTabs

`hpRows` are the rows of the server, `hp` the page (its list, the three dialogs,
which never unmount), `hpCalls` the changes and `hpGet` the reading on its way.
`Serve` is the server's handler as one step, which Portfolio details; `Added`,
`Edited`, `Sold`, `Deleted` are the ends of the four changes with what each does
to the list or to whichever dialog is open. `CashSection` has the four handlers of
the balances and the section's rows and form.

`HoldingsFigures` keeps the lots, their quotes and the rate, and the rates the
memoised parts were computed with (`ringFx`, `sortFx`): `PortfolioHero`,
`AccountBreakdown`, `SectorBreakdown`, `PortfolioCharts`, `HoldingsTable` are the
sums as each component makes them. Prices are whole numbers, and prices in yen
multiples of every rate, so that a quotient is exact, as it is in the code up to the
precision of its numbers. Labels of one worth stand in a ring in the order in which
their first lots are held, since the sort of JavaScript is stable.
`HoldingsTabs` reads the trades and the snapshots: the field the page looks into
and the one the server fills are both in the model. `computeStats` rounds to two digits
(`Rounded`): its rates and factors are given in hundredths.

### Charts: ChartWindow

`cw.start` and `cw.end` are the ref of the canvas, `cw.range` the state of the tab
beside it, `cw.drag` the drag, `cw.button` the button of the mouse. `Zoomed` and
`Inside` are the arithmetic of the wheel and of the ends, rounded as in the code. The
wheel turns the pointer into a ratio of the plot with other margins than those drawn
(`EconChartCanvas.tsx:129` and `636`) and in the width the chart had when its handlers
were attached (`637`, `CandlestickChart.tsx:598`), so that the ratio is not quite where the
pointer is, and lies below 0 or above 1 over the axes. `Ratios` are any such ratios, in
halves (-1 to 3 in the run, any whole numbers in the proof), and `ZoomMoves` claims what
holds of them: the point at the handler's ratio keeps its place up to the rounding, and one
at another ratio moves by no more than their distance times what the window grew.
`DataArrive` and `Remount` reset the window; `Viewport` and
`ApplyRange` are the range and crisis buttons. `SignDrawn`, `ZoneDrawn`, `Labels`,
`PriceAxis`, `Thumb` say which points are drawn and where.

### Figures: LiquidityFigures, EmploymentFigures, DashboardFigures, HistoryFigures

A state is a set of figures, an action reports another one. The operators are the
decisions of the Go service (`DetermineMarketState`, `detectCreditSpike` and the
other events, `DetectPolicyRegime`, `CalcSahmRule`, `GetPhase`, `Categories`) and
those of the pages (`MarketStateHero`, `CreditPressurePanel`,
`PolicyRegimeCard`, `EconomicPhaseHero`, `getChartConfig`, `TodaysVerdictBanner`,
`StatePhaseMatrix`, `getInsightCards`). Figures are whole numbers in the finest
unit the comparisons tell apart; `Unknown` and `NoFigure` are missing ones. The
scores of the layers are inputs, but for that of the risk layer, which is computed from the
margin debt and, if they were reported, the money market funds
(`CalculateLayer2BStress`). `forwardFill` looks at the latest `LatestRows` weeks only, 30 in
the code and two in the run, while the card of the layer looks at all of them. Lists are made by `Lists`, which takes a list from the
indices that stay (`At`), from a strict order of its elements (`InOrder`) or from their
keys (`ByKey`): these say by themselves what the list holds and in which order, where
an operator that goes through it element by element would have to be unrolled. The sort
of Go promises nothing of equal keys, but of the events only the severity is told apart.

### Reading: ReadPages

`rp.keys` has, per key of SWR, whether there are data, an error, a request, how
many retries are left. `PageView` is the screen that follows, for the four pages.
SWR is external, with the settings of `lib/swr.tsx`: no revalidation on focus, at
most two retries, none after a 401, 403 or 404.

### Session, AdminGate, AdminConsole

`cookie` is the token in the browser, `asked` the requests of the tab with the
cookie each was sent with, `refreshing` the shared promise, `identity` the two
readings of the account, `tab` what the flags of `auth-store.ts` and of the
provider say. A page load drops the tab's state and what it was waiting for. Any answer
to the refresh but a success ends the session, a 429 or a 500 too (`RefreshRefused`).

`AdminGate`: `mfa` is the row on the server, with the attempts that were counted, the
session and whether the code was used; `codes` are the codes in flight, each at its step.
A code is sent, passes the lock-out (`CheckRateLimit`), then the row, the secret and the
replay (`CheckReplay`), and is marked as used, which forgives the attempts, before the row
is enabled and a session opened (`Accepted`); the latter two may fail and leave what was done
before them (`HalfDone`), and the errors of the commands of Redis are ignored. The button
minds what is in flight but the Enter key does not: two codes at a time (`InFlight`) may
pass the lock-out together, so that the attempts exceed the limit by one at most
(`MostAttempts`). A 401 is met by a refresh and a second sending, for a wrong code too.
`checkAuth` may show the setup for any row, since a status that cannot be read is answered
like that of a row that is not there; `past.misread` remembers it, and `SetupRefused` is the
409 that follows.

`AdminConsole`: an edit is a request and a reading; `acPage` has the one `updatingId` of
each table. The tables of the other tabs are not on the page: SWR answers `mutate()` of a
table that no component reads by dropping the reading under way and sending none, and the
table is read again when its tab is opened. An edit sent before the tab was last opened
(`acPage.opened`) belongs to a component that is gone: its end frees no control. SWR sends
no reading for a tab that is reopened within two seconds of the last one; the model leaves it
out where nothing was answered since.

### RateLimit

`counter` is the key in Redis with its expiry; INCR and EXPIRE are two actions,
of which the second may be lost. `entry` is the fallback, incremented by `Read`
and `Write` without a lock. The clock ticks when no request is in flight.

## 3. Runs

Deadlock checking is off only where the model has a last state: all requests of
the instance answered.

| Run | Instance | Shows |
|---|---|---|
| `portfolio` | two accounts, one holding that may be absent, short or someone else's, three requests, ten calls with the amounts at which the code branches | `TypeOK`, `SaleSeesCurrentRow`, `TradesPointHome`, `AccountsStayApart`, `ImplementsLedger`, and under fairness `EveryCallAnswered` |
| `portfolio_full_sale` | the same | violated: a sale of all the shares is always refused |
| `watchlist` | one account, a list that may be absent, lists of two tickers, three requests of which one is another client's | `PageTypeOK`, `ListsStayLegal`, `SettledPageIsTrue`, `NoResurrection`, `LostOnlyByOverlap` |
| `watchlist_failed_edit` | the same | violated: a refused edit stays on the bar |
| `watchlist_migration` | the same | violated: the migration loses tickers |
| `accounts_billing` | a person with two addresses and three sign-ins that may overlap; or an account, its checkouts and cancellations, an administrator, two requests (the third is of an address nobody has and never comes), two webhook calls at a time | `TypeOK`, `AlwaysTheSameAccount`, `AuditOnlyOfEdits`, `ProIsPaidFor`, `OneCustomerUnlessOverlap`, and under fairness `EditTakesHold`, `PlanSettles` |
| `rate_limit` | a limit of two requests in two ticks, four requests | violated: an address within the limit is refused |
| `employment_batch` | two months, figures 1, 2 or missing; two overlapping runs of which the second may begin a month later, with at most one request; or three requests about one month | `TypeOK`, `RevisionsWithoutGaps`, `NextNumberIsFree`, `SuccessMeansStored`, `NoSilentRevision` |
| `batch_window` | two runs, the second of which begins a month later | violated: a run erases a change without a record |
| `compute_cache` | three tickers for one place in L1, two threads, a weekend from tick 1 to tick 3 of four, a lifetime of two ticks and a backfill of one, one key in Redis at a time (`InRedis`), restarts and lost commands | `L1Sound`, `ServedIsRecent`, `AloneNeverFails` |
| `discovery` | two publications over two dates and two tickers, one reader at a time, one window that leaves a date out | `TypeOK`, `ServedWasCommitted`, `StaleOnlyByRace`, and under fairness `EventuallyFresh` |
| `frontend` | one part of the frontends at a time, chosen at the start: two or three lots, tickers, rows; charts of up to eight points; figures at and beside every threshold; at most three requests of a kind | `FrontendTypeOK`, `SignalsSound`, `ExitSound`, `ListsAreTrue`, `ChartShowsItsWindow`, `EconomySound`, `MoneySound`, `ScreensHaveReasons`, `AccessSound`, `FrontendSteps` |

In `frontend` each property is the conjunction of what its modules promise
(`SignalsSound` of `ChartIsOfTheSignal`, `SpinnersHaveRequests`, `NoDoubleEntry`
and `EntryHasItsTrade`, and so on); `MCFrontend` lists them. One run is enough
because the parts share nothing in the browser but SWR's cache, of which each part
models the keys it reads: a behaviour is of one part, the others stand still.

Why the bounds are enough. Every hazard of the portfolio is a race of two
requests over one row; the third request lets a trade, a deletion or an abort
come between them. On the watchlist, two requests of the page and one of another
client give a read-modify-write that overlaps both an edit of the same kind and a
deletion; a limit of two tickers is reached in one step. On the feed two
publications can block each other, break the primary key or leave the union of
their rows, while a read spans both; a goroutine that has replied is reused, so
the number of reads is not bounded. Of an account two requests make every race
of its code but one: two checkouts, or an edit while a lookup fills the
cache. A person who was let into an account needs three sign-ins: a third may be
let into another only while two overlap. The two webhook calls let the events of a subscription, or of two, overlap.
Two runs read, record and write across one another in every order, and a request
slips between any two statements of theirs; three requests about one month are
needed for a count written back to meet a number that is taken. Two months make
the later one's change depend on whether the earlier was fetched.
Two threads are enough for one to change L1 under every step of the other's
eviction; three tickers let an eviction that fails leave L1 above its size while a
third quote comes in. What is cached on the first tick of the weekend, which is as
long as the base lifetime, can reach the open.
Four requests of which one makes the counter and three come after it exceed a
limit of two over two windows.
Two tickers, or two rows and one to come, are enough for the answer of one to
meet the page of the other; a third request lets a reading of the list fall
between two changes, and three edits of the console leave one of a tab that was left under
way while two of another cross. Eight points let a window of four zoom, drag and clamp at
both ends, and data of none, three, six and eight points are below, at and above
the smallest window and the first one. The figures of the scores are chosen on both sides
of every threshold of either program, and missing where they may be.
Five days reach past the limit of a position, which is three.

Fairness. `FairSpec` of Portfolio: the goroutine of a request runs on (WF of
`Serve(r)`); a lock is released because its holder runs on. `FairSpec` of
DiscoveryFeed: requests that have started run on, and Redis drops what has
expired. `Fairness` of Billing: likewise, and Stripe calls again until it is
answered; the webhook's statements are strongly fair, as each call may fail but
calls do not fail for ever. Nobody is obliged to send a request, and failures are never fair.

### Disagreements found

1. **The last shares cannot be sold.** `trades.go:288` announces "Update or
   delete holding."; the DELETE meets the foreign key of the trade the same
   transaction has just inserted, and the sale is answered 500
   (`WholeHoldingCanBeSold`).
2. **A refused edit stays on the bar.** `signals/page.tsx:212` says that the page
   goes back to the backend's truth; the lists read again equal those SWR holds,
   so no effect runs (`FailedEditIsUndone`).
3. **The migration may lose tickers.** The simultaneous adds of
   `signals/page.tsx:132` may each insert a default list (`MigrationKeepsTickers`).
4. **An address within the limit is refused.** `ratelimit.go:24` promises "120
   requests per minute"; a counter whose EXPIRE was lost never goes away
   (`RefusedOnlyOverLimit`).
5. **A run erases a change without a record.** `batch/db.py:6` says that a value
   that has changed is recorded; the first month of a window has no change, the
   upsert writes that over the stored one, and `_detect_revisions` passes over
   missing values (`EveryChangeRecorded`).

### Where the frontends differ from the servers, or from themselves

No document says otherwise, so that these are no runs of their own; each is an
exception that a property names, and without which it would be violated.

- Signals page: overlapping analyses mix the prices of one ticker with the name of
  another, and past signals are kept when a new ticker is analysed (`signals/page.tsx:190`);
  a cancelled entry leaves its trade (`935`, the answer is a plain array).
- Exit tab (`1061`): the trailing stop is not announced, and where half was sold the
  end of the holding period is not either; the panel asks to sell on days after a
  reversal on which no rule fires.
- Holdings page: two additions at once lose a row until the next reading; the ring's
  total and the order of the table keep the old rate (`312`, `482`); the tab of
  trades reads `.trades` of a plain array and is always empty; the rate of wins is
  multiplied by 100 twice; the factor of profit is red where nothing was lost, and amber
  beside a red total where a small loss is rounded away.
- Charts: a crisis button before the first date leaves the chart blank; the range
  stays highlighted after the chart has begun again; a button released while a
  chart had too few points to listen leaves the drag on; flat prices have no axis;
  the legend counts order blocks that are not drawn.
- Judged twice: the phase at exactly 20, 40, 60 and 80 differs between the first
  page and the history; a high-yield spread of exactly 5 % is an alert while its sensor is
  amber, and so is a fast rise of it; the change over a year is counted in elements; the
  warning of the longer term hides the alert of the shorter one
  (`liquidity_score.go:756`, `776`); the meter of room for cuts is full from one percent
  on; the header of the risk layer weighs the funds, its comparison to the IT bubble does
  not; a figure that every one of the latest 30 weeks lacks counts as nothing in the flow
  of the net liquidity, while the card shows that of an older week; the dashboard has
  cards for two policies that are never sent, and none for those that are.
- Never judged: the API serves the indicators of the market under the names of a struct
  without tags (`VIX`; `handler/liquidity.go:336`, `481`) and the page reads `vix`
  (`liquidity/page.tsx:124`), so that the bar of indicators has no value and no colour; there is
  nothing to state of it, and it is not modelled. The spread of the SOFR is never given to the events
  (`handler/liquidity.go:835`): in the run it is missing throughout.
- Reading: the dashboard shows its skeleton for ever when the last retry failed; a
  failed refresh replaces the content and the tab; the overview of the history says
  that there are no data while it is still asking.
- Session: a refresh in flight during a sign-out signs the user in again; the second
  401 of a request does not redirect; a refresh refused for another reason than the token,
  say by the limit of requests, signs the user out. The cookie lives as long as the token in it
  (24 hours), so that the refresh, which needs a readable token, can succeed in
  the last second only; the comment of `auth_service.go:85` speaks of seven days.
- Second factor: a wrong code is counted twice, so that three lock out, and two in flight
  may exceed the limit by one; a setup that was begun and left cannot be begun again; an
  enrolled administrator whose status cannot be read is offered the setup, which is refused
  (`admin_mfa.go:43`, `66`); a code is used up, and the row perhaps enabled, although the
  session could not be opened; the failure to read the account looks like the lack of a right.
- Console: the end of one edit frees the control of another; failures are silent; a table
  edited in a tab that was left shows its old rows until they are read on its return.

## 4. Proofs

All for every value of the constants that satisfies the modules' assumptions.
These are: the identifiers of a module differ (`Distinct`, `Inputs`, `Page`,
`NoneIsNothing` and their like); months are integers, figures are
numbers whose differences are changes, and the null values are neither (Batch);
`Lifetimes` and `Calendar` (ComputeCache); the accounts there are at first have
nothing of the model's requests in them (Billing); the lists there are at first
are legal (Watchlist); figures are whole numbers, the series of a group not empty
(LiquidityFigures), the scores of the layers from 0 to 100; rates of
unemployment and the parts of the score are in their ranges (EmploymentFigures); lots
have different numbers and there are finitely many, as there are balances and users,
and prices in yen are multiples of the rates (HoldingsFigures, CashSection,
AdminConsole); prices are whole numbers, a crisis ends after it began
and a mark is of one of the five kinds (ChartWindow).

- **PortfolioProofs**: `TypeCorrect`, `SalesAreSerialised`, `ForeignKeyHolds`,
  `AccountsApart`, `PortfolioImplementsLedger`. None of the safety properties is inductive. The
  invariant `IInv` adds what a sale in progress knows: its holding is locked for
  it alone, the row it read is the committed one and of its own account, the
  shares it sells do not exceed it; what `CheckOwner` established about the
  account of the holding; that a row inserted by a request exists only once the
  request has been answered, so that ids are fresh. `IInv` is preserved action
  by action; each theorem follows from it. `AccountsApart` needs it where a
  sale writes a row it read three statements earlier. The refinement proof maps each action
  to one step of `Ledger` or to none.
- **WatchlistProofs**: `ListsAreLegal` (`ListsStayLegal`), `DeletedStaysDeleted`
  (`NoResurrection`), `LosesOnlyByOverlap` (`LostOnlyByOverlap`),
  `PageTypeCorrect`, `SettledPageIsRight` (`SettledPageIsTrue`), for any lists,
  texts, requests and clicks. For the server, `WatchInv` adds what a request of
  `ModifyTicker` knows of the list it read (`RequestsKnow`) and that who wrote a
  row has been answered (`WritersAnswered`): so `updated_at` tells contents
  apart. That is the key to the page, too: what it holds was written by requests
  that have been answered (`SnapshotsAreOld`), and none of those writes again; so a list that
  comes back as it was read has not been written since, and SWR, which keeps its
  object then, misses nothing. As long as nobody but the page sends anything and nothing
  fails (`Alone`), its edits work on a default list (`OnDefault`), what was read when no
  edit is waited for is what the server holds (`DataComeBack`), and where that is
  unchanged the bar shows it or an edit that will change it is under way (`BarFollows`).
  What the two loops return is proved by the least position at which it could fail (`Least`, `Upwards`).
- **DiscoveryFeedProofs**: `TypeCorrect`, `PublicationIsAtomic`,
  `InvalidationIsComplete`. `IInv` adds that the present content is one of the
  past ones and that every cached body was once read from one of them. The
  heart is `Commit`: every entry it outdates is `Pending` for the publication,
  and the three Redis commands take `Pending` away only with the entry.
- **BillingProofs**: `TypeCorrect`, `AuditsAreOfEdits`, `SameAccount`
  (`AlwaysTheSameAccount`), `ProPaid` (`ProIsPaidFor`), `OneCustomer`
  (`OneCustomerUnlessOverlap`), `AnswersLast`, for any people, addresses,
  requests and webhook calls. `IInv` joins, of the requests, the order of their
  statements (`Flow`) and of their answers (`History`); of Stripe, that a
  customer is kept where its checkout saved it (`Customers`, `Saved`) and that an
  event is of a subscription that was paid (`Events`); of the sign-ins, that an
  address is tried by whom it belongs to (`Addresses`), that a
  sign-in whose lookups found nothing, none having failed, has nobody let in before it
  (`Fruitless`), and that a person has one row which nobody is about to join by another, or each of
  their rows was made by a sign-in with none before it (`Rows`).
- **BatchProofs**: `TypeCorrect`, `RevisionsContiguous`, `NumbersStayFree`,
  `SuccessIsStored`, `RevisionsAreRecorded`, for any number of requests and runs.
  `IInv` has two halves that meet in the table. For the requests: every number a
  row counts has its revision (`Counted`), a request knows a row whose
  revisions are there (`Knows`), and the number after a regular count is free or
  taken by a request about to count it (`FreeOrCounting`). For the runs: what a
  run has written is there unless touched (`Stored`), and every difference it
  is about to write was found, then recorded (`Compared`). A request keeps the
  second half because it touches what it writes, a run keeps the first because
  an upsert leaves the count alone.
- **ComputeCacheProofs**: `TypeCorrect`, `QuotesAreRecent` (`ServedIsRecent`),
  `EvictionFailsInCompany` (`AloneNeverFails`), `L1KeepsItsSize` (`L1Sound`), for
  any keys, threads and calendar.
  The clock stands while a thread is in the cache, so what it read of it still
  holds. `IInv` bounds every entry: in Redis it expires within a lifetime of its
  quote, in L1 within a backfill of that (`EntriesAreRecent`), and a thread carries
  only quotes of which it knows as much (`ThreadKnows`). That a closed tick has a
  next open needs `NextOpen` to be a least element, hence well-foundedness. For
  the evictions, a thread that nobody disturbed still finds each key it listed
  (`AloneFindsItsKeys`), and whom a change disturbed has company. For the size,
  the keys of L1 are counted (`Bounded`): what is above the limit is still to be taken
  away by a thread (`Pending`), unless an eviction failed.
- **BrowserProofs**: `SessionIsSafe`, for any number of calls. `SignedOutIsOut` is
  not inductive: a refresh in flight could bring the cookie back. `RefreshIsOut` adds that
  after a clean sign-out a refresh in flight was sent without a token.
  `GateIsSound`, for any lock-out limit and number of codes:
  `LockoutIsEarned` needs what is still due, two attempts for a code sent once, one
  for one sent again (`AttemptsEarned`), counted over the codes in flight, of which there
  are two at most; the attempts stay below their bound because they reach the limit only with
  the codes that had passed it (`AttemptsLimited`). `GateViews` ties each view to what the server held when it was shown.
  `ChartsAreTrue`, for any number of points, any prices, marks and ranges:
  `WindowInData` is not inductive, since a drag moves the window it began with, which may be
  of data that are gone by then. `ChartInv` adds that this window is in order, and empty only
  where a crisis button had left the chart blank; that suffices, as `Inside` brings
  any window back into the data. What is drawn follows from the window alone: the labels
  by an injection into their number, the axes from the least and the greatest price
  (`Extremes`).
  Further, what the pages compute of a state: `EmploymentOK`, `LiquidityOK`,
  `DashboardOK`, `HistoryOK`, `HoldingsOK`, `TabsOK`, `CashOK`, `CardsCountOK`, each of
  which says that figures of the right kinds agree. Three groups of lemmas carry them.
  *Lists*: `InOrder` gives every element one place, and a list at some indices keeps
  their order. *Sums*: the sum over a finite set is the sum of its parts, by whatever
  label (`SumByParts`), and does not depend on how its members are numbered
  (`SumThrough`). *Extremes*: a finite set of numbers has a least and a greatest one. As
  an induction over data is not to be had, each is proved by a least counterexample: the
  subsets of a finite set are well-founded, so that a smallest one for which the
  statement fails would lack an element that can be put back.
- **FrontendProofs**: the parts of `MCFrontend` by any values of their constants.
  A behaviour is of one part and keeps that part's invariant (`MCInv`):
  - `SignalsAreSound`. `SignalsInv`: unless answers may mix, an analysis under way is
    the only request that fills the chart and a period is asked of the ticker
    shown (`Unmixed`). `EntryInv`: one entry is recorded at a time (`OneIsRecorded`), a
    ticker has one row at most (`OneRow`), the list that was read covers the rows but
    for those being recorded (`ListIsKnown`), and a row's trade is made or about
    to be (`TradesFollow`).
  - `ExitsAreSound`. `FiredBefore`: the rules that fired are of bars passed.
  - `ListsAreSound`. `HoldingsInv`: the list is the server's when all changes
    were told and no reading was overtaken (`ListIsRead`), an addition is waited for,
    a form knows the row it is about (`FormsKnow`). `CashInv`: one
    reading at a time, which is of the present rows when nothing changed since.
    `ConsoleInv`: the latest reading of a table, and then the table, is the server's
    while no change is still to be told (`TableIsRead`); unless edits crossed there is one
    at most, and its row is marked busy (`OneEdit`).
  - `ScreensAreSound`. `ReadInv`: a key that is mounted was asked (`MountedAreAsked`).
  - `AccessIsSound` and `ChartsAreSound` (`ChartShowsItsWindow`): the theorems above,
    as parts. `FrontendTypeCorrect`: the types of all parts (`FrontendTypeOK`).
  - `EconomyIsSound` (`EconomySound`): from the invariants that say of which kind each
    figure is, by the lemmas of BrowserProofs. The score is the sum of
    its categories and its phase the same in both programs; what the Sahm rule takes for a
    peak is one; an event is listed if it was found; a state, a meter or a tone
    that is judged twice is judged alike, at every figure and not only those of the
    instance; the charts draw what was served.
  - `MoneyIsSound` (`MoneySound`): the invariant of the holdings adds that a quote is a
    price of its ticker, that of the tabs that only a sale has made something. The
    total is the sum of the accounts and of the sectors, and what the rate made is that of
    the rows; a ring that joins its small segments loses nothing of its total, and its arcs
    go once around; the table is in the order of what it shows unless the rate has changed
    since; the statistics agree with the trades they are of; cash in yen is cash in dollars
    at the rate; the console's cards count its rows.
  - `FrontendStepsHold` (`FrontendSteps`): `KeepsShares` needs `FormsKnow`; `NotMilder`
    is about every figure of the two groups of events, compared threshold by threshold.

Three attempts at a proof failed for a good reason, and the model says so now.
*The same account*: with three overlapping sign-ins a person may be let into a
second account after having been let into a first one: two of them find no row and
each makes or binds one under its own address, and the third, which begins after the first was
answered, may find either. `AlwaysTheSameAccount` therefore allows an account that was
made by a sign-in which overlapped with one of before; two sign-ins had never shown it.
*The size of L1*: an eviction that overlaps one that fails may have counted on the
keys that the failed one was to delete, and leaves L1 above its size although it
did not fail itself. L1 is therefore promised its size again only once an eviction that
began after the last failure succeeds (`since`); the run has a third ticker, without
which the case does not arise.

*The colour of the factor*: the run has whole percentages of a few trades, for which a
red factor and a red total go together. The proof needs the rounding of `computeStats`,
and with it they may part: a loss below half a percent of what was lost is
rounded to a factor of one, which is amber, while the total is red; and a share of wins
below half a hundredth of a percent leaves the ring empty. `StatsAgree` names both.

Only model-checked. Liveness, which the prover cannot treat: `EveryCallAnswered`,
`EventuallyFresh`, `EditTakesHold`, `PlanSettles`. Every safety property of the passing
runs, whether an invariant or about steps, is the subject of a theorem.

## 5. Plan

1. Done: Portfolio, Watchlist with QuickTickers, DiscoveryFeed, with their proofs.
2. Done: RateLimit, with a run that shows an address refused that stays under
   the limit.
3. Done: Account with Billing and their proofs.
4. Done: Employment with Batch and their proofs.
5. Done: ComputeCache with its proofs, but for the calendar (holidays, the change of
   the clocks), which goes with the algorithms, and the warm-up, which goes with the
   caches of the scores.
6. Done: the judgements at their thresholds (exits, state, events, policy, Sahm
   rule, phases, trade statistics), with what the pages make of them. Left: the regime
   of the compute service and the layer stress of the batch.
7. Done: `Session`, the pages' pairs of calls, the gate and console of administration,
   the charts, with the proofs of every part that sends requests. Left: the pages of
   the history of signals, the tables of the discovery page.
8. Done: the theorems of every invariant and of every property of steps that a run checks.

## 6. Not modelled

What the second factor promises against an adversary; the price-series detectors
and the percentiles behind the scores, which are floating-point data frames; the
wording, layout and strokes of the pages; scraping; wiring; the static pages.
`PROJECT.json` gives the reason for each.

Hazards seen and left without a property, as no model reaches them yet: the columns of an
upsert are those of its first row, so that a window whose first day lacks a spread
writes none (`batch/db.py:249`); the warm-up does not recompute what is cached
and is refused where a proxy secret is set (`batch/run.py:133`); batch-quotes and
`GET /{ticker}/quote` share a key whose entries lack fields the second requires
(`stock.py:267`; no page calls it).
