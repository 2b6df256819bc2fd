\* Every part of the frontends by itself.
CONSTANTS
    Symbol = {a, b}
    Span = {s, l}
    DefaultSpan = s
    Blank = Blank
    MaxAsked = 3

    HoldLimit = 3
    LastDay = 5
    NoDay = NoDay

    Stock = {a, b}
    NoStock = NoStock
    MaxTasks = 3

    Hid = {1, 2}
    Opening = {{1}}
    MaxHeld = 2
    MaxSends = 2
    NoHeld = NoHeld

    Balance = {b1, b2}
    InDollars = {b1}
    CashAmount = {2, 4}
    CashRate = 2
    MaxChanges = 3
    NoBalance = NoBalance

    Lot <- MCLot
    Japanese = {1}
    Rate = {100, 150}
    Price <- MCPrice
    MaxSegments = 2

    Profit <- MCProfit
    MaxTrades = 3

    MinVisible = 4
    DefaultVisible = 5
    LastPoint = 8
    Lengths = {0, 3, 6, 8}
    Spans = {2, 4}
    Crises <- MCCrises
    Bars <- MCBars
    Signs <- MCSigns
    Ratios <- MCRatios
    NoEma = NoEma

    Reading <- MCReading
    Rest <- MCRest
    Year = 3
    MaxMonths = 5
    NoFigure = NoFigure

    Figures <- MCFigures
    FedRow <- MCFedRow
    MaxWeeks = 3
    LatestRows = 2
    Unknown = Unknown

    Amount = {0, 3, None}
    MaxRows = 2
    None = None

    Period = {s}
    Crisis = {c}
    FirstPeriod = s
    NoCrisis = NoCrisis

    MaxCalls = 2

    MaxTyped = 4
    maxAttempts = 5

    AdminUser = {u1, u2}
    Flag = {f1}
    MaxEdits = 3
    NoRow = NoRow

SPECIFICATION MCSpec

INVARIANTS
    FrontendTypeOK
    SignalsSound
    ExitSound
    ListsAreTrue
    ChartShowsItsWindow
    EconomySound
    MoneySound
    ScreensHaveReasons
    AccessSound
PROPERTY
    FrontendSteps

CHECK_DEADLOCK FALSE
