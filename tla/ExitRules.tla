------------------------------ MODULE ExitRules ------------------------------
(***************************************************************************)
(* One simulated position of a ticker, day by day: the four exit rules of  *)
(* the compute service (backend analysis/exit_manager.py), the two answers *)
(* it gives about the position -- the trade it closed and its status today *)
(* (backend routers/signal.py) -- and what the exit and history tabs of    *)
(* the signals page tell the user about it.  Prices are abstracted to the  *)
(* comparisons the rules make with them.                                   *)
(***************************************************************************)
EXTENDS Naturals, FiniteSets

CONSTANTS
    HoldLimit,      \* days a position is held at most (252)
    LastDay,        \* a bound: days the history covers
    NoDay           \* no such day

Reason == {"ATR_Floor", "Mirror_Full", "Trail_Stop", "Time_Stop"}
Sale == [reason: Reason, day: Nat]

ASSUME ExitRulesConstants ==
    /\ HoldLimit \in Nat \ {0} /\ LastDay \in Nat
    /\ NoDay \notin Nat /\ NoDay \notin Reason /\ NoDay \notin Sale

VARIABLE position   \* what the loop of _run_exit_loop knows after today

exitVars == <<position>>

\* today: days held; choch: the day the half was sold; exit, exitDay: the first
\* rule that fired and its day; cross: EMA 8 is under EMA 21 today.
Position == [today: 0..LastDay, choch: 0..LastDay \cup {NoDay}, trail: BOOLEAN,
             cross: BOOLEAN, exit: (Reason \ {"Time_Stop"}) \cup {NoDay},
             exitDay: 0..LastDay \cup {NoDay}]

ExitTypeOK ==
    /\ position \in Position
    /\ (position.exit = NoDay) <=> (position.exitDay = NoDay)

ExitInit ==
    position = [today |-> 0, choch |-> NoDay, trail |-> FALSE, cross |-> FALSE,
                exit |-> NoDay, exitDay |-> NoDay]

\* What the rules compare on a day.  The trailing stop can only be hit once it
\* is armed; the floor is looked at before everything else.
Bar == [floor: BOOLEAN, choch: BOOLEAN, cross: BOOLEAN, arms: BOOLEAN, hits: BOOLEAN]

\* The rule that fires on the day, if any, in the loop's order.
Fires(bar) ==
    IF bar.floor THEN "ATR_Floor"
    ELSE IF bar.choch /\ bar.cross THEN "Mirror_Full"
    ELSE IF (position.trail \/ bar.arms) /\ bar.hits THEN "Trail_Stop"
    ELSE NoDay

\* The loop goes over one more bar; once a rule fired it has returned.
NextBar(bar) ==
    /\ position.today < LastDay
    /\ LET today == position.today + 1
           fired == Fires(bar)
           halves == bar.choch /\ ~bar.floor /\ position.choch = NoDay
           moved == [position EXCEPT !.today = today, !.cross = bar.cross,
                                     !.choch = IF halves THEN today ELSE @,
                                     !.trail = @ \/ (~bar.floor /\ fired # "Mirror_Full" /\ bar.arms)]
       IN  position' = IF position.exit # NoDay THEN [position EXCEPT !.today = today]
                       ELSE IF fired = NoDay THEN moved
                       ELSE [moved EXCEPT !.exit = fired, !.exitDay = today]

ExitNext == \E bar \in Bar : NextBar(bar)

ExitSpec == ExitInit /\ [][ExitNext]_exitVars

-----------------------------------------------------------------------------
\* What the service answers about a position.

\* evaluate_trade: the loop up to the hold limit, then the time stop, but only
\* if the data reach that far.
evaluate_trade(p) ==
    IF p.exit # NoDay /\ p.exitDay <= HoldLimit THEN [reason |-> p.exit, day |-> p.exitDay]
    ELSE IF p.today >= HoldLimit THEN [reason |-> "Time_Stop", day |-> HoldLimit]
    ELSE NoDay

\* The records of trade_results: half the position and the rest, unless both
\* were sold on one day, which makes one blended record.
trade_results(p) ==
    LET t == evaluate_trade(p)
    IN  IF t = NoDay THEN {}
        ELSE {[partial |-> FALSE, day |-> t.day, reason |-> t.reason]} \cup
             (IF p.choch # NoDay /\ p.choch < t.day
              THEN {[partial |-> TRUE, day |-> p.choch, reason |-> "Mirror_Partial"]} ELSE {})

\* evaluate_current: an exit on an earlier day completes the position (the other
\* fields then are not shown); one of today is a status that still counts as
\* held, named by nearest_exit_reason.
evaluate_current(p) ==
    LET fired == p.exit # NoDay /\ p.exitDay = p.today
    IN  [trade_completed |-> p.exit # NoDay /\ p.exitDay < p.today,
         atr_floor_triggered |-> p.exit = "ATR_Floor",
         bearish_choch_detected |-> p.choch # NoDay,
         ema_death_cross |-> IF fired THEN p.exit = "Mirror_Full" ELSE p.cross,
         trail_active |-> p.trail,
         nearest_exit_reason |-> IF fired THEN (IF p.exit = "Mirror_Full" THEN "Mirror_Partial" ELSE p.exit)
                                 ELSE IF p.today >= HoldLimit THEN "Time_Stop" ELSE NoDay]

-----------------------------------------------------------------------------
\* A mutant: the branch for the half stands before the one for the floor.
verdictHalfFirst(s) ==
    IF s.bearish_choch_detected /\ s.ema_death_cross THEN [color |-> "red", sellPct |-> 100]
    ELSE IF s.bearish_choch_detected THEN [color |-> "orange", sellPct |-> 50]
    ELSE IF s.atr_floor_triggered THEN [color |-> "red", sellPct |-> 100]
    ELSE IF s.nearest_exit_reason = "Time_Stop" THEN [color |-> "orange", sellPct |-> 100]
    ELSE [color |-> "emerald", sellPct |-> 0]

\* What the exit tab says of a position that is not completed.
getActiveVerdict(s) ==
    IF s.atr_floor_triggered THEN [color |-> "red", sellPct |-> 100]
    ELSE IF s.bearish_choch_detected /\ s.ema_death_cross THEN [color |-> "red", sellPct |-> 100]
    ELSE IF s.bearish_choch_detected THEN [color |-> "orange", sellPct |-> 50]
    ELSE IF s.nearest_exit_reason = "Time_Stop" THEN [color |-> "orange", sellPct |-> 100]
    ELSE [color |-> "emerald", sellPct |-> 0]

\* The panel for one position: its verdict, "sold" for a completed one.
heroState(s) == IF s.trade_completed THEN "sold" ELSE getActiveVerdict(s).color

\* The tiles of the triggers: floor, reversal, trailing stop.
mirrorTile(s) ==
    IF s.bearish_choch_detected /\ s.ema_death_cross THEN "all sold"
    ELSE IF s.bearish_choch_detected THEN "half sold" ELSE "not seen"

\* The rows of the history tab: the records of one entry make one closed row
\* (the full sale names it), and a position that is not completed another.
closedRows(p) ==
    LET trades == trade_results(p)
        full == {t \in trades : ~t.partial}
    IN  IF trades = {} THEN {}
        ELSE {[isActive |-> FALSE, reason |-> t.reason, halfSell |-> full # trades] : t \in full}

rows(p) ==
    closedRows(p) \cup
    (IF evaluate_current(p).trade_completed THEN {}
     ELSE {[isActive |-> TRUE, reason |-> NoDay, halfSell |-> p.choch # NoDay]})

-----------------------------------------------------------------------------
\* What holds of them.

Today == evaluate_current(position)
SoldToday == position.exit # NoDay /\ position.exitDay = position.today

\* When a rule closes the position on the last bar, or its time is over, the exit
\* tab tells the user to sell all of it at the next open -- except for the
\* trailing stop, for which getActiveVerdict has no branch (it says to hold, or
\* to sell half, and the day after the position is listed as sold), and for the
\* time of a position whose half was sold, whose branch for the half comes first.
EverySaleIsAnnounced ==
    \/ SoldToday /\ position.exit # "Trail_Stop"
    \/ position.exit = NoDay /\ position.today = HoldLimit /\ position.choch = NoDay
    => getActiveVerdict(Today).sellPct = 100

\* The panel asks to sell all of a position only when a rule just closed it, its
\* time is over, or a reversal was seen and the averages are crossed: on a later
\* day than the reversal the rules do not close it for that, but the panel does.
NoUnfoundedSale ==
    ~Today.trade_completed /\ getActiveVerdict(Today).sellPct = 100 =>
        \/ SoldToday
        \/ evaluate_trade(position) # NoDay
        \/ position.choch # NoDay /\ position.cross /\ mirrorTile(Today) = "all sold"

\* The history tab lists a position once -- closed or held -- but on the day it
\* is closed, and after its time is over as long as no other rule fires.
ListedOnce ==
    Cardinality(rows(position)) = 1 \/ SoldToday \/ position.today >= HoldLimit

=============================================================================
