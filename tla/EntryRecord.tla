----------------------------- MODULE EntryRecord -----------------------------
(***************************************************************************)
(* Recording and cancelling an entry on the signals page (frontend         *)
(* app/signals/page.tsx): a buy signal offers "recorded" which creates a   *)
(* holding and then a BUY trade, two requests; a ticker that the page      *)
(* believes held offers "cancel", which deletes the holding and looks the  *)
(* trade up to delete it too.  What the page believes is the list SWR      *)
(* read last; nobody waits for it to be read again.                        *)
(***************************************************************************)
EXTENDS Naturals, FiniteSets

CONSTANTS
    Stock,          \* tickers with a buy signal
    NoStock,        \* no ticker shown, no list read
    MaxTasks        \* a bound: how many entries and cancellations are started

Row == [id: 0..MaxTasks, ticker: Stock]

ASSUME EntryRecordConstants ==
    NoStock \notin Stock /\ (\A rows \in SUBSET Row : rows # NoStock) /\ MaxTasks \in Nat

VARIABLES
    erShown,        \* the ticker whose signal is shown
    erRecording,    \* the entryRecording state
    erView,         \* holdingsData: the rows the page knows, or NoStock
    erGet,          \* SWR's read of them: none, sent, or served with the rows it found
    erTasks,        \* the handlers that run
    erStarted,      \* how many were started
    erRows,         \* the user's holdings
    erBuys,         \* BUY trades: how many the user has of each ticker
    erMade,         \* history: how many holdings the page created of each
    erExcused       \* history: tickers of a request that failed or was lost, or
                    \* of an entry begun while the list was being read

entryVars ==
    <<erShown, erRecording, erView, erGet, erTasks, erStarted, erRows, erBuys, erMade, erExcused>>

Task == [no: 1..MaxTasks, step: {"holding", "trade", "delete", "lookup"}, row: Row]
NoGet == [step |-> "none", rows |-> {}]
Sent == [step |-> "sent", rows |-> {}]

EntryTypeOK ==
    /\ erShown \in Stock \cup {NoStock} /\ erRecording \in BOOLEAN
    /\ erView \in {NoStock} \cup SUBSET Row
    /\ erGet \in [step: {"none", "sent", "served"}, rows: SUBSET Row]
    /\ erTasks \subseteq Task /\ erStarted \in 0..MaxTasks
    /\ erRows \subseteq Row
    /\ erBuys \in [Stock -> Nat] /\ erMade \in [Stock -> Nat]
    /\ erExcused \subseteq Stock

\* The user may hold a ticker already; SWR has just begun to read the list.
EntryInit ==
    /\ erShown = NoStock /\ erRecording = FALSE
    /\ erView = NoStock /\ erGet = Sent
    /\ erTasks = {} /\ erStarted = 0
    /\ \E held \in SUBSET Stock : erRows = {[id |-> 0, ticker |-> t] : t \in held}
    /\ erBuys = [t \in Stock |-> 0] /\ erMade = erBuys /\ erExcused = {}

-----------------------------------------------------------------------------

HeldRows(t) == IF erView = NoStock THEN {} ELSE {r \in erView : r.ticker = t}

OffersEntry == erShown # NoStock /\ HeldRows(erShown) = {} /\ ~erRecording
OffersCancel == erShown # NoStock /\ HeldRows(erShown) # {}

\* Another ticker is analysed.
ShowSignal(t) ==
    /\ t # erShown
    /\ erShown' = t
    /\ UNCHANGED <<erRecording, erView, erGet, erTasks, erStarted, erRows, erBuys, erMade, erExcused>>

\* The button is disabled while one entry is recorded, whichever ticker it is of.
RecordEntry ==
    /\ OffersEntry /\ erStarted < MaxTasks
    /\ erRecording' = TRUE
    /\ erStarted' = erStarted + 1
    /\ erTasks' = erTasks \cup
                  {[no |-> erStarted + 1, step |-> "holding",
                    row |-> [id |-> erStarted + 1, ticker |-> erShown]]}
    /\ erExcused' = IF erGet = NoGet THEN erExcused ELSE erExcused \cup {erShown}
    /\ UNCHANGED <<erShown, erView, erGet, erRows, erBuys, erMade>>

CancelEntry ==
    /\ OffersCancel /\ erStarted < MaxTasks
    /\ erStarted' = erStarted + 1
    /\ \E r \in HeldRows(erShown) :
        erTasks' = erTasks \cup {[no |-> erStarted + 1, step |-> "delete", row |-> r]}
    /\ UNCHANGED <<erShown, erRecording, erView, erGet, erRows, erBuys, erMade, erExcused>>

Moves(k, step) == erTasks' = (erTasks \ {k}) \cup {[k EXCEPT !.step = step]}

\* POST /holdings is served and its answer arrives; POST /trades follows.
HoldingCreated(k) ==
    /\ k.step = "holding"
    /\ erRows' = erRows \cup {k.row}
    /\ erMade' = [erMade EXCEPT ![k.row.ticker] = @ + 1]
    /\ Moves(k, "trade")
    /\ UNCHANGED <<erShown, erRecording, erView, erGet, erStarted, erBuys, erExcused>>

\* The BUY trade is created: the list is read again, not waited for, and the
\* button is enabled.
TradeCreated(k) ==
    /\ k.step = "trade"
    /\ erBuys' = [erBuys EXCEPT ![k.row.ticker] = @ + 1]
    /\ erGet' = Sent
    /\ erRecording' = FALSE /\ erTasks' = erTasks \ {k}
    /\ UNCHANGED <<erShown, erView, erStarted, erRows, erMade, erExcused>>

\* A request fails, before or after it took effect: the catch block logs, the
\* list is not read again, and nothing is undone.
RecordFails(k) ==
    /\ k.step \in {"holding", "trade"}
    /\ \E took \in BOOLEAN :
        IF ~took THEN UNCHANGED <<erRows, erMade, erBuys>>
        ELSE IF k.step = "holding"
             THEN /\ erRows' = erRows \cup {k.row}
                  /\ erMade' = [erMade EXCEPT ![k.row.ticker] = @ + 1]
                  /\ UNCHANGED erBuys
             ELSE erBuys' = [erBuys EXCEPT ![k.row.ticker] = @ + 1] /\ UNCHANGED <<erRows, erMade>>
    /\ erRecording' = FALSE /\ erTasks' = erTasks \ {k}
    /\ erExcused' = erExcused \cup {k.row.ticker}
    /\ UNCHANGED <<erShown, erView, erGet, erStarted>>

HoldingDeleted(k) ==
    /\ k.step = "delete" /\ k.row \in erRows
    /\ erRows' = erRows \ {k.row}
    /\ Moves(k, "lookup")
    /\ UNCHANGED <<erShown, erRecording, erView, erGet, erStarted, erBuys, erMade, erExcused>>

\* GET /trades answers a plain array, whose field trades is undefined: nothing
\* is deleted, and the list is read again.
TradesLookedUp(k) ==
    /\ k.step = "lookup"
    /\ erGet' = Sent /\ erTasks' = erTasks \ {k}
    /\ UNCHANGED <<erShown, erRecording, erView, erStarted, erRows, erBuys, erMade, erExcused>>

\* The row is gone already (404), or the request fails; the list is not read.
CancelFails(k) ==
    /\ k.step \in {"delete", "lookup"}
    /\ erRows' = erRows \ (IF k.step = "delete" THEN {k.row} ELSE {}) \/ UNCHANGED erRows
    /\ erTasks' = erTasks \ {k}
    /\ erExcused' = erExcused \cup {k.row.ticker}
    /\ UNCHANGED <<erShown, erRecording, erView, erGet, erStarted, erBuys, erMade>>

\* The read of the list: served, answered, or failed for good (the last list
\* stays).  A new read replaces one that is on its way.
ListServed ==
    /\ erGet = Sent /\ erGet' = [step |-> "served", rows |-> erRows]
    /\ UNCHANGED <<erShown, erRecording, erView, erTasks, erStarted, erRows, erBuys, erMade, erExcused>>

ListRead ==
    /\ erGet.step = "served" /\ erGet' = NoGet /\ erView' = erGet.rows
    /\ UNCHANGED <<erShown, erRecording, erTasks, erStarted, erRows, erBuys, erMade, erExcused>>

ListFails ==
    /\ erGet # NoGet /\ erGet' = NoGet /\ erExcused' = Stock
    /\ UNCHANGED <<erShown, erRecording, erView, erTasks, erStarted, erRows, erBuys, erMade>>

EntryNext ==
    \/ \E t \in Stock : ShowSignal(t)
    \/ RecordEntry \/ CancelEntry
    \/ \E k \in erTasks : \/ HoldingCreated(k) \/ TradeCreated(k) \/ RecordFails(k)
                          \/ HoldingDeleted(k) \/ TradesLookedUp(k) \/ CancelFails(k)
    \/ ListServed \/ ListRead \/ ListFails

EntrySpec == EntryInit /\ [][EntryNext]_entryVars

-----------------------------------------------------------------------------

\* The page never records a second holding of a ticker, unless a request about
\* it failed or was lost (the page then still offers the button) or the entry was
\* begun while the list was being read (nobody waits for mutateHoldings).
NoDoubleEntry ==
    \A t \in Stock \ erExcused : Cardinality({r \in erRows : r.ticker = t}) <= 1

\* Every holding the page created has its BUY trade, unless a request failed or
\* the second of the two is still to be sent.
EntryHasItsTrade ==
    \A t \in Stock \ erExcused :
        erMade[t] = erBuys[t] + Cardinality({k \in erTasks : k.step = "trade" /\ k.row.ticker = t})

EntrySound == NoDoubleEntry /\ EntryHasItsTrade

=============================================================================
