---------------------------- MODULE HoldingsPage ----------------------------
(***************************************************************************)
(* The holdings page (frontend app/holdings/page.tsx): the list SWR holds  *)
(* of the user's holdings, the dialogs that add, edit and sell, the delete *)
(* button, and the requests they send.  The dialogs never unmount, nothing *)
(* stops the user from closing one while its request runs and opening it   *)
(* for another holding, and the answer closes whichever is open then.      *)
(***************************************************************************)
EXTENDS Naturals, FiniteSets

CONSTANTS
    Hid,            \* ids of holdings
    Opening,        \* sets of holdings the user may start with
    MaxHeld,        \* a bound: shares of one holding
    MaxSends,       \* a bound: requests the page sends
    NoHeld          \* no such holding, no dialog, no list

VARIABLES
    hpRows,         \* the server: shares of each holding, and whether it was sold from
    hp,             \* the page's state
    hpGet,          \* SWR's GET /api/holdings/init
    hpCalls,        \* requests of the dialogs and the button
    hpSent          \* how many were sent

holdingsVars == <<hpRows, hp, hpGet, hpCalls, hpSent>>

Held == 1..MaxHeld
Temp == 0                    \* the row of optimisticData: its id is no holding's
Listing == [Hid \cup {Temp} -> Held \cup {NoHeld}]
Nothing == [h \in Hid \cup {Temp} |-> NoHeld]

HeldRow == [shares: Held, sold: BOOLEAN]

\* A dialog is open for a holding as it was in the list; hasty: since then, or
\* just before, something was sent or read.
Form == [id: Hid \cup {Temp}, shares: Held, hasty: BOOLEAN]

HoldingsState ==
    [list: Listing \cup {NoHeld}, failed: BOOLEAN, adding: 0..MaxSends,
     edit: Form \cup {NoHeld}, sell: Form \cup {NoHeld},
     editLoading: BOOLEAN, sellLoading: BOOLEAN, missed: BOOLEAN]
HoldingsCall ==
    [no: 1..MaxSends, op: {"add", "edit", "sell", "delete"}, id: Hid \cup {Temp}, shares: Held,
     step: {"sent", "ok", "error"}, untouched: BOOLEAN, hasty: BOOLEAN]

ASSUME HoldingsPageConstants ==
    /\ Opening \subseteq SUBSET Hid /\ Temp \notin Hid /\ MaxHeld \in Nat \ {0} /\ MaxSends \in Nat
    /\ NoHeld \notin Hid \cup Nat \cup HeldRow \cup Form \cup Listing

HoldingsTypeOK ==
    /\ hpRows \in [Hid -> HeldRow \cup {NoHeld}]
    /\ hp \in HoldingsState
    /\ hpGet \in [step: {"none", "sent", "served", "dropped"}, rows: Listing]
    /\ hpCalls \subseteq HoldingsCall /\ \A c \in hpCalls : c.no <= hpSent
    /\ hpSent \in 0..MaxSends

NoGetRunning == [step |-> "none", rows |-> Nothing]
GetSent == [step |-> "sent", rows |-> Nothing]

HoldingsInit ==
    /\ \E some \in Opening :
        hpRows = [h \in Hid |-> IF h \in some THEN [shares |-> MaxHeld, sold |-> FALSE]
                                ELSE NoHeld]
    /\ hp = [list |-> NoHeld, failed |-> FALSE, adding |-> 0,
             edit |-> NoHeld, sell |-> NoHeld, editLoading |-> FALSE,
             sellLoading |-> FALSE, missed |-> FALSE]
    /\ hpGet = GetSent /\ hpCalls = {} /\ hpSent = 0

-----------------------------------------------------------------------------
\* What the page shows: a skeleton before the first list, an error instead of
\* everything when the last read failed, the list otherwise.

ShowsList == hp.list # NoHeld /\ ~hp.failed
Shown(h) == IF hp.adding > 0 /\ h = Temp THEN 1 ELSE hp.list[h]
Listed == {h \in Hid \cup {Temp} : Shown(h) # NoHeld}
Quiet == hpCalls = {} /\ hpGet = NoGetRunning /\ ~hp.missed

\* A request is sent: what is open or on its way is no longer the whole story.
Send(op, id, shares, form) ==
    /\ hpSent < MaxSends
    /\ hpSent' = hpSent + 1
    /\ hpCalls' =
        {[c EXCEPT !.hasty = TRUE] : c \in hpCalls} \cup
        {[no |-> hpSent + 1, op |-> op, id |-> id, shares |-> shares, step |-> "sent",
          untouched |-> form # NoHeld /\ form.shares = shares,
          hasty |-> hpCalls # {} \/ (form # NoHeld /\ form.hasty)]}

Hurried(form) == IF form = NoHeld THEN NoHeld ELSE [form EXCEPT !.hasty = TRUE]

-----------------------------------------------------------------------------
\* Adding: the dialog closes at once, the list shows a temporary row.  The
\* dialog's submit calls handleAddHolding, a mutation of SWR's cache; reads begun before it ends are
\* dropped.
handleAddHolding ==
    /\ ShowsList
    /\ Send("add", Temp, 1, NoHeld)
    /\ hp' = [hp EXCEPT !.adding = hpSent + 1, !.edit = Hurried(@), !.sell = Hurried(@)]
    /\ hpGet' = IF hpGet.step = "none" THEN hpGet ELSE [GetSent EXCEPT !.step = "dropped"]
    /\ UNCHANGED hpRows

-----------------------------------------------------------------------------
\* The edit dialog (EditHoldingModal).

OpenEdit(h) ==
    /\ ShowsList /\ h \in Listed /\ hp.edit = NoHeld
    /\ hp' = [hp EXCEPT !.edit = [id |-> h, shares |-> Shown(h), hasty |-> ~Quiet]]
    /\ UNCHANGED <<hpRows, hpGet, hpCalls, hpSent>>

CloseEdit ==
    /\ ShowsList /\ hp.edit # NoHeld
    /\ hp' = [hp EXCEPT !.edit = NoHeld]
    /\ UNCHANGED <<hpRows, hpGet, hpCalls, hpSent>>

\* The form sends all of its fields, the number of shares as it was when the
\* dialog was opened unless the user typed another.
SubmitEdit(shares) ==
    /\ ShowsList /\ hp.edit # NoHeld /\ ~hp.editLoading
    /\ Send("edit", hp.edit.id, shares, hp.edit)
    /\ hp' = [hp EXCEPT !.editLoading = TRUE, !.edit = Hurried(@),
                        !.sell = Hurried(@)]
    /\ UNCHANGED <<hpRows, hpGet>>

\* The sell dialog (SellHoldingModal): at most the shares it was opened with.
OpenSell(h) ==
    /\ ShowsList /\ h \in Listed /\ hp.sell = NoHeld
    /\ hp' = [hp EXCEPT !.sell = [id |-> h, shares |-> Shown(h), hasty |-> ~Quiet]]
    /\ UNCHANGED <<hpRows, hpGet, hpCalls, hpSent>>

CloseSell ==
    /\ ShowsList /\ hp.sell # NoHeld
    /\ hp' = [hp EXCEPT !.sell = NoHeld]
    /\ UNCHANGED <<hpRows, hpGet, hpCalls, hpSent>>

SubmitSell(shares) ==
    /\ ShowsList /\ hp.sell # NoHeld /\ ~hp.sellLoading /\ shares <= hp.sell.shares
    /\ Send("sell", hp.sell.id, shares, NoHeld)
    /\ hp' = [hp EXCEPT !.sellLoading = TRUE, !.edit = Hurried(@)]
    /\ UNCHANGED <<hpRows, hpGet>>

\* The delete button, confirmed.
handleDelete(h) ==
    /\ ShowsList /\ h \in Listed
    /\ Send("delete", h, Shown(h), NoHeld)
    /\ hp' = [hp EXCEPT !.edit = Hurried(@), !.sell = Hurried(@)]
    /\ UNCHANGED <<hpRows, hpGet>>

\* mutateInit() without data: a new read replaces the one on its way.
Refresh ==
    /\ hp.list # NoHeld
    /\ hpGet = NoGetRunning
    /\ hpGet' = GetSent
    /\ UNCHANGED <<hpRows, hp, hpCalls, hpSent>>

-----------------------------------------------------------------------------
\* The server (see Portfolio): the whole of a holding cannot be sold, and one
\* that was sold from cannot be deleted, since the trades refer to it.

Serve(c) ==
    LET row == IF c.id = Temp THEN NoHeld ELSE hpRows[c.id]
        Answer(ok) == hpCalls' = (hpCalls \ {c}) \cup {[c EXCEPT !.step = ok]}
    IN  /\ c.step = "sent"
        /\ \/ /\ c.op = "add"
              /\ \E h \in Hid :
                  /\ hpRows[h] = NoHeld
                  /\ hpRows' = [hpRows EXCEPT ![h] = [shares |-> c.shares, sold |-> FALSE]]
                  /\ hpCalls' = (hpCalls \ {c}) \cup {[c EXCEPT !.step = "ok", !.id = h]}
           \/ /\ c.op = "edit" /\ row # NoHeld
              /\ hpRows' = [hpRows EXCEPT ![c.id].shares = c.shares]
              /\ Answer("ok")
           \/ /\ c.op = "sell" /\ row # NoHeld /\ c.shares < row.shares
              /\ hpRows' = [hpRows EXCEPT ![c.id] = [shares |-> @.shares - c.shares, sold |-> TRUE]]
              /\ Answer("ok")
           \/ /\ c.op = "delete" /\ row # NoHeld /\ ~row.sold
              /\ hpRows' = [hpRows EXCEPT ![c.id] = NoHeld]
              /\ Answer("ok")
           \/ UNCHANGED hpRows /\ Answer("error")
        /\ UNCHANGED <<hp, hpGet, hpSent>>

\* The answer of a request that took effect is lost: the page sees an error.
AnswerLost(c) ==
    /\ c.step = "ok"
    /\ hpCalls' = (hpCalls \ {c}) \cup {[c EXCEPT !.step = "error"]}
    /\ hp' = [hp EXCEPT !.missed = TRUE]
    /\ UNCHANGED <<hpRows, hpGet, hpSent>>

\* The latest addition ends the mutation: the list takes its row, or is rolled
\* back, and is read again; an earlier one changes nothing on the page and reads
\* nothing.
Added(c) ==
    /\ c.op = "add" /\ c.step # "sent"
    /\ IF hp.adding = c.no
       THEN /\ hp' = [hp EXCEPT !.adding = 0,
                                !.list = IF c.step = "ok" THEN [@ EXCEPT ![c.id] = c.shares] ELSE @]
            /\ hpGet' = GetSent
       ELSE hp' = [hp EXCEPT !.missed = TRUE] /\ UNCHANGED hpGet
    /\ hpCalls' = hpCalls \ {c}
    /\ UNCHANGED <<hpRows, hpSent>>

\* A mutant: nothing is read again.
EditedUnread(c) ==
    /\ c.op = "edit" /\ c.step # "sent"
    /\ hp' = [hp EXCEPT !.editLoading = FALSE, !.edit = IF c.step = "ok" THEN NoHeld ELSE @]
    /\ hpCalls' = hpCalls \ {c}
    /\ UNCHANGED <<hpRows, hpGet, hpSent>>

\* onSuccess reads everything again; onClose closes the dialog that is open.
Edited(c) ==
    /\ c.op = "edit" /\ c.step # "sent"
    /\ IF c.step = "ok"
       THEN /\ hp' = [hp EXCEPT !.editLoading = FALSE, !.edit = NoHeld]
            /\ hpGet' = GetSent
       ELSE /\ hp' = [hp EXCEPT !.editLoading = FALSE]
            /\ UNCHANGED hpGet
    /\ hpCalls' = hpCalls \ {c}
    /\ UNCHANGED <<hpRows, hpSent>>

Sold(c) ==
    /\ c.op = "sell" /\ c.step # "sent"
    /\ IF c.step = "ok"
       THEN /\ hp' = [hp EXCEPT !.sellLoading = FALSE, !.sell = NoHeld]
            /\ hpGet' = GetSent
       ELSE /\ hp' = [hp EXCEPT !.sellLoading = FALSE]
            /\ UNCHANGED hpGet
    /\ hpCalls' = hpCalls \ {c}
    /\ UNCHANGED <<hpRows, hpSent>>

\* A deletion that fails is not shown.
Deleted(c) ==
    /\ c.op = "delete" /\ c.step # "sent"
    /\ hpGet' = IF c.step = "ok" THEN GetSent ELSE hpGet
    /\ hpCalls' = hpCalls \ {c}
    /\ UNCHANGED <<hpRows, hp, hpSent>>

-----------------------------------------------------------------------------
\* SWR reads the list.  A read that an addition overtook is dropped; a failed
\* read hides the page (its dialogs unmount) until one succeeds.

InitServed ==
    /\ hpGet.step = "sent"
    /\ hpGet' = [step |-> "served",
                 rows |-> [h \in Hid \cup {Temp} |->
                            IF h \in Hid /\ hpRows[h] # NoHeld THEN hpRows[h].shares ELSE NoHeld]]
    /\ UNCHANGED <<hpRows, hp, hpCalls, hpSent>>

ListArrives ==
    /\ hpGet.step \in {"served", "dropped"}
    /\ hp' = IF hpGet.step = "dropped" \/ hp.adding > 0 THEN hp
             ELSE [hp EXCEPT !.list = hpGet.rows, !.failed = FALSE]
    /\ hpGet' = NoGetRunning
    /\ UNCHANGED <<hpRows, hpCalls, hpSent>>

ListNotRead ==
    /\ hpGet.step \in {"sent", "served"}
    /\ hp' = [hp EXCEPT !.failed = TRUE, !.editLoading = FALSE, !.sellLoading = FALSE]
    /\ hpGet' = NoGetRunning
    /\ UNCHANGED <<hpRows, hpCalls, hpSent>>

\* onErrorRetry, and the button of the error screen.
RetryList ==
    /\ hp.failed /\ hpGet = NoGetRunning
    /\ hpGet' = GetSent
    /\ UNCHANGED <<hpRows, hp, hpCalls, hpSent>>

HoldingsNext ==
    \/ handleAddHolding \/ CloseEdit \/ CloseSell \/ Refresh
    \/ \E h \in Hid \cup {Temp} : OpenEdit(h) \/ OpenSell(h) \/ handleDelete(h)
    \/ \E n \in Held : SubmitEdit(n) \/ SubmitSell(n)
    \/ \E c \in hpCalls : Serve(c) \/ AnswerLost(c) \/ Added(c) \/ Edited(c) \/ Sold(c) \/ Deleted(c)
    \/ InitServed \/ ListArrives \/ ListNotRead \/ RetryList

HoldingsSpec == HoldingsInit /\ [][HoldingsNext]_holdingsVars

-----------------------------------------------------------------------------

\* When nothing is on its way and the page is shown, its list is the server's,
\* unless the answer of a change was lost (the page then does not read again) or
\* an addition was begun during another (SWR ignores the end of the first one,
\* whose row may have come after the read that the second one made).
SettledListIsTrue ==
    Quiet /\ ShowsList =>
        \A h \in Hid : hp.list[h] = IF hpRows[h] = NoHeld THEN NoHeld ELSE hpRows[h].shares

\* An edit that leaves the number of shares alone changes no number of shares,
\* unless its dialog was opened while something was on its way, or something was
\* sent before it was served: the form sends the number it was opened with.
KeepsShares ==
    \A c \in hpCalls :
        c.op = "edit" /\ c.step = "sent" /\ c.untouched /\ ~c.hasty /\ c \notin hpCalls' =>
            hpRows' = hpRows \/ \E k \in hpCalls' : k.no = c.no /\ k.hasty

UntouchedEditKeepsShares == [][KeepsShares]_holdingsVars

=============================================================================
