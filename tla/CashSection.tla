------------------------------ MODULE CashSection ------------------------------
(***************************************************************************)
(* The cash balances of the holdings page (frontend app/holdings/page.tsx, *)
(* CashBalanceSection) and their rows on the server (Go repository/        *)
(* cash_repo.go).  Each change is sent by itself, none waits for another,  *)
(* and the answer of each reads the list again.                            *)
(***************************************************************************)
EXTENDS Integers, FiniteSets, Functions

CONSTANTS
    Balance,        \* the ids of the balances
    InDollars,      \* those whose currency is USD; the others are in yen
    CashAmount,     \* what a balance may hold
    CashRate,       \* yen per dollar
    MaxChanges,     \* a bound: changes sent
    NoBalance       \* null

ASSUME CashConstants ==
    /\ IsFiniteSet(Balance) /\ InDollars \subseteq Balance /\ NoBalance \notin Balance /\ MaxChanges \in Nat
    /\ CashRate \in Nat \ {0} /\ \A a \in CashAmount : a \in Nat /\ a % CashRate = 0

VARIABLES
    csRows,     \* the balances on the server: what each holds
    cs,         \* the section: the list shown, the row edited, the form of a new one
    csCalls,    \* requests in flight: [kind, id, amount, at, answer, list]
    csSent,     \* how many changes were sent
    csMissed    \* an answer was lost since the server last gave the list

cashVars == <<csRows, cs, csCalls, csSent, csMissed>>

\* What some balances hold.
CashList == UNION {[ids -> CashAmount] : ids \in SUBSET Balance}
CashState == [list: CashList, editId: Balance \cup {NoBalance}, adding: BOOLEAN]
CashRequest ==
    [kind: {"create", "update", "delete", "list"}, id: Balance \cup {NoBalance}, amount: CashAmount \cup {0},
     at: 0..MaxChanges, answer: {"none", "done", "refused"}, list: CashList]

CashTypeOK ==
    /\ csRows \in CashList /\ cs \in CashState /\ csCalls \subseteq CashRequest
    /\ \A c \in csCalls : c.kind # "list" => c.id \in Balance /\ c.amount \in CashAmount
    /\ csSent \in 0..MaxChanges /\ csMissed \in BOOLEAN

CashInit ==
    /\ csRows = <<>> /\ cs = [list |-> <<>>, editId |-> NoBalance, adding |-> FALSE]
    /\ csCalls = {} /\ csSent = 0 /\ csMissed = FALSE

-----------------------------------------------------------------------------
(* The section. *)

\* The button of a row, of the heading, and the two that close a form.
setEditId(id) == id \in DOMAIN cs.list /\ cs.editId # id /\ cs' = [cs EXCEPT !.editId = id]
OpenCashForm == cs' = [cs EXCEPT !.adding = TRUE]
CloseCashForm == cs' \in {[cs EXCEPT !.editId = NoBalance], [cs EXCEPT !.adding = FALSE]}

CashCall(kind, id, amount) == [kind |-> kind, id |-> id, amount |-> amount, at |-> csSent, answer |-> "none", list |-> <<>>]

\* handleAdd, the form of a row, handleDelete: the forms stay while the request is on its
\* way, and may be sent again.
handleAdd(id, amount) == cs.adding /\ csCalls' = csCalls \cup {CashCall("create", id, amount)}
handleUpdate(id, amount) ==
    /\ cs.editId = id /\ id \in DOMAIN cs.list /\ csCalls' = csCalls \cup {CashCall("update", id, amount)}
handleDeleteCash(id) ==
    /\ id \in DOMAIN cs.list /\ cs.editId # id
    /\ \E amount \in {cs.list[id]} : csCalls' = csCalls \cup {CashCall("delete", id, amount)}

\* mutate(): one read is in flight, a later one takes its place.
mutate(calls) == {c \in calls : c.kind # "list"} \cup {CashCall("list", NoBalance, 0)}

\* The answer of a change closes the form (that of any row) and reads the list again.  A
\* refusal leaves everything as it was.
ChangeAnswered(c) ==
    /\ c \in csCalls /\ c.kind # "list" /\ c.answer \in {"done", "refused"}
    /\ IF c.answer = "refused" THEN csCalls' = csCalls \ {c} /\ UNCHANGED cs
       ELSE /\ csCalls' = mutate(csCalls \ {c})
            /\ cs' = CASE c.kind = "create" -> [cs EXCEPT !.adding = FALSE]
                       [] c.kind = "update" -> [cs EXCEPT !.editId = NoBalance]
                       [] c.kind = "delete" -> cs
ListAnswered(c) ==
    /\ c \in csCalls /\ c.kind = "list" /\ c.answer # "none"
    /\ cs' = [cs EXCEPT !.list = c.list] /\ csCalls' = csCalls \ {c}

-----------------------------------------------------------------------------
(* The server. *)

Answer(c, answer) ==
    csCalls' = (csCalls \ {c}) \cup {[c EXCEPT !.answer = answer, !.list = IF c.kind = "list" THEN csRows ELSE @]}

CreateCash(c) ==
    /\ c.kind = "create" /\ c.id \notin DOMAIN csRows
    /\ csRows' = [i \in DOMAIN csRows \cup {c.id} |-> IF i = c.id THEN c.amount ELSE csRows[i]]
    /\ Answer(c, "done")
UpdateCash(c) ==
    /\ c.kind = "update"
    /\ IF c.id \in DOMAIN csRows THEN csRows' = [csRows EXCEPT ![c.id] = c.amount] /\ Answer(c, "done")
       ELSE UNCHANGED csRows /\ Answer(c, "refused")
DeleteCash(c) ==
    /\ c.kind = "delete"
    /\ IF c.id \in DOMAIN csRows
       THEN csRows' = [i \in DOMAIN csRows \ {c.id} |-> csRows[i]] /\ Answer(c, "done")
       ELSE UNCHANGED csRows /\ Answer(c, "refused")
ListCash(c) == c.kind = "list" /\ Answer(c, "done") /\ UNCHANGED csRows

CashServed(c) ==
    /\ c \in csCalls /\ c.answer = "none" /\ UNCHANGED <<cs, csSent>>
    /\ csMissed' = (csMissed /\ c.kind # "list")
    /\ CreateCash(c) \/ UpdateCash(c) \/ DeleteCash(c) \/ ListCash(c)

\* The request or its answer is lost: handleAdd says nothing of it, the others leave an
\* unhandled rejection; nothing is read again.
CashLost(c) ==
    /\ c \in csCalls /\ c.answer # "refused" /\ csCalls' = csCalls \ {c} /\ csMissed' = TRUE
    /\ UNCHANGED <<csRows, cs, csSent>>

SectionStep ==
    /\ UNCHANGED <<csCalls, csMissed>>
    /\ (\E id \in Balance : setEditId(id)) \/ OpenCashForm \/ CloseCashForm
    /\ UNCHANGED <<csRows, csSent>>
Submit ==
    /\ csSent < MaxChanges /\ csSent' = csSent + 1 /\ UNCHANGED <<csRows, cs, csMissed>>
    /\ \E id \in Balance :
        handleDeleteCash(id) \/ \E amount \in CashAmount : handleAdd(id, amount) \/ handleUpdate(id, amount)
Received ==
    \E c \in csCalls :
        /\ ChangeAnswered(c) \/ ListAnswered(c)
        /\ UNCHANGED <<csRows, csSent, csMissed>>

CashNext == SectionStep \/ Submit \/ Received \/ \E c \in csCalls : CashServed(c) \/ CashLost(c)

CashSpec == CashInit /\ [][CashNext]_cashVars

-----------------------------------------------------------------------------

\* The two totals of the heading.
totalJpy ==
    SumFunction([i \in DOMAIN cs.list |-> IF i \in InDollars THEN cs.list[i] * CashRate ELSE cs.list[i]])
totalUsd ==
    SumFunction([i \in DOMAIN cs.list |-> IF i \in InDollars THEN cs.list[i] ELSE cs.list[i] \div CashRate])

\* What the section shows: the totals, the rows (one of them as a form), the form of a
\* new row, or that there is nothing yet.
CashView ==
    [rows |-> DOMAIN cs.list \ {cs.editId}, form |-> {cs.editId} \cap DOMAIN cs.list, adding |-> cs.adding,
     hint |-> cs.list = <<>> /\ ~cs.adding]

-----------------------------------------------------------------------------

\* With nothing on its way and no answer lost, the list is the server's, whatever was
\* sent twice or crossed; and every row of it is shown, as a row or as a form.
SettledCashIsTrue ==
    /\ csCalls = {} /\ ~csMissed => cs.list = csRows
    /\ CashView.rows \cup CashView.form = DOMAIN cs.list
    /\ CashView.hint => CashView.form = {}

\* The two totals are one amount.
CashTotalsAgree == totalJpy = totalUsd * CashRate

=============================================================================
