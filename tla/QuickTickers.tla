---------------------------- MODULE QuickTickers ----------------------------
(***************************************************************************)
(* The ticker bar of the signals page (frontend app/signals/page.tsx) over *)
(* the watchlist API.  The page edits its own copy at once, sends the edit, *)
(* and asks SWR to read the lists again when the edit is answered; an      *)
(* account with no list gets the tickers that localStorage holds.          *)
(***************************************************************************)
EXTENDS Watchlist

CONSTANTS
    me,                  \* the signed-in account
    Visits,              \* a bound: how many requests other clients send
    Typed,               \* what its owner types or clicks on this page
    saved,               \* localStorage's quickTickers
    defaultQuickTickers, \* what the bar shows before anything is loaded
    NoData               \* SWR holds no data yet

VARIABLES
    quickTickers,        \* the tickers the bar shows
    migrated,            \* the migrated ref
    wlData,              \* what SWR holds for /api/watchlist
    get,                 \* SWR's GET: "none" in flight, "asked", "answered", "error"
    answer,              \* the lists it was answered with
    sent,                \* the requests of this page
    edits,               \* those of its edits that are not answered yet
    migration            \* those of Promise.all(local.map(addWatchlistTicker))

pageVars == <<quickTickers, migrated, wlData, get, answer, sent, edits, migration>>

ASSUME Page ==
    /\ me \in User /\ Visits \in Nat /\ Typed \subseteq Text
    /\ saved \in Seq(Text) /\ defaultQuickTickers \in Seq(Text)
    /\ \A x \in Text : Upper(Upper(x)) = Upper(x)
    /\ IsFiniteSet(ListId)

Listed == [id: ListId, row: Row]

ASSUME NothingLoaded == NoData \notin Seq(Listed)

PageTypeOK ==
    /\ TypeOK
    /\ quickTickers \in Seq(Text) /\ migrated \in BOOLEAN
    /\ wlData \in Seq(Listed) \cup {NoData} /\ answer \in Seq(Listed)
    /\ get \in {"none", "asked", "answered", "error"}
    /\ edits \subseteq sent /\ migration \subseteq sent /\ sent \subseteq Request

PageInit ==
    /\ Init
    /\ quickTickers = defaultQuickTickers
    /\ migrated = FALSE
    /\ wlData = NoData /\ get = "asked" /\ answer = <<>>
    /\ sent = {} /\ edits = {} /\ migration = {}

\* What GET /api/watchlist may answer: the default lists first, the others by
\* name; PostgreSQL may return lists that tie in either order.
ListByUserID(u) ==
    {s \in SetToSeqs({[id |-> h, row |-> lists[h]] :
                        h \in {g \in ListId : lists[g] # NoRow /\ lists[g].user = u}}) :
        \A i, j \in DOMAIN s : s[j].row.is_default /\ i < j => s[i].row.is_default}

\* The tickers of the first default list, or else of the first list.
Shown(s) ==
    LET defaults == {i \in DOMAIN s : s[i].row.is_default}
    IN  s[IF defaults = {} THEN 1 ELSE Min(defaults)].row.tickers

-----------------------------------------------------------------------------

Edit(op, t) ==
    [op |-> op, user |-> me, list |-> Default, texts |-> <<>>, is_default |-> FALSE,
     sets |-> {}, text |-> t]

AddQuickTicker(r, text) ==
    LET tick == Upper(text)
    IN  /\ ~Contains(quickTickers, tick)
        /\ quickTickers' = Append(quickTickers, tick)
        /\ Receive(r, Edit("add", tick))
        /\ sent' = sent \cup {r} /\ edits' = edits \cup {r}
        /\ UNCHANGED <<migrated, wlData, get, answer, migration>>

RemoveQuickTicker(r, t) ==
    /\ Contains(quickTickers, t)
    /\ quickTickers' = without(quickTickers, t)
    /\ Receive(r, Edit("remove", t))
    /\ sent' = sent \cup {r} /\ edits' = edits \cup {r}
    /\ UNCHANGED <<migrated, wlData, get, answer, migration>>

\* mutate() starts a new GET; SWR ignores the answer of one started before.
Mutate == get' = "asked" /\ answer' = <<>>

\* Mutant of EditAnswered: the page does not read the lists again.
EditForgotten(r) ==
    /\ r \in edits /\ phase[r] \in Answer
    /\ edits' = edits \ {r}
    /\ UNCHANGED <<vars, quickTickers, migrated, wlData, get, answer, sent, migration>>

\* The request of an edit comes back; on success and on failure alike, mutateWl().
EditAnswered(r) ==
    /\ r \in edits /\ phase[r] \in Answer
    /\ edits' = edits \ {r}
    /\ Mutate
    /\ UNCHANGED <<vars, quickTickers, migrated, wlData, sent, migration>>

\* Promise.all of the migration: mutateWl() only if every add succeeded.
MigrationAnswered ==
    /\ migration # {} /\ \A r \in migration : phase[r] \in Answer
    /\ migration' = {}
    /\ IF \A r \in migration : phase[r] = "ok" THEN Mutate ELSE UNCHANGED <<get, answer>>
    /\ UNCHANGED <<vars, quickTickers, migrated, wlData, sent, edits>>

-----------------------------------------------------------------------------

\* The server answers SWR's GET.
ServeGet ==
    /\ get = "asked"
    /\ answer' \in ListByUserID(me)
    /\ get' = "answered"
    /\ UNCHANGED <<vars, quickTickers, migrated, wlData, sent, edits, migration>>

GetFails ==
    /\ get \in {"asked", "answered"}
    /\ get' = "error" /\ answer' = <<>>
    /\ UNCHANGED <<vars, quickTickers, migrated, wlData, sent, edits, migration>>

\* SWR tries again after an error, on reconnecting, and when the page is shown.
Revalidate ==
    /\ get \in {"none", "error"}
    /\ Mutate
    /\ UNCHANGED <<vars, quickTickers, migrated, wlData, sent, edits, migration>>

\* The migration effect: one add per saved ticker, all of them at once.
Migrates(s) == ~migrated /\ s = <<>> /\ saved # <<>>

Migrate ==
    \E r \in [DOMAIN saved -> {q \in Request : phase[q] = "idle"}] :
        LET its(q) == CHOOSE i \in DOMAIN saved : r[i] = q
        IN  /\ IsInjective(r)
            /\ migration' = Range(r) /\ sent' = sent \cup Range(r)
            /\ migrated' = TRUE
            /\ job' = [q \in Request |-> IF q \in Range(r) THEN Edit("add", saved[its(q)])
                                         ELSE job[q]]
            /\ phase' = [q \in Request |-> IF q \in Range(r) THEN "received" ELSE phase[q]]
            /\ UNCHANGED <<lists, list, read, tickers>>

\* The answer arrives.  SWR keeps the object it holds if the new one is deeply
\* equal, and then no effect of the page runs; otherwise the bar takes the
\* default list, unless there is no list, and then the migration may start.
GetAnswered ==
    /\ get = "answered"
    /\ get' = "none" /\ answer' = <<>>
    /\ wlData' = answer
    /\ quickTickers' = IF answer = wlData \/ answer = <<>> THEN quickTickers ELSE Shown(answer)
    /\ \/ answer # wlData /\ Migrates(answer) /\ Migrate
       \/ /\ answer # wlData => ~Migrates(answer)
          /\ UNCHANGED <<vars, migrated, sent, migration>>
    /\ UNCHANGED edits

-----------------------------------------------------------------------------

\* The server works on any request; another client, another page of the same
\* account or another account, sends one.
Server == (\E r \in Request : Serve(r) \/ Abort(r)) /\ UNCHANGED pageVars

Other ==
    /\ Cardinality({r \in Request \ sent : phase[r] # "idle"}) < Visits
    /\ \E r \in Request, c \in Calls : Receive(r, c)
    /\ UNCHANGED pageVars

PageNext ==
    \/ Server \/ Other
    \/ \E r \in Request : \E x \in Typed : AddQuickTicker(r, x) \/ RemoveQuickTicker(r, x)
    \/ \E r \in Request : EditAnswered(r)
    \/ MigrationAnswered \/ ServeGet \/ GetFails \/ Revalidate \/ GetAnswered

PageSpec == PageInit /\ [][PageNext]_<<vars, pageVars>>

-----------------------------------------------------------------------------

\* Nothing the page sent is on its way, no one else has changed anything, and
\* the account has a list to show, the default one.
Settled ==
    /\ edits = {} /\ migration = {} /\ get = "none"
    /\ \A r \in Request : phase[r] # "idle" => r \in sent
    /\ Cardinality(Defaults(me)) = 1

BarIsTrue == \A h \in Defaults(me) : quickTickers = lists[h].tickers

\* However the adds and removes clicked on the page overlap and reorder, once
\* they have all succeeded and the lists have been read again the bar shows what
\* the server holds, although it was edited before any of them was answered.
SettledPageIsTrue ==
    Settled /\ (\A r \in sent : phase[r] = "ok") => BarIsTrue

\* signals/page.tsx:212 says of the mutateWl() in the catch block that when the
\* API fails it returns to the backend's truth: a bar edited in vain is restored.
FailedEditIsUndone ==
    Settled /\ ~migrated /\ (\A r \in sent : phase[r] # "empty") => BarIsTrue

\* All the requests there have been are adds of this page, and they succeeded.
OnlyMigrated ==
    \A r \in Request : phase[r] # "idle" => r \in sent /\ phase[r] = "ok" /\ job[r].op = "add"

\* signals/page.tsx:123 "One-time migration: localStorage -> backend on first
\* auth": once it has succeeded and been read back, the bar shows every ticker.
MigrationKeepsTickers ==
    migrated /\ migration = {} /\ edits = {} /\ get = "none" /\ OnlyMigrated
      => Range(saved) \subseteq Range(quickTickers)
=============================================================================
