----------------------------- MODULE AdminConsole -----------------------------
(* The admin console behind the gate: its tabs, the tables of users and of    *)
(* feature flags that are edited in place, and the three that are only read   *)
(* (src/app/admin-frontend/src/app/page.tsx 177-763, lib/api.ts 181-249).     *)
(*                                                                            *)
(* An edit is a request and then mutate(): the table is read again and the    *)
(* edit's control stays busy until that read has ended.  Where no hook of the *)
(* table is mounted mutate() sends nothing, and only drops the answer of a    *)
(* read under way.  One value of updatingId (toggling) serves all the rows of *)
(* a table, and a tab that is left forgets it, while its edits go on.  Of     *)
(* several reads of a table SWR keeps the answer of the one sent last.        *)
EXTENDS Naturals, FiniteSets, FiniteSetsExt, Functions

CONSTANTS
    AdminUser,     \* the users
    Flag,          \* keys of feature flags
    MaxEdits,      \* edits and refreshes, a bound of the model
    NoRow          \* no row; a table not read yet

ASSUME ConsoleAssumption ==
    /\ MaxEdits \in Nat \ {0} /\ IsFiniteSet(AdminUser)
    /\ NoRow \notin AdminUser \cup Flag /\ AdminUser \cap Flag = {}

VARIABLES
    acRows,        \* the server: users, flags
    acLog,         \* its latest audit entry
    acPage,        \* tab shown, tables as read, busy rows, form of a new flag
    acReads,       \* reads in flight
    acEdits,       \* edits in flight
    acSent         \* edits and refreshes so far
consoleVars == <<acRows, acLog, acPage, acReads, acEdits, acSent>>

PLANS == {"free", "pro_trial", "pro", "demo"}
Tables == {"users", "flags"}
TABS == Tables \cup {"stats", "audit", "batch"}
RowsOf(t) == IF t = "users" THEN AdminUser ELSE Flag
UserRow == [plan: PLANS, active: BOOLEAN]
FlagState == {"absent", "OFF", "ON"}
Contents == [users |-> [AdminUser -> UserRow], flags |-> [Flag -> FlagState]]
RowStates(t) == IF t = "users" THEN UserRow ELSE FlagState

\* Row by row, what a table holds; what an edit sets; the page, a read and an edit.
TableContents == Contents["users"] \cup Contents["flags"]
Setting ==
    [field: {"plan"}, becomes: PLANS] \cup [field: {"active"}, becomes: BOOLEAN]
        \cup [field: {"enabled", "create"}, becomes: {"OFF", "ON"}]
ConsoleState ==
    [tab: TABS, showCreate: BOOLEAN, creating: BOOLEAN, busy: [Tables -> AdminUser \cup Flag \cup {NoRow}],
     read: [Tables -> TableContents \cup {NoRow}], crossed: [Tables -> BOOLEAN], missed: [Tables -> BOOLEAN],
     latest: [Tables -> Nat], opened: Nat]
ConsoleRead == [table: Tables, no: Nat, step: {"sent", "served"}, rows: TableContents \cup {NoRow}]
ConsoleEdit ==
    [no: Nat, table: Tables, row: AdminUser \cup Flag, to: Setting,
     step: {"sent", "applied", "failed", "reading"}, read: Nat]

ConsoleTypeOK ==
    /\ acRows \in [users: Contents["users"], flags: Contents["flags"]]
    /\ acLog # NoRow => acLog.table \in Tables /\ {acLog.old, acLog.new} \subseteq RowStates(acLog.table)
    /\ acPage \in ConsoleState
    /\ \A t \in Tables :
          acPage.busy[t] \in RowsOf(t) \cup {NoRow} /\ acPage.read[t] \in Contents[t] \cup {NoRow}
    /\ acEdits \subseteq ConsoleEdit
    /\ \A e \in acEdits :
          e.row \in RowsOf(e.table) /\ (e.table = "users" <=> e.to.field \in {"plan", "active"})
    /\ acReads \subseteq ConsoleRead
    /\ \A r \in acReads : r.step = "served" => r.rows \in Contents[r.table]
    /\ acSent \in 0 .. MaxEdits

\* A read of a table begins; the answer of an earlier one will be ignored.
NewRead(t) == [table |-> t, no |-> acPage.latest[t] + 1, step |-> "sent", rows |-> NoRow]
ConsoleReading(t) == {r \in acReads : r.table = t}
Latest(t) == {r \in acReads : r.table = t /\ r.no = acPage.latest[t]}
Editing(t) == {e \in acEdits : e.table = t}
\* The edits whose controls are on the page: sent since the tab was opened.
Mounted(t) == {e \in Editing(t) : e.no >= acPage.opened}

\* A table's first read has just begun: the users', or the flags' of a console
\* that left the users before their read, which then failed.
ConsoleInit ==
    /\ acRows \in [users: [AdminUser -> {[plan |-> "free", active |-> TRUE]}],
                   flags: [Flag -> {"absent", "OFF"}]]
    /\ acLog = NoRow /\ acEdits = {} /\ acSent = 0
    /\ \E t \in Tables :
          /\ acPage = [tab |-> t, read |-> [x \in Tables |-> NoRow], busy |-> [x \in Tables |-> NoRow],
                       crossed |-> [x \in Tables |-> FALSE], missed |-> [x \in Tables |-> FALSE],
                       latest |-> [x \in Tables |-> IF x = t THEN 1 ELSE 0],
                       showCreate |-> FALSE, creating |-> FALSE, opened |-> 0]
          /\ acReads = {[table |-> t, no |-> 1, step |-> "sent", rows |-> NoRow]}

-----------------------------------------------------------------------------
\* What the tabs show.
isLoading(t) == acPage.read[t] = NoRow
Lines(t) == IF isLoading(t) THEN {}
            ELSE {r \in RowsOf(t) : t = "users" \/ acPage.read[t][r] # "absent"}
Disabled(t, r) == acPage.busy[t] = r

\* The cards of the users tab: all of them, and those of three plans.
planCounts(p) == Cardinality({u \in Lines("users") : acPage.read.users[u].plan = p})
Cards == [total |-> Cardinality(Lines("users")),
          plan |-> [p \in {"pro", "pro_trial", "free"} |-> planCounts(p)]]

\* The rows below them: those that match the search and the plan chosen.
filteredUsers(found, planFilter) ==
    {u \in Lines("users") : u \in found /\ planFilter \in {"all", acPage.read.users[u].plan}}
UserLine(u) == [plan |-> acPage.read.users[u].plan,
                state |-> IF acPage.read.users[u].active THEN "Active" ELSE "Frozen",
                disabled |-> Disabled("users", u)]

\* The flags: each with its state and its switch, and the form of a new one.
FlagLine(f) == [state |-> acPage.read.flags[f], disabled |-> Disabled("flags", f)]
OffersCreate == acPage.showCreate /\ ~acPage.creating

\* A line of the audit log: what changed, only where old and new are known.
AuditChange(entry) ==
    IF entry.table = "flags"
    THEN IF entry.old = "absent" THEN {} ELSE {<<"enabled", entry.old, entry.new>>}
    ELSE {<<k, entry.old[k], entry.new[k]>> : k \in {x \in {"plan", "active"} : entry.old[x] # entry.new[x]}}

\* The batch log's badge, and the bars of the signups: as high as the count
\* is of the largest, at least four pixels once there is any.
BatchStatusStyle(status) ==
    CASE status = "success" -> "emerald" [] status = "running" -> "blue"
      [] status = "error" -> "red" [] OTHER -> "yellow"
StatsBar(days, d) ==
    LET most == Max({days[x] : x \in DOMAIN days} \cup {1})
    IN  [percent |-> (days[d] * 100) \div most, floor |-> IF days[d] > 0 THEN 4 ELSE 0]

-----------------------------------------------------------------------------
\* A tab is opened: the last table is left, with what was busy there; the new
\* one is read unless its latest read is under way.
setConsoleTab(t) ==
    /\ t # acPage.tab
    /\ acSent < MaxEdits /\ acSent' = acSent + 1
    /\ LET fresh == t \in Tables /\ Latest(t) = {}
       IN  /\ acPage' = [acPage EXCEPT
                  !.tab = t, !.showCreate = FALSE, !.creating = FALSE, !.opened = acSent + 1,
                  !.busy = [x \in Tables |-> NoRow], !.crossed = [x \in Tables |-> FALSE],
                  !.latest = IF fresh THEN [@ EXCEPT ![t] = acPage.latest[t] + 1] ELSE @]
           /\ acReads' = IF fresh THEN acReads \cup {NewRead(t)} ELSE acReads
    /\ UNCHANGED <<acRows, acLog, acEdits>>

Edit(t, r, to) ==
    /\ acPage.tab = t /\ r \in RowsOf(t) /\ acSent < MaxEdits
    /\ acSent' = acSent + 1
    /\ acEdits' = acEdits \cup {[no |-> acSent, table |-> t, row |-> r, to |-> to, step |-> "sent", read |-> 0]}
    /\ UNCHANGED <<acRows, acLog, acReads>>
Busy(t, r) == [acPage EXCEPT !.busy[t] = r, !.crossed[t] = @ \/ Mounted(t) # {}]

handlePlanChange(u, newPlan) ==
    /\ u \in Lines("users") /\ ~Disabled("users", u) /\ newPlan # acPage.read.users[u].plan
    /\ Edit("users", u, [field |-> "plan", becomes |-> newPlan])
    /\ acPage' = Busy("users", u)
handleToggleActive(u) ==
    /\ u \in Lines("users") /\ ~Disabled("users", u)
    /\ Edit("users", u, [field |-> "active", becomes |-> ~acPage.read.users[u].active])
    /\ acPage' = Busy("users", u)
handleToggle(f) ==
    /\ f \in Lines("flags") /\ ~Disabled("flags", f)
    /\ Edit("flags", f, [field |-> "enabled", becomes |-> IF acPage.read.flags[f] = "ON" THEN "OFF" ELSE "ON"])
    /\ acPage' = Busy("flags", f)
ShowCreate ==
    /\ acPage.tab = "flags"
    /\ acPage' = [acPage EXCEPT !.showCreate = ~@]
    /\ UNCHANGED <<acRows, acLog, acReads, acEdits, acSent>>
handleCreate(f) ==
    /\ OffersCreate
    /\ Edit("flags", f, [field |-> "create", becomes |-> "OFF"])
    /\ acPage' = [acPage EXCEPT !.creating = TRUE, !.crossed["flags"] = @ \/ Mounted("flags") # {}]

\* The button of the users tab.
handleUsersRefresh ==
    /\ acPage.tab = "users" /\ acSent < MaxEdits
    /\ acSent' = acSent + 1
    /\ acReads' = acReads \cup {NewRead("users")}
    /\ acPage' = [acPage EXCEPT !.latest["users"] = @ + 1]
    /\ UNCHANGED <<acRows, acLog, acEdits>>

-----------------------------------------------------------------------------
\* The server applies an edit and notes it, with the row as it was.
New(e, old) ==
    IF e.table = "users" THEN [old EXCEPT ![e.to.field] = e.to.becomes] ELSE e.to.becomes
Applies(e) == e.table = "flags" => (e.to.field = "create") = (acRows.flags[e.row] = "absent")
ServeConsole(e) ==
    /\ e.step = "sent"
    /\ \/ /\ Applies(e)
          /\ acRows' = [acRows EXCEPT ![e.table][e.row] = New(e, @)]
          /\ acLog' = [table |-> e.table, old |-> acRows[e.table][e.row], new |-> New(e, acRows[e.table][e.row])]
          /\ \E step \in {"applied", "failed"} :       \* the answer may be lost
                /\ acEdits' = (acEdits \ {e}) \cup {[e EXCEPT !.step = step]}
                /\ acPage' = [acPage EXCEPT !.missed[e.table] = @ \/ step = "failed"]
       \/ /\ acEdits' = (acEdits \ {e}) \cup {[e EXCEPT !.step = "failed"]}
          /\ UNCHANGED <<acRows, acLog, acPage>>
    /\ UNCHANGED <<acReads, acSent>>

\* mutate(): the table is read again before the control is released, if it is
\* shown; if not, the read under way is dropped and none is sent.
ConsoleAnswered(e) ==
    /\ e.step = "applied"
    /\ acEdits' = (acEdits \ {e}) \cup {[e EXCEPT !.step = "reading", !.read = acPage.latest[e.table] + 1]}
    /\ acReads' = IF acPage.tab = e.table THEN acReads \cup {NewRead(e.table)} ELSE acReads
    /\ acPage' = [acPage EXCEPT !.latest[e.table] = @ + 1]
    /\ UNCHANGED <<acRows, acLog, acSent>>

\* The control is released if it is still there, whichever row is busy by then.
Released(e) ==
    IF e.no < acPage.opened THEN acPage
    ELSE [acPage EXCEPT
            !.busy[e.table] = IF e.to.field = "create" THEN @ ELSE NoRow,
            !.creating = @ /\ e.to.field # "create",
            !.showCreate = @ /\ (e.to.field # "create" \/ e.step = "failed"),
            !.crossed[e.table] = @ /\ Mounted(e.table) # {e}]
Done(e) ==
    /\ e.step = "failed" \/ (e.step = "reading" /\ \A r \in ConsoleReading(e.table) : r.no # e.read)
    /\ acEdits' = acEdits \ {e} /\ acPage' = Released(e)
    /\ UNCHANGED <<acRows, acLog, acReads, acSent>>

ReadServed(r) ==
    /\ r.step = "sent"
    /\ acReads' = (acReads \ {r}) \cup {[r EXCEPT !.step = "served", !.rows = acRows[r.table]]}
    /\ UNCHANGED <<acRows, acLog, acPage, acEdits, acSent>>
ReadArrives(r) ==
    /\ r.step = "served"
    /\ acReads' = acReads \ {r}
    /\ acPage' = IF r.no # acPage.latest[r.table] THEN acPage
                 ELSE [acPage EXCEPT !.read[r.table] = r.rows]
    /\ UNCHANGED <<acRows, acLog, acEdits, acSent>>
ReadFails(r) ==
    /\ acReads' = acReads \ {r}
    /\ acPage' = [acPage EXCEPT !.missed[r.table] = @ \/ r.no = acPage.latest[r.table]]
    /\ UNCHANGED <<acRows, acLog, acEdits, acSent>>

ConsoleNext ==
    \/ \E t \in TABS : setConsoleTab(t)
    \/ \E u \in AdminUser, plan \in {"free", "demo"} : handlePlanChange(u, plan)
    \/ \E u \in AdminUser : handleToggleActive(u)
    \/ \E f \in Flag : handleToggle(f)
    \/ ShowCreate
    \/ \E f \in Flag : handleCreate(f)
    \/ handleUsersRefresh
    \/ \E e \in acEdits : ServeConsole(e)
    \/ \E e \in acEdits : ConsoleAnswered(e)
    \/ \E e \in acEdits : Done(e)
    \/ \E r \in acReads : ReadServed(r)
    \/ \E r \in acReads : ReadArrives(r)
    \/ \E r \in acReads : ReadFails(r)
ConsoleSpec == ConsoleInit /\ [][ConsoleNext]_consoleVars

-----------------------------------------------------------------------------
\* The table that is shown, with nobody editing or reading it, is the server's,
\* unless the answer of an edit or of a read was lost (the failures are silent).
\* One that is not shown may be old: it is read when its tab is opened.
TableIsTrue ==
    \A t \in Tables :
        acPage.tab = t /\ ~isLoading(t) /\ Editing(t) = {} /\ ConsoleReading(t) = {} /\ ~acPage.missed[t] =>
            acPage.read[t] = acRows[t]

\* The row of an edit sent since the tab was opened cannot be edited again,
\* unless two such edits crossed: updatingId knows one row only, and whichever
\* edit ends first clears it.
EditedRowIsBusy ==
    \A e \in acEdits :
        e.no >= acPage.opened /\ ~acPage.crossed[e.table] =>
            IF e.to.field = "create" THEN acPage.creating ELSE Disabled(e.table, e.row)

\* What the users tab counts: the cards fall short of the total by the demo
\* accounts only, and every row is under its own plan in the filtered table.
CardsAddUp ==
    /\ Cards.total = planCounts("demo") + SumFunction(Cards.plan)
    /\ \A u \in Lines("users") : u \in filteredUsers(AdminUser, UserLine(u).plan)

\* The audit log shows the change of every edit but a creation.
ChangeIsShown ==
    acLog # NoRow /\ acLog.old # acLog.new /\ (acLog.table = "flags" => acLog.old # "absent") =>
        \E c \in AuditChange(acLog) : c[2] # c[3]

\* The other tabs: no bar of the signups leaves its box and the largest fills
\* it, and every status that the batch writes has a badge of its own.
ReadTabsAreTrue ==
    /\ acPage.tab = "stats" =>
          \A days \in [1 .. 2 -> 0 .. 3] :
             /\ \A d \in 1 .. 2 : StatsBar(days, d).percent \in 0 .. 100
             /\ \E d \in 1 .. 2 : days[d] > 0 => StatsBar(days, d).percent = 100 /\ StatsBar(days, d).floor > 0
    /\ acPage.tab = "batch" =>
          \A s \in {"running", "success", "error"} : BatchStatusStyle(s) # BatchStatusStyle("unknown")

ConsoleIsTrue == ReadTabsAreTrue /\ TableIsTrue /\ EditedRowIsBusy /\ ChangeIsShown
=============================================================================
