----------------------------- MODULE Watchlist ------------------------------
(***************************************************************************)
(* The watchlist requests of api-go (handler/watchlist.go,                 *)
(* repository/watchlist_repo.go).  Every request but one is a single SQL   *)
(* statement.  ModifyTicker reads the list, edits the array in memory and  *)
(* writes it back whole, with no transaction; for the id "default" it looks *)
(* the list up first, and inserts one if it finds none.                    *)
(***************************************************************************)
EXTENDS SequencesExt

CONSTANTS
    User,       \* accounts
    Text,       \* what a client may send for a ticker
    Upper(_),   \* strings.ToUpper(strings.TrimSpace(text))
    Ticker,     \* the texts tickerRE accepts once they are upper case
    Cap,        \* maxTickersPerWatchlist
    Stock,      \* ids of the lists there may be when the model starts
    Request,    \* HTTP requests; a list one inserts has the request as its id
    Calls,      \* the calls that clients make, a subset of Call
    Opening,    \* those lists' tickers and is_default
    Default,    \* the path parameter "default"
    NoRow       \* there is no row under this id

VARIABLES
    lists,      \* the rows of user_watchlists
    phase,      \* where a request is, or the answer it got
    job,        \* what it asks for
    list,       \* the id ModifyTicker works on
    read,       \* the tickers it read from that row
    tickers     \* the tickers it is about to write there

vars == <<lists, phase, job, list, read, tickers>>

ListId == Stock \cup Request

\* "writer" is who last wrote the row: it names the value of updated_at.
Row == [user: User, tickers: Seq(Ticker), is_default: BOOLEAN,
        writer: Request \cup {NoRow}]

\* "sets" are the fields a PUT body carries.
Call == [op: {"create", "update", "delete", "add", "remove"}, user: User,
         list: ListId \cup {Default}, texts: Seq(Text), is_default: BOOLEAN,
         sets: SUBSET {"name", "tickers", "is_default"}, text: Text]

\* "empty" is ModifyTicker's 200 with no tickers, when it found no default list
\* to remove one from.
Answer == {"ok", "empty", "bad_request", "not_found", "failed"}
InFlight == {"received", "absent", "found", "edited"}
Phase == {"idle"} \cup InFlight \cup Answer

ASSUME Inputs ==
    /\ \A x \in Text : Upper(x) \in Text
    /\ Ticker \subseteq Text /\ Cap \in Nat \ {0}
    /\ NoRow \notin ListId \cup Row /\ Default \notin ListId
    /\ Calls \subseteq Call /\ Calls # {}

\* A list that a request may keep: no ticker twice, at most Cap of them.
Legal(s) == IsInjective(s) /\ Len(s) <= Cap

\* The lists there are at first were written by requests like these ones.
ASSUME Before ==
    /\ Opening \subseteq Row
    /\ \A o \in Opening : Legal(o.tickers) /\ o.writer = NoRow

TypeOK ==
    /\ lists \in [ListId -> Row \cup {NoRow}]
    /\ phase \in [Request -> Phase]
    /\ job \in [Request -> Call]
    /\ list \in [Request -> ListId \cup {NoRow}]
    /\ read \in [Request -> Seq(Ticker)]
    /\ tickers \in [Request -> Seq(Ticker)]

-----------------------------------------------------------------------------

Init ==
    /\ lists \in [ListId -> Opening \cup {NoRow}]
    /\ \A r \in Request : lists[r] = NoRow
    /\ phase = [r \in Request |-> "idle"]
    /\ job = [r \in Request |-> CHOOSE c \in Calls : TRUE]
    /\ list = [r \in Request |-> NoRow]
    /\ read = [r \in Request |-> <<>>]
    /\ tickers = [r \in Request |-> <<>>]

\* WHERE id = $1 AND user_id = $2 finds row h.
Mine(r, h) == h # Default /\ (h # Default => lists[h] # NoRow /\ lists[h].user = job[r].user)

\* The valid tickers of a body in upper case, each once, at most Cap of them.
\* (This loop and the next one are recursive functions of the position, which
\* unlike the folds of the library can be reasoned about.)
accept(result, t) ==
    IF t \in Ticker /\ ~Contains(result, t) /\ Len(result) < Cap
    THEN Append(result, t) ELSE result

validateTickers(texts) ==
    LET result[i \in 0 .. Len(texts)] ==
            IF i = 0 THEN <<>> ELSE accept(result[i - 1], Upper(texts[i]))
    IN  result[Len(texts)]

\* The elements of s but t, in their order.
keep(filtered, x, t) == IF x # t THEN Append(filtered, x) ELSE filtered

without(s, t) ==
    LET filtered[i \in 0 .. Len(s)] ==
            IF i = 0 THEN <<>> ELSE keep(filtered[i - 1], s[i], t)
    IN  filtered[Len(s)]

Invalid(c) ==
    \/ c.op = "update" /\ c.sets = {}
    \/ c.op \in {"add", "remove"} /\ Upper(c.text) \notin Ticker

\* The handler goes on to a, an answer or a later statement; its local
\* variables hold nothing it still needs.
Reply(r, a) ==
    /\ phase' = [phase EXCEPT ![r] = a]
    /\ list' = [list EXCEPT ![r] = NoRow]
    /\ read' = [read EXCEPT ![r] = <<>>]
    /\ tickers' = [tickers EXCEPT ![r] = <<>>]
    /\ UNCHANGED job

Store(h, row) == lists' = [lists EXCEPT ![h] = row]

\* A statement that took effect may still be answered by a 500: the connection
\* can be lost after the server committed.
Committed == {"ok", "failed"}

Receive(r, c) ==
    /\ phase[r] = "idle"
    /\ job' = [job EXCEPT ![r] = c]
    /\ phase' = [phase EXCEPT ![r] = "received"]
    /\ UNCHANGED <<lists, list, read, tickers>>

Starts(r, ops) == phase[r] = "received" /\ job[r].op \in ops /\ ~Invalid(job[r])

Reject(r) ==
    /\ phase[r] = "received" /\ Invalid(job[r])
    /\ Reply(r, "bad_request")
    /\ UNCHANGED lists

-----------------------------------------------------------------------------

Create(r) ==
    LET c == job[r]
    IN  /\ Starts(r, {"create"})
        /\ Store(r, [user |-> c.user, tickers |-> validateTickers(c.texts),
                     is_default |-> c.is_default, writer |-> r])
        /\ \E a \in Committed : Reply(r, a)

\* The handler answers every error of Update and of Delete by a 404.
Update(r) ==
    LET c == job[r]
        old == lists[c.list]
    IN  /\ Starts(r, {"update"})
        /\ \/ /\ Mine(r, c.list)
              /\ Store(c.list,
                       [old EXCEPT
                          !.tickers = IF "tickers" \in c.sets THEN validateTickers(c.texts) ELSE @,
                          !.is_default = IF "is_default" \in c.sets THEN c.is_default ELSE @,
                          !.writer = r])
              /\ \E a \in {"ok", "not_found"} : Reply(r, a)
           \/ /\ ~Mine(r, c.list)
              /\ UNCHANGED lists
              /\ Reply(r, "not_found")

Delete(r) ==
    LET h == job[r].list
    IN  /\ Starts(r, {"delete"})
        /\ \/ /\ Mine(r, h)
              /\ Store(h, NoRow)
              /\ \E a \in {"ok", "not_found"} : Reply(r, a)
           \/ /\ ~Mine(r, h)
              /\ UNCHANGED lists
              /\ Reply(r, "not_found")

-----------------------------------------------------------------------------

\* What ModifyTicker does when FindDefault returns an error, of any kind.
NoneFound(r) == Reply(r, IF job[r].op = "add" THEN "absent" ELSE "empty")

Defaults(u) == {h \in ListId : lists[h] # NoRow /\ lists[h].user = u /\ lists[h].is_default}

\* ModifyTicker: the list a path names; for "default", the row FindDefault's
\* LIMIT 1 happens to return, and if there is none an add goes on to insert one.
FindList(r) ==
    LET c == job[r]
        Found(h) == /\ list' = [list EXCEPT ![r] = h]
                    /\ phase' = [phase EXCEPT ![r] = "found"]
                    /\ UNCHANGED <<job, read, tickers>>
    IN  /\ Starts(r, {"add", "remove"})
        /\ UNCHANGED lists
        /\ \/ c.list # Default /\ Found(c.list)
           \/ c.list = Default /\ \E h \in Defaults(c.user) : Found(h)
           \/ c.list = Default /\ Defaults(c.user) = {} /\ NoneFound(r)

\* Mutant of CreateDefault: the ticker as the client typed it.
CreateDefaultAsTyped(r) ==
    /\ phase[r] = "absent"
    /\ Store(r, [user |-> job[r].user, tickers |-> <<job[r].text>>,
                 is_default |-> TRUE, writer |-> r])
    /\ \E a \in Committed : Reply(r, a)

\* Nothing ties this INSERT to the SELECT that found no default list.
CreateDefault(r) ==
    /\ phase[r] = "absent"
    /\ Store(r, [user |-> job[r].user, tickers |-> <<Upper(job[r].text)>>,
                 is_default |-> TRUE, writer |-> r])
    /\ \E a \in Committed : Reply(r, a)

\* Mutant of full: one ticker too many.
overfull(s) == Len(s) > Cap

full(s) == Len(s) >= Cap

\* Mutant of edited: the filter keeps what it should drop.
editedWrong(op, s, t) ==
    IF op = "add" THEN Append(s, t) ELSE IF Contains(s, t) THEN <<t>> ELSE <<>>

edited(op, s, t) == IF op = "add" THEN Append(s, t) ELSE without(s, t)

\* FindByID, then the edit in memory.
ReadList(r) ==
    LET t == Upper(job[r].text)
        s == lists[list[r]].tickers
        op == job[r].op
        present == Contains(s, t)
    IN  /\ phase[r] = "found"
        /\ UNCHANGED lists
        /\ \/ ~Mine(r, list[r]) /\ Reply(r, "not_found")
           \/ Mine(r, list[r]) /\ op = "add" /\ present /\ Reply(r, "ok")
           \/ Mine(r, list[r]) /\ op = "add" /\ ~present /\ full(s) /\ Reply(r, "bad_request")
           \/ /\ Mine(r, list[r])
              /\ op = "add" => ~present /\ ~full(s)
              /\ phase' = [phase EXCEPT ![r] = "edited"]
              /\ read' = [read EXCEPT ![r] = s]
              /\ tickers' = [tickers EXCEPT ![r] = edited(op, s, t)]
              /\ UNCHANGED <<job, list>>

\* Mutant of UpdateTickers: INSERT ... ON CONFLICT DO UPDATE.
UpsertTickers(r) ==
    /\ phase[r] = "edited"
    /\ Store(list[r], [user |-> job[r].user, tickers |-> tickers[r],
                       is_default |-> TRUE, writer |-> r])
    /\ \E a \in Committed : Reply(r, a)

\* UPDATE ... SET tickers: the whole array, whatever the row holds by now.
UpdateTickers(r) ==
    /\ phase[r] = "edited"
    /\ \/ /\ Mine(r, list[r])
          /\ Store(list[r], [lists[list[r]] EXCEPT !.tickers = tickers[r], !.writer = r])
          /\ \E a \in Committed : Reply(r, a)
       \/ /\ ~Mine(r, list[r])
          /\ UNCHANGED lists
          /\ Reply(r, "failed")

\* A statement fails: Update, Delete and FindByID take it for a missing row,
\* FindDefault for a missing default list, the others answer 500.
Abort(r) ==
    /\ UNCHANGED lists
    /\ \/ Starts(r, {"update", "delete"}) /\ Reply(r, "not_found")
       \/ Starts(r, {"add", "remove"}) /\ job[r].list = Default /\ NoneFound(r)
       \/ phase[r] = "found" /\ Reply(r, "not_found")
       \/ Starts(r, {"create"}) /\ Reply(r, "failed")
       \/ phase[r] \in {"absent", "edited"} /\ Reply(r, "failed")

Serve(r) ==
    \/ Reject(r) \/ Create(r) \/ Update(r) \/ Delete(r)
    \/ FindList(r) \/ CreateDefault(r) \/ ReadList(r) \/ UpdateTickers(r)

Next == \E r \in Request : Serve(r) \/ Abort(r) \/ \E c \in Calls : Receive(r, c)

Spec == Init /\ [][Next]_vars

-----------------------------------------------------------------------------

\* However adds, removes and replacements of a list overlap, it never holds a
\* ticker twice nor more than Cap: each write is computed from one earlier read.
ListsStayLegal ==
    \A h \in ListId : lists[h] # NoRow => Legal(lists[h].tickers)

\* A deleted list stays deleted, although a request may still hold what it read
\* of it and be about to write it back: a row appears only under a fresh id.
NoResurrection ==
    [][\A h \in ListId : lists[h] = NoRow /\ lists'[h] # NoRow =>
          h \in Request /\ job[h].op \in {"create", "add"} /\ phase'[h] \in Committed]_vars

\* A ticker leaves a list it stays in only at the step of a request that asks
\* for that, or of one that had read the list before its present contents: the
\* read-modify-write of ModifyTicker loses nothing that was there when it read.
LostOnlyByOverlap ==
    [][\A h \in ListId, t \in Ticker :
          lists[h] # NoRow /\ lists'[h] # NoRow
          /\ Contains(lists[h].tickers, t) /\ ~Contains(lists'[h].tickers, t)
            => \E r \in Request :
                  /\ phase'[r] # phase[r]
                  /\ \/ job[r].op = "update"
                     \/ job[r].op = "remove" /\ Upper(job[r].text) = t
                     \/ list[r] = h /\ read[r] # lists[h].tickers]_vars
=============================================================================
