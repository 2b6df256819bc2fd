--------------------------- MODULE DiscoveryFeed ----------------------------
(***************************************************************************)
(* The discovery feed of api-go (handler/discovery.go and its repository). *)
(* A POST replaces the rows of a scan date in one transaction and then     *)
(* deletes the cached answers from Redis; a GET answers from Redis, or     *)
(* from the table and then fills the cache.  Nothing orders a fill against *)
(* a deletion: an entry is only sure to go when its TTL has run out.       *)
(***************************************************************************)
EXTENDS Integers

CONSTANTS
    Date,        \* values of scan_date, as numbers
    Ticker,
    Post,        \* POST /upsert requests; each row names the one that wrote it
    Scans,       \* the bodies a POST may have
    Get,         \* handlers of GET /today and GET /history?days=n
    Days,        \* the windows asked of /history
    Today,       \* current_date
    DayKey,      \* the cache key discovery:today; those of the windows are Days
    Nothing      \* no entry in the cache

VARIABLES
    rows,        \* the committed rows of discovered_stocks
    cache,       \* Redis: the entry under each key
    phase,       \* where a POST is, or its answer
    scan,        \* its body
    gone,        \* the rows its DELETE has found
    keys,        \* what its KEYS discovery:history:* has returned
    step,        \* where a GET is
    key,         \* the cache key it works on
    body,        \* the answer it has read
    past,        \* every content the table has had, for the properties
    lapsed       \* has an invalidation been skipped, for the properties

postVars == <<phase, scan, gone, keys>>
getVars == <<step, key, body>>
vars == <<rows, cache, postVars, getVars, past, lapsed>>

Key == {DayKey} \cup Days

Stock == [date: Date, ticker: Ticker, post: Post]
Scan == [date: Date, tickers: SUBSET Ticker]
Entry == [body: SUBSET Stock, stale: BOOLEAN, expires: BOOLEAN]

InTx == {"begun", "deleted", "inserted"}
Answer == {"ok", "bad_request", "failed"}
Phase == {"idle", "received"} \cup InTx \cup {"committed", "cleared", "listed"} \cup Answer

ASSUME Inputs ==
    /\ Scans \subseteq Scan /\ Date \subseteq Int /\ Days \subseteq Int /\ Today \in Int
    /\ DayKey \notin Days /\ Nothing \notin Entry

TypeOK ==
    /\ rows \in SUBSET Stock /\ past \in SUBSET SUBSET Stock /\ lapsed \in BOOLEAN
    /\ cache \in [Key -> Entry \cup {Nothing}]
    /\ phase \in [Post -> Phase] /\ scan \in [Post -> Scan]
    /\ gone \in [Post -> SUBSET Stock] /\ keys \in [Post -> SUBSET Days]
    /\ step \in [Get -> {"idle", "asked", "missed", "answered", "filled"}]
    /\ key \in [Get -> Key] /\ body \in [Get -> SUBSET Stock]

-----------------------------------------------------------------------------

OnDate(R, d) == {x \in R : x.date = d}

\* GetLatestDiscovery: the rows of the last date there is.
Latest(R) == {x \in R : \A y \in R : y.date <= x.date}

\* GetDiscoveryHistory: the rows of the last n days.
History(R, n) == {x \in R : x.date >= Today - n}

Body(k, R) == IF k = DayKey THEN Latest(R) ELSE History(R, k)

Init ==
    /\ rows = {} /\ past = {{}} /\ lapsed = FALSE
    /\ cache = [k \in Key |-> Nothing]
    /\ phase = [p \in Post |-> "idle"] /\ scan \in [Post -> Scans]
    /\ gone = [p \in Post |-> {}] /\ keys = [p \in Post |-> {}]
    /\ step = [g \in Get |-> "idle"] /\ key = [g \in Get |-> DayKey]
    /\ body = [g \in Get |-> {}]

-----------------------------------------------------------------------------
(* POST /api/discovery/upsert                                              *)

Goto(p, a) == phase' = [phase EXCEPT ![p] = a]

\* The handler answers; nothing it remembered is needed any more.
Answers(p, a) ==
    /\ Goto(p, a)
    /\ gone' = [gone EXCEPT ![p] = {}] /\ keys' = [keys EXCEPT ![p] = {}]

Receive(p) ==
    /\ phase[p] = "idle"
    /\ Goto(p, IF scan[p].tickers = {} THEN "bad_request" ELSE "received")
    /\ UNCHANGED <<rows, cache, scan, gone, keys, getVars, past, lapsed>>

\* DELETE ... WHERE scan_date = $1 finds the rows committed when it starts ...
Begin(p) ==
    /\ phase[p] = "received"
    /\ gone' = [gone EXCEPT ![p] = OnDate(rows, scan[p].date)]
    /\ Goto(p, "begun")
    /\ UNCHANGED <<rows, cache, scan, keys, getVars, past, lapsed>>

\* Row locks: another open transaction has deleted one of them.
Locked(p) == \E q \in Post : phase[q] \in {"deleted", "inserted"} /\ gone[p] \cap gone[q] # {}

\* ... waits for the transactions that hold them, and passes over those that
\* are gone by then; rows inserted meanwhile it does not see.
Delete(p) ==
    /\ phase[p] = "begun" /\ ~Locked(p)
    /\ gone' = [gone EXCEPT ![p] = @ \cap rows]
    /\ Goto(p, "deleted")
    /\ UNCHANGED <<rows, cache, scan, keys, getVars, past, lapsed>>

New(p) == [date: {scan[p].date}, ticker: scan[p].tickers, post: {p}]

SameKey(R, S) == \E x \in R, y \in S : x.date = y.date /\ x.ticker = y.ticker

\* Mutant of Insert: the batch goes to the pool, outside the transaction.
InsertByPool(p) ==
    /\ phase[p] = "deleted" /\ ~SameKey(New(p), rows)
    /\ rows' = rows \cup New(p)
    /\ Goto(p, "inserted")
    /\ UNCHANGED <<cache, scan, gone, keys, getVars, past, lapsed>>

\* The batch of INSERTs.  A key another open transaction has inserted makes it
\* wait; one that is committed breaks the primary key and ends the transaction.
Insert(p) ==
    /\ phase[p] = "deleted"
    /\ \A q \in Post : phase[q] = "inserted" => ~SameKey(New(p), New(q))
    /\ \/ /\ SameKey(New(p), rows \ gone[p])
          /\ Answers(p, "failed")
       \/ /\ ~SameKey(New(p), rows \ gone[p])
          /\ Goto(p, "inserted")
          /\ UNCHANGED <<gone, keys>>
    /\ UNCHANGED <<rows, cache, scan, getVars, past, lapsed>>

Commit(p) ==
    /\ phase[p] = "inserted"
    /\ rows' = (rows \ gone[p]) \cup New(p)
    /\ past' = past \cup {rows'}
    /\ Goto(p, "committed")
    /\ UNCHANGED <<cache, scan, gone, keys, getVars, lapsed>>

\* A statement fails, the client gives up, the server dies: nothing is committed.
Rollback(p) ==
    /\ phase[p] \in {"received"} \cup InTx
    /\ Answers(p, "failed")
    /\ UNCHANGED <<rows, cache, scan, getVars, past, lapsed>>

\* invalidateCache, statement 1: DEL discovery:today.
ClearDay(p) ==
    /\ phase[p] = "committed"
    /\ cache' = [cache EXCEPT ![DayKey] = Nothing]
    /\ Goto(p, "cleared")
    /\ UNCHANGED <<rows, scan, gone, keys, getVars, past, lapsed>>

\* Mutant of ListKeys: the history keys are forgotten.
ListNoKeys(p) ==
    /\ phase[p] = "cleared"
    /\ Answers(p, "ok")
    /\ UNCHANGED <<rows, cache, scan, getVars, past, lapsed>>

\* Mutant of ListKeys: KEYS discovery:*, which finds the day's key too.
ListEveryKey(p) ==
    /\ phase[p] = "cleared"
    /\ keys' = [keys EXCEPT ![p] = {k \in Key : cache[k] # Nothing}]
    /\ Goto(p, "listed")
    /\ UNCHANGED <<rows, cache, scan, gone, getVars, past, lapsed>>

\* Statement 2: KEYS discovery:history:*.
ListKeys(p) ==
    /\ phase[p] = "cleared"
    /\ LET found == {k \in Days : cache[k] # Nothing}
       IN  \/ /\ found = {}
              /\ Answers(p, "ok")
           \/ /\ found # {}
              /\ Goto(p, "listed")
              /\ keys' = [keys EXCEPT ![p] = found]
              /\ UNCHANGED gone
    /\ UNCHANGED <<rows, cache, scan, getVars, past, lapsed>>

\* Statement 3: DEL of the keys found.
ClearHistory(p) ==
    /\ phase[p] = "listed"
    /\ cache' = [k \in Key |-> IF k \in keys[p] THEN Nothing ELSE cache[k]]
    /\ Answers(p, "ok")
    /\ UNCHANGED <<rows, scan, getVars, past, lapsed>>

\* Redis refuses a command of invalidateCache, which ignores the error, or the
\* server dies after the commit.
Skip(p) ==
    /\ \/ phase[p] = "committed" /\ Goto(p, "cleared") /\ UNCHANGED <<gone, keys>>
       \/ phase[p] \in {"cleared", "listed"} /\ Answers(p, "ok")
       \/ phase[p] \in {"committed", "cleared", "listed"} /\ Answers(p, "failed")
    /\ lapsed' = TRUE
    /\ UNCHANGED <<rows, cache, scan, getVars, past>>

-----------------------------------------------------------------------------
(* GET /api/discovery/today and GET /api/discovery/history                 *)

Move(g, s) == step' = [step EXCEPT ![g] = s]

\* The cache first; an error of Redis is a miss.
Lookup(g) ==
    /\ step[g] = "idle"
    /\ \E k \in Key :
          /\ key' = [key EXCEPT ![g] = k]
          /\ \/ /\ cache[k] # Nothing
                /\ body' = [body EXCEPT ![g] = cache[k].body]
                /\ Move(g, "answered")
             \/ /\ Move(g, "missed")
                /\ UNCHANGED body
    /\ UNCHANGED <<rows, cache, postVars, past, lapsed>>

\* One SELECT; if it fails the answer is a 500 and nothing is cached.
Query(g) ==
    /\ step[g] = "missed"
    /\ \/ body' = [body EXCEPT ![g] = Body(key[g], rows)] /\ Move(g, "filled")
       \/ UNCHANGED body /\ Move(g, "idle")
    /\ UNCHANGED <<rows, cache, postVars, key, past, lapsed>>

\* Mutant of Fill: SET without an expiry.
FillForEver(g) ==
    /\ step[g] = "filled"
    /\ cache' = [cache EXCEPT ![key[g]] =
                    [body |-> body[g], stale |-> body[g] # Body(key[g], rows), expires |-> FALSE]]
    /\ Move(g, "answered")
    /\ UNCHANGED <<rows, postVars, key, body, past, lapsed>>

\* SET with a TTL of an hour, whatever has been committed since the SELECT; an
\* error of Redis is ignored.
Fill(g) ==
    /\ step[g] = "filled"
    /\ \/ cache' = [cache EXCEPT ![key[g]] =
             [body |-> body[g], stale |-> body[g] # Body(key[g], rows), expires |-> TRUE]]
       \/ UNCHANGED cache
    /\ Move(g, "answered")
    /\ UNCHANGED <<rows, postVars, key, body, past, lapsed>>

\* The answer goes out and the goroutine is free for another request.
Reply(g) ==
    /\ step[g] = "answered"
    /\ Move(g, "idle") /\ body' = [body EXCEPT ![g] = {}]
    /\ UNCHANGED <<rows, cache, postVars, key, past, lapsed>>

\* The TTL of an entry runs out.
Expire(k) ==
    /\ cache[k] # Nothing /\ cache[k].expires
    /\ cache' = [cache EXCEPT ![k] = Nothing]
    /\ UNCHANGED <<rows, postVars, getVars, past, lapsed>>

Publish(p) ==
    \/ Receive(p) \/ Begin(p) \/ Delete(p) \/ Insert(p) \/ Commit(p) \/ Rollback(p)
    \/ ClearDay(p) \/ ListKeys(p) \/ ClearHistory(p) \/ Skip(p)

Serve(g) == Lookup(g) \/ Query(g) \/ Fill(g) \/ Reply(g)

Next ==
    \/ \E p \in Post : Publish(p)
    \/ \E g \in Get : Serve(g)
    \/ \E k \in Key : Expire(k)

Spec == Init /\ [][Next]_vars

\* The goroutines of requests run on; Redis drops what has expired.
FairSpec ==
    /\ Spec
    /\ \A p \in Post : WF_vars(phase[p] # "idle" /\ Publish(p))
    /\ \A g \in Get : WF_vars(step[g] # "idle" /\ Serve(g))
    /\ \A k \in Key : WF_vars(Expire(k))

-----------------------------------------------------------------------------

\* Every answer, from the table or from the cache, is what one committed
\* content of the table gives: a reader never sees a date between its DELETE
\* and its INSERTs.
ServedWasCommitted ==
    \A g \in Get : step[g] \in {"filled", "answered"} => \E R \in past : body[g] = Body(key[g], R)

\* p has still to delete the entry under k.
Pending(p, k) ==
    \/ phase[p] = "committed"
    \/ phase[p] = "cleared" /\ k \in Days
    \/ phase[p] = "listed" /\ k \in keys[p]

\* While no command of an invalidation is lost, an outdated entry has one of two
\* causes: a publication that has not deleted it yet, or a GET that read the
\* table before the commit and filled the cache after it.
StaleOnlyByRace ==
    \A k \in Key :
        cache[k] # Nothing /\ cache[k].body # Body(k, rows)
          => lapsed \/ cache[k].stale \/ \E p \in Post : Pending(p, k)

\* An outdated entry does not outlive the publications for ever: in the end
\* every entry is what the table says.
EventuallyFresh ==
    <>[](\A k \in Key : cache[k] # Nothing => cache[k].body = Body(k, rows))
=============================================================================
