---------------------------- MODULE ComputeCache -----------------------------
(***************************************************************************)
(* The two-level cache of the compute service (redis_cache.py) under the   *)
(* threads of batch-quotes (routers/stock.py), whose entries live for a    *)
(* base lifetime, or until the next open (market_hours.py).                *)
(*                                                                         *)
(* L1 is a dictionary of the process, without a lock: threads are switched *)
(* at calls and between the turns of a loop, so that a look into L1 or a   *)
(* `del` is atomic and an eviction is not.  L2 is Redis, whose client is   *)
(* made at the first use.  The clock does not tick while a thread is in    *)
(* the cache, which takes milliseconds; it may tick during a fetch.        *)
(***************************************************************************)
EXTENDS Integers, FiniteSets

CONSTANTS
    Ticker,
    Thread,
    MaxSize,     \* _L1_MAX_SIZE
    Base,        \* _QUOTE_TTL, in ticks
    Backfill,    \* the lifetime in L1 of an entry taken from L2
    Open,        \* the ticks at which the market is open
    End,         \* the last tick
    None

ASSUME Lifetimes == {MaxSize, Base, Backfill} \subseteq Nat \ {0}
ASSUME Calendar == End \in Nat /\ Open \subseteq 0 .. End /\ End \in Open
ASSUME NoneIsNothing == None \notin Ticker \cup Int /\ None \notin [quote: Int, expires: Int]

VARIABLES
    clock,
    l1, l2,      \* by ticker: a quote, known by the tick it was fetched at, and its expiry
    attempted,   \* _redis_init_attempted
    client,      \* whether there is a _redis
    at,          \* the step of each thread
    call,        \* the call of the cache it is in
    ticker,      \* what it is asked for
    holds,       \* the quote it has found or fetched
    todo,        \* the keys its eviction is about to delete
    answer,      \* its last answer
    disturbed,   \* threads during whose present loop over L1 another changed its keys
    company,     \* threads during whose eviction another changed the keys of L1
    untidy,      \* an eviction has failed, and none begun after it has succeeded
    since        \* threads whose eviction began after the last failure of one

threadVars == <<at, call, ticker, holds, todo, answer>>
redisVars == <<l2, attempted, client>>
historyVars == <<disturbed, company, untidy, since>>
vars == <<clock, l1, redisVars, threadVars, historyVars>>

Entry == [quote: 0 .. End, expires: 0 .. 2 * End + Base + Backfill]
Evicting == {"scan", "del", "trim", "cut"}
InCache == Evicting \cup {"lookup", "client", "connect", "ping", "redis", "fill", "store"}

TypeOK ==
    /\ clock \in 0 .. End
    /\ l1 \in [Ticker -> Entry \cup {None}] /\ l2 \in [Ticker -> Entry \cup {None}]
    /\ attempted \in BOOLEAN /\ client \in BOOLEAN
    /\ at \in [Thread -> {"idle", "fetch"} \cup InCache]
    /\ call \in [Thread -> {"get", "set"}]
    /\ ticker \in [Thread -> Ticker \cup {None}]
    /\ holds \in [Thread -> 0 .. End \cup {None}]
    /\ todo \in [Thread -> SUBSET Ticker]
    /\ answer \in [Thread -> {"none", "quote", "error"}]
    /\ disturbed \subseteq Thread /\ company \subseteq Thread /\ untidy \in BOOLEAN /\ since \subseteq Thread

NoEntries == [k \in Ticker |-> None]

Start ==
    /\ l1' = NoEntries /\ attempted' = FALSE /\ client' = FALSE
    /\ at' = [t \in Thread |-> "idle"] /\ call' = [t \in Thread |-> "get"]
    /\ ticker' = [t \in Thread |-> None] /\ holds' = [t \in Thread |-> None]
    /\ todo' = [t \in Thread |-> {}] /\ answer' = [t \in Thread |-> "none"]
    /\ disturbed' = {} /\ company' = {} /\ untidy' = FALSE /\ since' = {}

Init ==
    /\ clock = 0 /\ l2 = NoEntries
    /\ l1 = NoEntries /\ attempted = FALSE /\ client = FALSE
    /\ at = [t \in Thread |-> "idle"] /\ call = [t \in Thread |-> "get"]
    /\ ticker = [t \in Thread |-> None] /\ holds = [t \in Thread |-> None]
    /\ todo = [t \in Thread |-> {}] /\ answer = [t \in Thread |-> "none"]
    /\ disturbed = {} /\ company = {} /\ untidy = FALSE /\ since = {}

-----------------------------------------------------------------------------

Goto(t, s) == at' = [at EXCEPT ![t] = s]
Reply(t, a) == Goto(t, "idle") /\ answer' = [answer EXCEPT ![t] = a]

\* _seconds_until_next_open_us: the next open, whatever the calendar.
NextOpen(c) == CHOOSE o \in Open : o > c /\ \A p \in Open : p > c => o <= p

\* adaptive_ttl.
Ttl(c) == IF c \in Open \/ NextOpen(c) - c < Base THEN Base ELSE NextOpen(c) - c

Fresh(entry) == entry # None /\ entry.expires > clock
Keys(level) == {k \in Ticker : level[k] # None}

\* A step of t that puts an entry under k into L1, or takes it away.
Assign(t, k, entry) ==
    LET seen == IF (l1[k] = None) = (entry = None) THEN {}
                ELSE {u \in Thread \ {t} : at[u] \in Evicting}
    IN  /\ l1' = [l1 EXCEPT ![k] = entry]
        /\ disturbed' = disturbed \cup seen /\ company' = company \cup seen

\* _fetch_single_quote, and the look of cache_get into L1.
Begin(t) ==
    /\ at[t] = "idle"
    /\ \E k \in Ticker : ticker' = [ticker EXCEPT ![t] = k]
    /\ Goto(t, "lookup") /\ call' = [call EXCEPT ![t] = "get"]
    /\ holds' = [holds EXCEPT ![t] = None] /\ answer' = [answer EXCEPT ![t] = "none"]
    /\ UNCHANGED <<clock, l1, redisVars, todo, historyVars>>

Lookup(t) ==
    LET entry == l1[ticker[t]]
    IN  /\ at[t] = "lookup"
        /\ \/ Fresh(entry) /\ holds' = [holds EXCEPT ![t] = entry.quote] /\ Reply(t, "quote")
           \/ ~ Fresh(entry) /\ Goto(t, "client") /\ UNCHANGED <<holds, answer>>
        /\ UNCHANGED <<clock, l1, redisVars, call, ticker, todo, historyVars>>

\* What follows when Redis has no part in the call, or none any more.
WithoutRedis(t) ==
    IF call[t] = "get" THEN Goto(t, "fetch") /\ UNCHANGED answer ELSE Reply(t, "quote")

\* get_redis: the attempt is noted before it is made, the client before it is pinged.
GetRedis(t) ==
    /\ at[t] = "client"
    /\ \/ client /\ Goto(t, "redis") /\ UNCHANGED <<attempted, answer>>
       \/ ~ client /\ attempted /\ WithoutRedis(t) /\ UNCHANGED attempted
       \/ ~ client /\ ~ attempted /\ attempted' = TRUE /\ Goto(t, "connect") /\ UNCHANGED answer
    /\ UNCHANGED <<clock, l1, l2, client, call, ticker, holds, todo, historyVars>>

Connect(t) ==
    /\ at[t] = "connect"
    /\ client' = TRUE /\ Goto(t, "ping")
    /\ UNCHANGED <<clock, l1, l2, attempted, call, ticker, holds, todo, answer, historyVars>>

Ping(t) ==
    /\ at[t] = "ping"
    /\ \/ Goto(t, "redis") /\ UNCHANGED <<client, answer>>
       \/ client' = FALSE /\ WithoutRedis(t)
    /\ UNCHANGED <<clock, l1, l2, attempted, call, ticker, holds, todo, historyVars>>

RedisGet(t) ==
    LET entry == l2[ticker[t]]
    IN  /\ at[t] = "redis" /\ call[t] = "get"
        /\ \/ Fresh(entry) /\ holds' = [holds EXCEPT ![t] = entry.quote] /\ Goto(t, "fill")
           \/ Goto(t, "fetch") /\ UNCHANGED holds
        /\ UNCHANGED <<clock, l1, redisVars, call, ticker, todo, answer, historyVars>>

\* Mutant of BackfillExpiry: the lifetime of a quote that has just been fetched.
FullExpiry == clock + Ttl(clock)

BackfillExpiry == clock + Backfill

Fill(t) ==
    /\ at[t] = "fill"
    /\ Assign(t, ticker[t], [quote |-> holds[t], expires |-> BackfillExpiry])
    /\ Goto(t, "scan") /\ since' = since \cup {t}
    /\ UNCHANGED <<clock, redisVars, call, ticker, holds, todo, answer, untidy>>

\* Yahoo answers with the price of the moment, or it does not.
Fetch(t) ==
    /\ at[t] = "fetch"
    /\ \/ holds' = [holds EXCEPT ![t] = clock] /\ call' = [call EXCEPT ![t] = "set"]
          /\ Goto(t, "store") /\ UNCHANGED answer
       \/ Reply(t, "error") /\ UNCHANGED <<holds, call>>
    /\ UNCHANGED <<clock, l1, redisVars, ticker, todo, historyVars>>

\* cache_set.
Store(t) ==
    /\ at[t] = "store"
    /\ Assign(t, ticker[t], [quote |-> holds[t], expires |-> clock + Ttl(clock)])
    /\ Goto(t, "scan") /\ since' = since \cup {t}
    /\ UNCHANGED <<clock, redisVars, call, ticker, holds, todo, answer, untidy>>

RedisSet(t) ==
    /\ at[t] = "redis" /\ call[t] = "set"
    /\ \/ l2' = [l2 EXCEPT ![ticker[t]] = [quote |-> holds[t], expires |-> clock + Ttl(clock)]]
       \/ UNCHANGED l2
    /\ Reply(t, "quote")
    /\ UNCHANGED <<clock, l1, attempted, client, call, ticker, holds, todo, historyVars>>

-----------------------------------------------------------------------------
(* _evict_l1, which both calls end with as far as L1 goes.                  *)

\* cache_get takes an exception for a miss; cache_set lets it through to the
\* handler of _fetch_single_quote, which answers with an error.
Raise(t) ==
    /\ untidy' = TRUE /\ since' = {}
    /\ \/ call[t] = "get" /\ Goto(t, "fetch") /\ UNCHANGED answer
       \/ call[t] = "set" /\ Reply(t, "error")
    /\ todo' = [todo EXCEPT ![t] = {}]
    /\ UNCHANGED l1 /\ disturbed' = disturbed \ {t} /\ company' = company \ {t}

Evicted(t) ==
    /\ untidy' = (untidy /\ t \notin since)
    /\ \/ call[t] = "get" /\ Reply(t, "quote")
       \/ call[t] = "set" /\ Goto(t, "client") /\ UNCHANGED answer
    /\ UNCHANGED <<l1, todo, since>> /\ disturbed' = disturbed \ {t} /\ company' = company \ {t}

\* A list of keys is made of L1, which fails if its keys change meanwhile.
MakeList(t, keys, s) ==
    /\ todo' = [todo EXCEPT ![t] = keys] /\ Goto(t, s)
    /\ disturbed' = disturbed \ {t}
    /\ UNCHANGED <<l1, answer, company, untidy, since>>

Scan(t) ==
    /\ at[t] = "scan"
    /\ \/ MakeList(t, {k \in Keys(l1) : l1[k].expires < clock}, "del")
       \/ t \in disturbed /\ Raise(t)
    /\ UNCHANGED <<clock, redisVars, call, ticker, holds>>

\* Mutant of Delete: the keys stay on the list.
DeleteAgain(t) ==
    /\ at[t] \in {"del", "cut"}
    /\ \E k \in todo[t] :
         IF l1[k] = None THEN Raise(t) ELSE Assign(t, k, None) /\ UNCHANGED <<at, answer, todo, untidy, since>>
    /\ UNCHANGED <<clock, redisVars, call, ticker, holds>>

\* `del _l1_cache[k]`, which fails if another thread has deleted the key.
Delete(t) ==
    /\ at[t] \in {"del", "cut"}
    /\ \E k \in todo[t] :
         IF l1[k] = None THEN Raise(t)
         ELSE /\ Assign(t, k, None)
              /\ todo' = [todo EXCEPT ![t] = @ \ {k}]
              /\ UNCHANGED <<at, answer, untidy, since>>
    /\ UNCHANGED <<clock, redisVars, call, ticker, holds>>

\* Mutant of Surplus: one entry more may stay.
SurplusButOne == Cardinality(Keys(l1)) - MaxSize - 1

Surplus == Cardinality(Keys(l1)) - MaxSize

\* The keys that expire first, n of them.
Earliest(n) ==
    {keys \in SUBSET Keys(l1) : /\ Cardinality(keys) = n
                               /\ \A k \in keys, o \in Keys(l1) \ keys : l1[k].expires <= l1[o].expires}

\* How many keys sorted_keys[:n] takes: from a negative n on, all but the last -n.
Sliced(n) ==
    LET size == Cardinality(Keys(l1))
    IN  IF n >= 0 THEN n ELSE IF size + n > 0 THEN size + n ELSE 0

\* After the expired entries; their surplus is sorted and cut in two steps.  It is
\* looked at twice, and may be gone, or negative, the second time.
Trim(t) ==
    /\ \/ at[t] = "del" /\ todo[t] = {} /\ Surplus <= 0 /\ Evicted(t)
       \/ at[t] = "del" /\ todo[t] = {} /\ Surplus > 0 /\ MakeList(t, {}, "trim")
       \/ at[t] = "trim" /\ \E keys \in Earliest(Sliced(Surplus)) : MakeList(t, keys, "cut")
       \/ at[t] = "trim" /\ t \in disturbed /\ Raise(t)
    /\ UNCHANGED <<clock, redisVars, call, ticker, holds>>

Cut(t) ==
    /\ at[t] = "cut" /\ todo[t] = {}
    /\ Evicted(t)
    /\ UNCHANGED <<clock, redisVars, call, ticker, holds>>

-----------------------------------------------------------------------------

\* Redis drops what has expired.
Tick ==
    /\ clock < End /\ clock' = clock + 1
    /\ \A t \in Thread : at[t] \notin InCache
    /\ l2' = [k \in Ticker |-> IF l2[k] # None /\ l2[k].expires <= clock + 1 THEN None ELSE l2[k]]
    /\ UNCHANGED <<l1, attempted, client, threadVars, historyVars>>

\* The service restarts; Redis keeps what it has.
Restart == Start /\ UNCHANGED <<clock, l2>>

FetchSingleQuote(t) ==
    \/ Begin(t) \/ Lookup(t) \/ GetRedis(t) \/ Connect(t) \/ Ping(t) \/ RedisGet(t) \/ Fill(t)
    \/ Fetch(t) \/ Store(t) \/ RedisSet(t) \/ Scan(t) \/ Delete(t) \/ Trim(t) \/ Cut(t)

Next == Tick \/ Restart \/ \E t \in Thread : FetchSingleQuote(t)

Spec == Init /\ [][Next]_vars

-----------------------------------------------------------------------------

\* What is answered is no older than its own lifetime and a backfill, from
\* whichever level it comes, and in particular not from before the last open
\* once that is longer ago than a backfill.
ServedIsRecent ==
    [][\A t \in Thread :
          at[t] # "idle" /\ at'[t] = "idle" /\ answer'[t] = "quote"
            => clock < holds'[t] + Ttl(holds'[t]) + Backfill]_vars

\* An eviction that nobody disturbs does not fail: a quote that was fetched is
\* answered as an error only when threads met in L1.
AloneNeverFails ==
    [][\A t \in Thread :
          /\ at[t] \in Evicting
          /\ at'[t] = "fetch" \/ (at'[t] = "idle" /\ answer'[t] = "error")
          => t \in company]_vars

\* L1 outgrows its maximal size only while evictions are under way, or after one
\* has failed and until one that began after it succeeds.
SizeHolds ==
    (\A t \in Thread : at[t] \notin Evicting) /\ ~ untidy => Cardinality(Keys(l1)) <= MaxSize

\* Every entry is of its shape, each thread at a step of get or set, and L1 of its
\* size, whatever the order in which the threads read, delete and store.
L1Sound == TypeOK /\ SizeHolds
=============================================================================
