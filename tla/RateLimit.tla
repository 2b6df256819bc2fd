----------------------------- MODULE RateLimit ------------------------------
(***************************************************************************)
(* The rate limiter of api-go (middleware/ratelimit.go) as seen by one     *)
(* address: a counter in Redis, incremented by one command and given its   *)
(* lifetime by another, and a counter in memory for when Redis fails,      *)
(* which the goroutines share without a lock.                              *)
(***************************************************************************)
EXTENDS Integers, FiniteSets

CONSTANTS
    Request,
    Max,         \* rateLimitMax
    Window,      \* rateLimitWindow, in ticks
    Horizon,     \* bound on the clock
    None

VARIABLES
    now,
    counter,     \* Redis: the key rl:ip:<ip>, with the time at which it expires
    entry,       \* the entry of the fallback map
    phase,       \* the command a request has reached, or its answer
    read,        \* what it has read of entry.count
    sent         \* when it came

vars == <<now, counter, entry, phase, read, sent>>

Never == Horizon + Window + 1    \* a key without an expiry
Time == 0 .. Horizon
Answered == {"served", "refused", "cut_off"}
InFlight == {"expire", "reset", "read", "write", "check"}

TypeOK ==
    /\ now \in Time
    /\ counter \in [count: Nat, until: 0 .. Never] \cup {None}
    /\ entry \in [count: Nat, until: 0 .. Never] \cup {None}
    /\ phase \in [Request -> {"idle"} \cup InFlight \cup Answered]
    /\ read \in [Request -> Nat] /\ sent \in [Request -> Time]

Init ==
    /\ now = 0 /\ counter = None /\ entry = None
    /\ phase = [r \in Request |-> "idle"]
    /\ read = [r \in Request |-> 0] /\ sent = [r \in Request |-> 0]

Goto(r, p) == phase' = [phase EXCEPT ![r] = p]
Verdict(count) == IF count > Max THEN "refused" ELSE "served"

\* INCR makes the key without an expiry.  The first count is to be followed by
\* EXPIRE; the others decide at once.
Incr(r) ==
    LET count == IF counter = None THEN 1 ELSE counter.count + 1
    IN  /\ phase[r] = "idle"
        /\ counter' = [count |-> count, until |-> IF counter = None THEN Never ELSE counter.until]
        /\ sent' = [sent EXCEPT ![r] = now]
        /\ Goto(r, IF count = 1 THEN "expire" ELSE Verdict(count))
        /\ UNCHANGED <<now, entry, read>>

\* EXPIRE, whose error is ignored; or the server dies before it.
Expire(r) ==
    /\ phase[r] = "expire"
    /\ \/ /\ counter' = IF counter = None THEN None ELSE [counter EXCEPT !.until = now + Window]
          /\ Goto(r, Verdict(1))
       \/ UNCHANGED counter /\ Goto(r, Verdict(1))
       \/ UNCHANGED counter /\ Goto(r, "cut_off")
    /\ UNCHANGED <<now, entry, read, sent>>

\* INCR fails.  LoadOrStore finds the entry of the address or stores a new one.
LoadOrStore(r) ==
    /\ phase[r] = "idle"
    /\ entry' = IF entry = None THEN [count |-> 0, until |-> now + Window] ELSE entry
    /\ sent' = [sent EXCEPT ![r] = now]
    /\ Goto(r, "reset")
    /\ UNCHANGED <<now, counter, read>>

\* An entry that is over starts again.
Reset(r) ==
    /\ phase[r] = "reset"
    /\ entry' = IF now > entry.until THEN [count |-> 0, until |-> now + Window] ELSE entry
    /\ Goto(r, "read")
    /\ UNCHANGED <<now, counter, read, sent>>

\* entry.count++ reads and writes, and the comparison reads once more.
Read(r) ==
    /\ phase[r] = "read"
    /\ read' = [read EXCEPT ![r] = entry.count]
    /\ Goto(r, "write")
    /\ UNCHANGED <<now, counter, entry, sent>>

Write(r) ==
    /\ phase[r] = "write"
    /\ entry' = [entry EXCEPT !.count = read[r] + 1]
    /\ Goto(r, "check")
    /\ UNCHANGED <<now, counter, read, sent>>

Check(r) ==
    /\ phase[r] = "check"
    /\ Goto(r, Verdict(entry.count))
    /\ UNCHANGED <<now, counter, entry, read, sent>>

\* A tick is long against a request: none is in flight when the clock moves.
\* Redis drops a key that has expired.
Tick ==
    /\ now < Horizon /\ \A r \in Request : phase[r] \notin InFlight
    /\ now' = now + 1
    /\ counter' = IF counter # None /\ counter.until <= now' THEN None ELSE counter
    /\ UNCHANGED <<entry, phase, read, sent>>

Limit(r) ==
    \/ Incr(r) \/ Expire(r)
    \/ LoadOrStore(r) \/ Reset(r) \/ Read(r) \/ Write(r) \/ Check(r)

Next == Tick \/ \E r \in Request : Limit(r)

Spec == Init /\ [][Next]_vars

-----------------------------------------------------------------------------

\* "Enforces 120 requests per minute per IP": a request is refused only when
\* more than the limit have come in a window that ends with it.
RefusedOnlyOverLimit ==
    \A r \in Request :
        phase[r] = "refused"
          => Cardinality({q \in Request : phase[q] # "idle" /\ sent[q] <= sent[r]
                                            /\ sent[q] > sent[r] - Window}) > Max
=============================================================================
