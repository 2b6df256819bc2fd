----------------------------- MODULE MCBilling ------------------------------
(* A small instance of Billing over Account: a person with two email          *)
(* addresses who signs in, and the requests of that account and of an         *)
(* administrator once it is there.  Requests differ in their calls only, so   *)
(* that each combination of calls is taken once.                              *)
EXTENDS Billing, Integers, TLC, SequencesExt

CONSTANTS p, admin, e1, e2, nobody

SignIns == <<[op |-> "sign_in", person |-> p, email |-> e1],
             [op |-> "sign_in", person |-> p, email |-> e2]>>

Others == <<[op |-> "checkout", by |-> e1], [op |-> "cancel", by |-> e1],
            [op |-> "set_plan", by |-> e2, user |-> e1, to |-> "pro"],
            [op |-> "set_active", by |-> e2, user |-> e1, to |-> FALSE]>>

\* The third request of an account is one that never comes.
Never == [op |-> "me", by |-> nobody]

MCCalls == ToSet(SignIns \o Others) \cup {Never}

\* The requests make some of the calls of a list, in its order.
From(list, busy) ==
    \E i \in [busy -> DOMAIN list] :
       /\ \A r, q \in busy : r < q => i[r] <= i[q]
       /\ call = [r \in Request |-> IF r \in busy THEN list[i[r]] ELSE Never]

OldRow(b) == [bound |-> b, plan |-> "free", active |-> TRUE, customer |-> None]

MCInit ==
    /\ \/ /\ From(SignIns, Request)
          /\ \E b \in {None, OldRow(Nobody), OldRow(p)}, c \in {None, OldRow(Elsewhere)} :
                users = (e1 :> b @@ e2 :> c @@ nobody :> None)
       \/ From(Others, {1, 2}) /\ users = (e1 :> OldRow(p) @@ e2 :> OldRow(admin) @@ nobody :> None)
    /\ Opening /\ Init

MCSpec == MCInit /\ [][Next]_vars /\ Fairness
=============================================================================
