---------------------------- MODULE MCPortfolio -----------------------------
(* A small instance of Portfolio: two accounts, one holding to start from,   *)
(* three requests in flight.                                                 *)
EXTENDS Portfolio

CONSTANTS ann, bob, h1, r1

\* One call of every kind, with the amounts at which the handlers branch: a sale
\* of part of a holding and of all of it, a holding sold short, a zero.
C(op, u, h, n, cols) ==
    [op |-> op, user |-> u, holding |-> h, shares |-> n, sets |-> cols, trade |-> r1]

MCRows == {[user |-> u, shares |-> n, basis |-> Opening] :
              <<u, n>> \in {<<ann, -1>>, <<ann, 2>>, <<bob, 2>>}}

MCCalls ==
    {C("create", ann, NoHolding, 2, {}), C("update", ann, h1, 1, {"shares"}),
     C("add", ann, h1, 1, {}),
     C("delete", ann, h1, 2, {}), C("trade", ann, h1, 1, {}),
     C("trade", bob, NoHolding, 1, {}), C("void", ann, h1, 1, {}),
     C("sell", ann, h1, 1, {}), C("sell", ann, h1, 2, {}), C("sell", ann, h1, 0, {})}
=============================================================================
