--------------------------- MODULE MCQuickTickers ---------------------------
(* A small instance of QuickTickers: one account with at most one list to    *)
(* start from, lists of at most two tickers, three requests.                 *)
EXTENDS QuickTickers

CONSTANT l1

Requests == Permutations(Request)

\* "low" is "UP" as a user may type it; "?" is no ticker.
MCUpper(x) == IF x = "low" THEN "UP" ELSE x
MCText == {"UP", "B", "C", "low", "?"}
MCTicker == {"UP", "B", "C"}
MCTyped == {"B"}
MCSaved == <<"UP", "B">>
MCBar == <<"B">>
MCOpening == {[user |-> me, tickers |-> <<"UP">>, is_default |-> TRUE, writer |-> NoRow]}

ApiCall(op, h, texts, cols, x) ==
    [op |-> op, user |-> me, list |-> h, texts |-> texts, is_default |-> FALSE,
     sets |-> cols, text |-> x]

\* What other clients may ask for: any kind of call, with repeats, with an
\* invalid ticker, with more tickers than fit.
MCCalls ==
    {ApiCall("create", Default, <<"B", "low", "UP", "?">>, {}, "B"),
     ApiCall("update", l1, <<"?", "low", "UP">>, {"tickers"}, "B"),
     ApiCall("delete", l1, <<>>, {}, "B"), ApiCall("add", l1, <<>>, {}, "?"),
     ApiCall("add", Default, <<>>, {}, "low"),
     ApiCall("add", l1, <<>>, {}, "C")}
=============================================================================
