------------------------------ MODULE MCBatch --------------------------------
(* A small instance of Batch over Employment: two overlapping runs and a      *)
(* request, or three requests and no run.                                     *)
EXTENDS Batch

CONSTANTS p1, p2, p3, b1, b2

MCChange == -1 .. 1

MCFigures ==
    {f \in [Month -> Value \cup {Null}] : \A m \in Month : f[m] = Null => m = 2}

Inputs(m) == [month: {m}, value: Value \cup {Null}, change: {0}]

MCInit ==
    /\ Init
    /\ \/ /\ input[p2] = None /\ input[p3] = None
          /\ input[p1] \in {None, [month |-> 2, value |-> 2, change |-> 0]}
          /\ begins[b1] = 1 /\ begins[b2] # None
       \/ /\ \A p \in Post : input[p] \in Inputs(1)
          /\ \A b \in Run : begins[b] = None

MCSpec == MCInit /\ [][Next]_vars

\* The runs alone, the second of which begins a month later.
WindowInit ==
    /\ Init
    /\ \A p \in Post : input[p] = None
    /\ begins[b1] = 1 /\ begins[b2] = 2

MCWindowSpec == WindowInit /\ [][Next]_vars
=============================================================================
