-------------------------- MODULE MCDiscoveryFeed ---------------------------
(* A small instance of DiscoveryFeed: two publications that may overlap, of  *)
(* the same day or not, with the same ticker or not.                         *)
EXTENDS DiscoveryFeed

CONSTANTS a, b

MCScans == {[date |-> d, tickers |-> s] :
              <<d, s>> \in {<<1, {a}>>, <<3, {a}>>, <<3, {b}>>, <<3, {}>>}}
=============================================================================
