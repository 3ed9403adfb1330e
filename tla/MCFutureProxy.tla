---------------------------- MODULE MCFutureProxy ----------------------------
(* Calls of two methods, of which one may be unknown, too long to write, or  *)
(* answered with an error; two hosts are added and the strategy is set twice *)
(* while they are made.                                                      *)
EXTENDS FutureProxy

CONSTANTS c1, c2

MChashCode == [c \in Call |-> IF c = c1 THEN 4 ELSE 7]
=============================================================================
