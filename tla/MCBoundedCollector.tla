------------------------ MODULE MCBoundedCollector ------------------------
(***************************************************************************)
(* Two goroutines that together print more than the limit, and one that     *)
(* makes one event more than a trace collects.                              *)
(***************************************************************************)
EXTENDS BoundedCollector

CONSTANTS w1, w2

Two == {w1, w2}
One == {w1}
=============================================================================
