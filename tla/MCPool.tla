------------------------------- MODULE MCPool -------------------------------
(* Two goroutines that share a pool of one connection; a second one exists *)
(* while the server has not noticed that the first was closed.             *)
EXTENDS Pool, TLC

CONSTANTS c1, c2, k1, k2
=============================================================================
