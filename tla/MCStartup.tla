----------------------------- MODULE MCStartup -----------------------------
(* Two instances that start over an empty database and may crash twice; a  *)
(* third session is there for one that a crash has left behind.            *)
EXTENDS Startup, TLC

CONSTANTS i1, i2, s1, s2, s3
=============================================================================
