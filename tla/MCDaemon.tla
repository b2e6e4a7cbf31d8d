------------------------------ MODULE MCDaemon ------------------------------
(* One server process, its restart and two overlapping queries.              *)
EXTENDS Daemon

CONSTANTS socket, c1, c2, q1, q2
=============================================================================
