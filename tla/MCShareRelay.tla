---------------------------- MODULE MCShareRelay ----------------------------
(* Two connections, two keys and two sessions.                               *)
EXTENDS ShareRelay

CONSTANTS s1, s2, k1, k2, x1, x2
=============================================================================
