-------------------------- MODULE MCTunnelRegistry --------------------------
(* The registry on two tunnels and three connections, with one good and one   *)
(* bad token beside two users' tokens.                                       *)
EXTENDS PoolFairness

CONSTANTS t1, t2, s1, s2, s3, alice, bob, forged, undefined

MCSymmetry == Permutations({s1, s2, s3}) \cup Permutations({t1, t2})
                \cup Permutations({alice, bob})

MCPoolWithinLimit == PoolWithinLimit(2)
=============================================================================
