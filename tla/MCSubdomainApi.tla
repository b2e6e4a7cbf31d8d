--------------------------- MODULE MCSubdomainApi ---------------------------
(* Three requests, or two, of two clients and of none about two subdomains.   *)
EXTENDS SubdomainApi, TLC

CONSTANTS r1, r2, r3, sa, sb, alice, bob

MCSymmetry == Permutations({r1, r2, r3}) \cup Permutations({sa, sb})
                \cup Permutations({alice, bob})

MCSymmetryTwo == Permutations({r1, r2}) \cup Permutations({sa, sb})
                   \cup Permutations({alice, bob})
=============================================================================
