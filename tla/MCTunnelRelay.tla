--------------------------- MODULE MCTunnelRelay ---------------------------
(* One tunnel, two sockets, and requests that share a socket or not.          *)
EXTENDS TunnelRelay, TLC

CONSTANTS inside

NoRules == [allowCidr |-> {}, denyCidr |-> {}]
MCRules == {NoRules, [allowCidr |-> {{inside}}, denyCidr |-> {{inside}}]}

MCRulesOne == {NoRules}

(* Sockets are told apart by nothing but their place in the pool. *)
MCSymmetry == Permutations(Socket)
=============================================================================
