----------------------------- MODULE MCOperator -----------------------------
(* What the operator looks at: the request rate of `stats` and the log of      *)
(* `logs`.  They share nothing, so each behaviour is one of one part, while    *)
(* the other one rests in its initial state.                                   *)
EXTENDS RateCounter, LogTail

VARIABLE part

operatorVars == <<rateVars, tailVars, part>>

OperatorInit ==
    /\ part \in {"rate", "tail"}
    /\ RateInit /\ TailInit
    /\ part = "tail" => now = 0

OperatorNext ==
    \/ part = "rate" /\ RateNext /\ UNCHANGED <<tailVars, part>>
    \/ part = "tail" /\ TailNext /\ UNCHANGED <<rateVars, part>>

(* What is fair for the tail is not enabled while it rests. *)
OperatorSpec == OperatorInit /\ [][OperatorNext]_operatorVars /\ TailFairness
=============================================================================
