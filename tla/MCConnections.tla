--------------------------- MODULE MCConnections ---------------------------
(* Instances of Connections for TLC.                                       *)
EXTENDS Connections

CONSTANTS c1, c2, c3    \* connections

ThreeConnections == {c1, c2, c3}

(* Connections are alike: they are made in one order.                      *)
InOrder ==
    /\ client[c3] # "away" => client[c2] # "away"
    /\ client[c2] # "away" => client[c1] # "away"

MCSpec == Init /\ [][Next /\ InOrder']_vars /\ Fairness
=============================================================================
