------------------------------ MODULE MCChain ------------------------------
(* Model values for checking Chain.                                        *)
EXTENDS Chain

CONSTANTS c1, c2, k1, v1, v2

TwoClients == {c1, c2}
OneKey     == {k1}
TwoValues  == {v1, v2}

(* All requests of the bound are issued and answered: the only state in    *)
(* which the system may rest.  With it, TLC's deadlock check looks for a   *)
(* request that is stuck.                                                  *)
Finished ==
    /\ \A c \in Client : ~Busy(c) /\ sent[c] = MaxRequests
    /\ UNCHANGED vars

MCSpec     == Init /\ [][Next \/ Finished]_vars
MCFairSpec == MCSpec /\ Fairness
=============================================================================
