----------------------------- MODULE MCSession -----------------------------
(* Instances of Session for TLC.                                           *)
EXTENDS Session

CONSTANTS c1, c2, c3, k1, k2    \* clients and keys

ThreeClients == {c1, c2, c3}
OneKey == {k1}
TwoKeys == {k1, k2}

(* Clients are alike: the users start them in one order, and the first key *)
(* they type is k1.                                                        *)
Started(c) == main[c] # "start"
InOrder ==
    /\ Started(c3) => Started(c2)
    /\ Started(c2) => Started(c1)
    /\ given = 1 => \A c \in Client : last[c].key # k2

MCSpec == Init /\ [][Next /\ InOrder']_vars /\ Fairness
=============================================================================
