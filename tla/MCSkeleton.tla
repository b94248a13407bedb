----------------------------- MODULE MCSkeleton -----------------------------
(* Instances of Skeleton for TLC.                                          *)
EXTENDS Skeleton

CONSTANTS h1, h2, h3, k1, k2, v1   \* handlers, keys and a value

TwoHandlers   == {h1, h2}
ThreeHandlers == {h1, h2, h3}
OneKey  == {k1}
TwoKeys == {k1, k2}
OneValue == {v1}

AllOperations == {"put", "del", "get", "size", "getkeys", "gettable", "stats"}

(* Handlers are alike, and so are keys: the handlers take their requests   *)
(* in one order, and where neither key is in use the next one is k1.       *)
Used(k) == table[k] # Absent \/ \E h \in Handler : req[h] # NoRequest /\ req[h].key = k
InOrder ==
    /\ sent'[h3] > 0 => sent'[h2] > 0
    /\ sent'[h2] > 0 => sent'[h1] > 0
    /\ \A h \in Handler : req'[h] \notin {req[h], NoRequest} /\ req'[h].key = k2 =>
        /\ Used(k1) \/ Used(k2)
        /\ req'[h] \notin Query

MCSpec == Init /\ [][Next /\ InOrder]_vars /\ Fairness
=============================================================================
