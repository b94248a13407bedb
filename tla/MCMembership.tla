---------------------------- MODULE MCMembership ----------------------------
(* Instances of Membership for TLC.                                        *)
EXTENDS Membership

CONSTANTS A, B, C   \* addresses

TwoAddresses   == {A, B}
ThreeAddresses == {A, B, C}

(* Addresses are compared for equality only: they are used in one order.   *)
Used(a) == \E s \in Node : addr[s] = a
InOrder == (Used(B) => Used(A)) /\ (Used(C) => Used(B))

MCSpec == Init /\ [][Next /\ InOrder']_vars /\ Fairness
=============================================================================
