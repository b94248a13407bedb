---------------------------- MODULE MCHashTable -----------------------------
(* An instance of HashTable for TLC.  The five keys are "", "a", "aa" and  *)
(* two of one character each that is negative as a signed char, in the     *)
(* order of strcmp().  With two lists, the first, the third and the fourth *)
(* share one, as its first, middle and last entry; the fifth has none.     *)
EXTENDS KeyArrays

Signed(ch) == IF ch < 128 THEN ch ELSE ch - 256

FiveKeys == 1 .. 5
FiveNames == <<<<>>, <<1>>, <<1, 1>>, <<254>>, <<255>>>>
FiveCodes == [k \in FiveKeys |-> FoldSeq(LAMBDA a, b : Signed(a) + b, 0, FiveNames[k])]
=============================================================================
