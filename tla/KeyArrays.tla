----------------------------- MODULE KeyArrays ------------------------------
(***************************************************************************)
(* The array that table_get_keys() returns, on its way through a buffer:   *)
(* HashTable, with the characters of its keys, and Serialization.          *)
(***************************************************************************)
EXTENDS HashTable, Serialization

CONSTANT
    Name            \* Name[k]: the characters of k

Char == Nat \ {NUL}

ASSUME NameAssumption == Name \in [Key -> Seq(Char)]

Names(keys) == [i \in DOMAIN keys |-> Name[keys[i]]]

(* The keys that table_get_keys() returns come out of a buffer as they     *)
(* went in, an empty key and a key that begins with another one included.  *)
KeysSurvive ==
    last.op = "getkeys" /\ last.result # Error =>
        buffer_to_keyArray(keyArray_to_buffer(Names(last.result))) = Names(last.result)
=============================================================================
