--------------------------- MODULE Serialization ---------------------------
(***************************************************************************)
(* serialization.c of projeto1: an array of keys and the buffer that holds *)
(* it.  A key is a sequence of characters, none of them NUL; a buffer is   *)
(* the number of keys and their characters, each key with its NUL.  The    *)
(* four bytes of the number are one element.                               *)
(***************************************************************************)
EXTENDS Naturals, SequencesExt

NUL == 0

(* The characters that strcpy() writes.                                    *)
Terminated(key) == Append(key, NUL)

keyArray_to_buffer(keys) ==
    <<Len(keys)>> \o FlattenSeq([i \in DOMAIN keys |-> Terminated(keys[i])])

(* From a place of the buffer to the next NUL.                             *)
strlen(buf, at) == SelectInSubSeq(buf, at, Len(buf), LAMBDA ch : ch = NUL) - at

strdup(buf, at) == SubSeq(buf, at, at + strlen(buf, at) - 1)

(* Fault: the pointer stays at the NUL of the key that was read.           *)
pointer_at_end(buf) ==
    LET at[i \in Nat] == IF i = 0 THEN 2 ELSE at[i - 1] + strlen(buf, at[i - 1])
    IN  [i \in 1 .. buf[1] |-> at[i - 1]]

(* Where each key begins: one after the NUL of the key before it.          *)
pointer(buf) ==
    LET at[i \in Nat] == IF i = 0 THEN 2 ELSE at[i - 1] + strlen(buf, at[i - 1]) + 1
    IN  [i \in 1 .. buf[1] |-> at[i - 1]]

buffer_to_keyArray(buf) == [i \in 1 .. buf[1] |-> strdup(buf, pointer(buf)[i])]
=============================================================================
