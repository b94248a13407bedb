----------------------------- MODULE HashTable ------------------------------
(***************************************************************************)
(* The hash table of projeto1: table.c, a row of lists, on list.c, a list  *)
(* of entries in the order of their keys.  A key is a number: its place in *)
(* the order of strcmp().                                                  *)
(*                                                                         *)
(* Memory may run out: any allocation may fail, and what the code does     *)
(* then is modelled.  Where C defines nothing any more the model ends.     *)
(***************************************************************************)
EXTENDS Integers, FiniteSets, SequencesExt

CONSTANTS
    Key,            \* the keys
    Value,          \* the values of non-zero size
    Absent,         \* no value
    Error,          \* the result of a call that failed: -1, or NULL
    Size,           \* the number of lists
    Code,           \* Code[k]: the sum of the characters of k, which are signed
    MemoryFails     \* whether malloc() may return NULL

ASSUME HashAssumption ==
    /\ IsFiniteSet(Key) /\ Key \subseteq Nat
    /\ Absent \notin Key \cup Value /\ Error \notin Value \cup {Absent}
    /\ Size \in Nat \ {0}
    /\ Code \in [Key -> Int]
    /\ MemoryFails \in BOOLEAN

VARIABLES
    lists,      \* lists[i]: the entries of one list, from its head
    last        \* the last call, with its result

vars == <<lists, last>>

Entry == [key : Key, value : Value]
Row   == 0 .. Size - 1

(* hash_code(): the % of C rounds towards 0, so that a negative sum has a  *)
(* negative remainder, or none.                                            *)
hash_code(k) == IF Code[k] >= 0 THEN Code[k] % Size ELSE -((-Code[k]) % Size)

(* The keys that have a row.                                               *)
Homed == {k \in Key : hash_code(k) \in Row}

(* list_get() walks from the head to the first entry with the key: its     *)
(* place, or 0.                                                            *)
list_get(L, k) == SelectInSeq(L, LAMBDA e : e.key = k)

list_remove(L, k) == IF list_get(L, k) = 0 THEN L ELSE RemoveAt(L, list_get(L, k))

(* Fault: the place is one too far.                                        *)
place_too_far(L, e) ==
    LET p == SelectInSeq(L, LAMBDA x : e.key <= x.key)
    IN  IF p = 0 \/ p = Len(L) THEN Len(L) + 1 ELSE p + 1

(* find_insert_position() stops before the first entry that is not smaller.*)
find_insert_position(L, e) ==
    LET p == SelectInSeq(L, LAMBDA x : e.key <= x.key)
    IN  IF p = 0 THEN Len(L) + 1 ELSE p

insert(L, e) == InsertAt(L, find_insert_position(L, e), e)

(* Fault: the old entry stays.                                             *)
add_without_remove(L, e) == insert(L, e)

(* list_add() replaces an entry by removing it and starting over.          *)
list_add(L, e) == insert(list_remove(L, e.key), e)

Call(op, k, v, r) == [op |-> op, key |-> k, value |-> v, result |-> r, short |-> FALSE]
NoCall == Call("none", Absent, Absent, 0)

(* A call in which an allocation failed.                                   *)
ShortCall(op, k, v, r) == MemoryFails /\ last' = [Call(op, k, v, r) EXCEPT !.short = TRUE]
-----------------------------------------------------------------------------
Init == lists = [i \in Row |-> <<>>] /\ last = NoCall

(* table_put(): copies the key and the value, then list_add().             *)
Put(k, v) ==
    /\ lists' = [lists EXCEPT ![hash_code(k)] = list_add(@, [key |-> k, value |-> v])]
    /\ last' = Call("put", k, v, 0)

(* A copy or the entry is not allocated: nothing is done, and the row is   *)
(* not looked at.                                                          *)
PutFails(k, v) ==
    /\ ShortCall("put", k, v, Error)
    /\ UNCHANGED lists

(* The node is not allocated: the old entry is gone already, and list_add()*)
(* returns 1 whatever its second call returned.                            *)
PutNodeFails(k, v) ==
    /\ ShortCall("put", k, v, IF list_get(lists[hash_code(k)], k) = 0 THEN Error ELSE 0)
    /\ lists' = [lists EXCEPT ![hash_code(k)] = list_remove(@, k)]

Del(k) ==
    /\ lists' = [lists EXCEPT ![hash_code(k)] = list_remove(@, k)]
    /\ last' = Call("remove", k, Absent, IF list_get(lists[hash_code(k)], k) = 0 THEN 1 ELSE 0)

Lookup(k) ==
    LET L == lists[hash_code(k)] IN
    IF list_get(L, k) = 0 THEN Absent ELSE L[list_get(L, k)].value

Get(k) ==
    /\ last' = Call("get", k, Absent, Lookup(k))
    /\ UNCHANGED lists

(* data_dup() gets no memory for the copy: NULL, as for a missing key.      *)
GetFails(k) ==
    /\ Lookup(k) # Absent
    /\ ShortCall("get", k, Absent, Absent)
    /\ UNCHANGED lists

(* table_size() adds the lengths of the lists.                             *)
table_size == MapThenFoldSet(LAMBDA a, b : a + b, 0, LAMBDA i : Len(lists[i]),
                             LAMBDA S : CHOOSE i \in S : TRUE, Row)

GetSize ==
    /\ last' = Call("size", Absent, Absent, table_size)
    /\ UNCHANGED lists

list_get_keys(L) == [i \in DOMAIN L |-> L[i].key]

(* list_get_keys() returns NULL for an empty list, and table_get_keys()    *)
(* gives up on a NULL.                                                     *)
Gap == \E i \in Row : lists[i] = <<>>

table_get_keys ==
    IF Gap THEN Error ELSE FlattenSeq([i \in 1 .. Size |-> list_get_keys(lists[i - 1])])

GetKeys ==
    /\ last' = Call("getkeys", Absent, Absent, table_get_keys)
    /\ UNCHANGED lists

GetKeysFails ==
    /\ ShortCall("getkeys", Absent, Absent, Error)
    /\ UNCHANGED lists

(* strdup() of table_get_keys() gets no memory: its NULL ends the array    *)
(* there.                                                                  *)
GetKeysCut ==
    /\ ~Gap
    /\ \E n \in 0 .. Len(table_get_keys) - 1 :
          ShortCall("getkeys", Absent, Absent, SubSeq(table_get_keys, 1, n))
    /\ UNCHANGED lists

(* A key without a row has the code read outside the array, and data_dup() *)
(* copies to whatever malloc() returned, NULL included: what follows is    *)
(* undefined in C.                                                         *)
Undefined(k) ==
    /\ k \notin Homed \/ MemoryFails
    /\ last' = Call("undefined", k, Absent, 0)
    /\ UNCHANGED lists

Next ==
    /\ last.op # "undefined"
    /\ \/ \E k \in Homed, v \in Value : Put(k, v) \/ PutNodeFails(k, v)
       \/ \E k \in Key, v \in Value : PutFails(k, v)
       \/ \E k \in Homed : Del(k) \/ Get(k) \/ GetFails(k)
       \/ GetSize \/ GetKeys \/ GetKeysFails \/ GetKeysCut
       \/ \E k \in Key : Undefined(k)

Spec == Init /\ [][Next]_vars
-----------------------------------------------------------------------------
(* The table is sound: every entry is in the list of its hash code, and    *)
(* list.c's order holds, "a entry menor deve ficar na cabeça da lista",    *)
(* with no key twice, after any sequence of calls, failed ones included.   *)
WellFormed ==
    /\ DOMAIN lists = Row
    /\ \A i \in Row : lists[i] \in Seq(Entry)
    /\ \A i \in Row : \A p \in DOMAIN lists[i] :
          /\ hash_code(lists[i][p].key) = i
          /\ \A q \in 1 .. p - 1 : lists[i][q].key < lists[i][p].key

(* The table is a dictionary: no caller sees rows, lists or their order,    *)
(* and table_size() and table_get_keys() agree with table_get().  It is    *)
(* weaker than table.h where some row is empty, and ends with a key that   *)
(* has none.                                                               *)
Dict == INSTANCE Dictionary WITH
    Key <- Homed, Wild <- Key \ Homed,
    map <- [k \in Homed |-> Lookup(k)],
    gap <- Gap

IsDictionary == Dict!DSpec
=============================================================================
