----------------------------- MODULE Dictionary -----------------------------
(***************************************************************************)
(* What table.h promises a caller: a map from keys to values, and a result *)
(* for every call.  A call fails only if an allocation failed in it, and   *)
(* then changes nothing.  Four weaknesses of the code stand out as actions *)
(* or alternatives of their own: a put that loses the entry it replaces, a *)
(* list of keys that is cut short, one that is refused because of a gap,   *)
(* and the end of every promise.                                           *)
(***************************************************************************)
EXTENDS Naturals, FiniteSets, Sequences

CONSTANTS
    Key,        \* the keys
    Wild,       \* keys for which nothing is promised
    Value,      \* the values
    Absent,     \* no value
    Error,      \* the result of a call that failed
    MemoryFails \* whether malloc() may return NULL

VARIABLES
    map,        \* the entries
    gap,        \* whether the keys cannot be listed
    last        \* the last call, with its result

Call(op, k, v, r) == [op |-> op, key |-> k, value |-> v, result |-> r, short |-> FALSE]
NoCall == Call("none", Absent, Absent, 0)

(* A call in which an allocation failed.                                   *)
ShortCall(op, k, v, r) == MemoryFails /\ last' = [Call(op, k, v, r) EXCEPT !.short = TRUE]

Present == {k \in Key : map[k] # Absent}

(* The arrays that hold every element of S once.                           *)
Listings(S) == {f \in [1 .. Cardinality(S) -> S] : \A x \in S : \E i \in DOMAIN f : f[i] = x}

DInit == map = [k \in Key |-> Absent] /\ last = NoCall

DPut == \E k \in Key, v \in Value :
    /\ map' = [map EXCEPT ![k] = v]
    /\ last' = Call("put", k, v, 0)

DPutFails == \E k \in Key \cup Wild, v \in Value :
    /\ ShortCall("put", k, v, Error)
    /\ UNCHANGED map

DPutLoses == \E k \in Present, v \in Value :
    /\ map' = [map EXCEPT ![k] = Absent]
    /\ ShortCall("put", k, v, 0)

DRemove == \E k \in Key :
    /\ map' = [map EXCEPT ![k] = Absent]
    /\ last' = Call("remove", k, Absent, IF k \in Present THEN 0 ELSE 1)

DGet == \E k \in Key :
    /\ last' = Call("get", k, Absent, map[k])
    /\ UNCHANGED map

DGetFails == \E k \in Present :
    /\ ShortCall("get", k, Absent, Absent)
    /\ UNCHANGED map

DSize ==
    /\ last' = Call("size", Absent, Absent, Cardinality(Present))
    /\ UNCHANGED map

DGetKeys ==
    /\ UNCHANGED map
    /\ IF gap THEN last' = Call("getkeys", Absent, Absent, Error)
              ELSE \E s \in Listings(Present) : last' = Call("getkeys", Absent, Absent, s)

DGetKeysFails ==
    /\ ShortCall("getkeys", Absent, Absent, Error)
    /\ UNCHANGED map

DGetKeysCut ==
    /\ UNCHANGED map /\ ~gap
    /\ \E s \in Listings(Present) : \E n \in 0 .. Len(s) - 1 :
          ShortCall("getkeys", Absent, Absent, SubSeq(s, 1, n))

DUndefined == \E k \in Key \cup Wild :
    /\ k \in Wild \/ MemoryFails
    /\ last' = Call("undefined", k, Absent, 0)
    /\ UNCHANGED map

DNext ==
    /\ last.op # "undefined"
    /\ \/ DPut \/ DPutFails \/ DPutLoses
       \/ DRemove \/ DGet \/ DGetFails
       \/ DSize \/ DGetKeys \/ DGetKeysFails \/ DGetKeysCut
       \/ DUndefined

DSpec == DInit /\ [][DNext]_<<map, last>>
=============================================================================
