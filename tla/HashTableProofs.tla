-------------------------- MODULE HashTableProofs --------------------------
(***************************************************************************)
(* Proofs about HashTable, for any keys, values, hash function and number  *)
(* of lists: that the table is sound, and that it implements Dictionary;   *)
(* and that serialization.c gives back any array of keys.                  *)
(*                                                                         *)
(* The lemmas about list.c say what list_get(), list_remove(), insert() and*)
(* list_add() do to a sorted list.  The invariant TableInv follows: every  *)
(* list is sorted and holds keys of its own hash code.  From it, the map   *)
(* of a table changes at one key in each call, and table_size() and        *)
(* table_get_keys() count and list its keys.  These two and the walk of    *)
(* buffer_to_keyArray() are recursive functions: what they compute is      *)
(* shown by a smallest counterexample.                                     *)
(***************************************************************************)
EXTENDS KeyArrays, FiniteSetTheorems, SequenceTheorems, TLAPS

(* A set of places in a list has a first one: strict inclusion of the      *)
(* parts before a place is well founded.                                   *)
Upto(i, S) == {j \in S : j < i}

LEMMA Least ==
    ASSUME NEW n \in Nat, NEW S \in SUBSET (1 .. n), S # {}
    PROVE  Min(S) \in S /\ \A j \in S : Min(S) <= j
<1> DEFINE P == {Upto(i, S) : i \in S}
<1>1. \A i \in S : i \in Int
  OBVIOUS
<1>2. IsFiniteSet(S)
  <2>1. IsFiniteSet(1 .. n)
    BY FS_Interval
  <2>2. QED
    BY <2>1, FS_Subset
<1>3. IsWellFoundedOn(StrictSubsetOrdering(S), SUBSET S)
  BY <1>2, FS_FiniteSubsetsOfFinite, FS_StrictSubsetOrderingWellFounded
<1>4. P \subseteq SUBSET S /\ P # {}
  BY DEF Upto
<1>5. PICK Q \in P : \A R \in P : ~(<<R, Q>> \in StrictSubsetOrdering(S))
  BY <1>3, <1>4, WFMin
<1>6. PICK i \in S : Q = Upto(i, S)
  BY <1>5
<1>7. ASSUME NEW j \in S, j < i PROVE FALSE
  <2>1. Upto(j, S) \subseteq Upto(i, S) /\ Upto(i, S) \in SUBSET S
    <3>1. ASSUME NEW x \in Upto(j, S) PROVE x \in Upto(i, S)
      <4>1. x \in S /\ x < j
        BY DEF Upto
      <4>2. x \in Int /\ j \in Int /\ i \in Int
        BY <1>1, <4>1
      <4>3. x < i
        BY <1>7, <4>1, <4>2
      <4>4. QED
        BY <4>1, <4>3 DEF Upto
    <3>2. QED
      BY <3>1 DEF Upto
  <2>2. j \in Upto(i, S) /\ j \notin Upto(j, S)
    BY <1>1, <1>7 DEF Upto
  <2>3. Upto(j, S) \in P
    BY <1>7
  <2>4. QED
    BY <1>5, <1>6, <2>1, <2>2, <2>3 DEF StrictSubsetOrdering
<1>8. \A j \in S : i <= j
  BY <1>1, <1>7
<1>9. QED
  BY <1>8 DEF Min

LEMMA RemoveAtIs ==
    ASSUME NEW T, NEW L \in Seq(T), NEW i \in 1 .. Len(L)
    PROVE  /\ RemoveAt(L, i) \in Seq(T) /\ Len(RemoveAt(L, i)) = Len(L) - 1
           /\ \A j \in 1 .. Len(L) - 1 : RemoveAt(L, i)[j] = IF j < i THEN L[j] ELSE L[j + 1]
<1> DEFINE a == SubSeq(L, 1, i - 1)
           b == SubSeq(L, i + 1, Len(L))
<1>1. Len(L) \in Nat /\ \A j \in 1 .. Len(L) : L[j] \in T
  BY LenProperties, ElementOfSeq
<1>2. a \in Seq(T) /\ Len(a) = i - 1 /\ \A j \in 1 .. i - 1 : a[j] = L[j]
  <2>1. /\ SubSeq(L, 1, i - 1) \in Seq(T)
        /\ Len(SubSeq(L, 1, i - 1)) = IF 1 <= i - 1 THEN (i - 1) - 1 + 1 ELSE 0
        /\ \A j \in 1 .. (i - 1) - 1 + 1 : SubSeq(L, 1, i - 1)[j] = L[1 + j - 1]
    BY <1>1, SubSeqProperties
  <2>2. QED
    BY <1>1, <2>1
<1>3. b \in Seq(T) /\ Len(b) = Len(L) - i /\ \A j \in 1 .. Len(L) - i : b[j] = L[i + j]
  <2>1. /\ SubSeq(L, i + 1, Len(L)) \in Seq(T)
        /\ Len(SubSeq(L, i + 1, Len(L))) = IF i + 1 <= Len(L) THEN Len(L) - (i + 1) + 1 ELSE 0
        /\ \A j \in 1 .. Len(L) - (i + 1) + 1 : SubSeq(L, i + 1, Len(L))[j] = L[(i + 1) + j - 1]
    BY <1>1, SubSeqProperties
  <2>2. QED
    BY <1>1, <2>1
<1> HIDE DEF a, b
<1>4. /\ a \o b \in Seq(T) /\ Len(a \o b) = Len(a) + Len(b)
      /\ \A j \in 1 .. Len(a) + Len(b) : (a \o b)[j] = IF j <= Len(a) THEN a[j] ELSE b[j - Len(a)]
  BY <1>2, <1>3, ConcatProperties
<1>5. RemoveAt(L, i) = a \o b
  BY DEF RemoveAt, a, b
<1>6. ASSUME NEW j \in 1 .. Len(L) - 1 PROVE (a \o b)[j] = IF j < i THEN L[j] ELSE L[j + 1]
  <2>1. CASE j < i
    BY <1>1, <1>2, <1>3, <1>4, <2>1
  <2>2. CASE ~(j < i)
    <3>1. j - (i - 1) \in 1 .. Len(L) - i /\ i + (j - (i - 1)) = j + 1
      BY <1>1, <2>2
    <3>2. b[j - (i - 1)] = L[j + 1]
      BY <1>3, <3>1
    <3>3. QED
      BY <1>1, <1>2, <1>3, <1>4, <2>2, <3>2
  <2>3. QED
    BY <2>1, <2>2
<1>7. QED
  BY <1>1, <1>2, <1>3, <1>4, <1>5, <1>6

LEMMA InsertAtIs ==
    ASSUME NEW T, NEW L \in Seq(T), NEW e \in T, NEW i \in 1 .. Len(L) + 1
    PROVE  /\ InsertAt(L, i, e) \in Seq(T) /\ Len(InsertAt(L, i, e)) = Len(L) + 1
           /\ \A j \in 1 .. Len(L) + 1 :
                 InsertAt(L, i, e)[j] = IF j < i THEN L[j] ELSE IF j = i THEN e ELSE L[j - 1]
<1> DEFINE a == SubSeq(L, 1, i - 1)
           b == SubSeq(L, i, Len(L))
<1>1. Len(L) \in Nat /\ \A j \in 1 .. Len(L) : L[j] \in T
  BY LenProperties, ElementOfSeq
<1>2. a \in Seq(T) /\ Len(a) = i - 1 /\ \A j \in 1 .. i - 1 : a[j] = L[j]
  <2>1. /\ SubSeq(L, 1, i - 1) \in Seq(T)
        /\ Len(SubSeq(L, 1, i - 1)) = IF 1 <= i - 1 THEN (i - 1) - 1 + 1 ELSE 0
        /\ \A j \in 1 .. (i - 1) - 1 + 1 : SubSeq(L, 1, i - 1)[j] = L[1 + j - 1]
    BY <1>1, SubSeqProperties
  <2>2. QED
    BY <1>1, <2>1
<1>3. b \in Seq(T) /\ Len(b) = Len(L) + 1 - i /\ \A j \in 1 .. Len(L) + 1 - i : b[j] = L[i + j - 1]
  <2>1. /\ SubSeq(L, i, Len(L)) \in Seq(T)
        /\ Len(SubSeq(L, i, Len(L))) = IF i <= Len(L) THEN Len(L) - i + 1 ELSE 0
        /\ \A j \in 1 .. Len(L) - i + 1 : SubSeq(L, i, Len(L))[j] = L[i + j - 1]
    BY <1>1, SubSeqProperties
  <2>2. QED
    BY <1>1, <2>1
<1> HIDE DEF a, b
<1>4. <<e>> \in Seq(T) /\ Len(<<e>>) = 1 /\ <<e>>[1] = e
  OBVIOUS
<1>5. /\ a \o <<e>> \in Seq(T) /\ Len(a \o <<e>>) = i
      /\ \A j \in 1 .. i : (a \o <<e>>)[j] = IF j < i THEN L[j] ELSE e
  <2>1. /\ a \o <<e>> \in Seq(T) /\ Len(a \o <<e>>) = Len(a) + Len(<<e>>)
        /\ \A j \in 1 .. Len(a) + Len(<<e>>) :
              (a \o <<e>>)[j] = IF j <= Len(a) THEN a[j] ELSE <<e>>[j - Len(a)]
    BY <1>2, <1>4, ConcatProperties
  <2>2. Len(a) + Len(<<e>>) = i
    BY <1>1, <1>2, <1>4
  <2>3. ASSUME NEW j \in 1 .. i PROVE (a \o <<e>>)[j] = IF j < i THEN L[j] ELSE e
    <3>1. CASE j < i
      BY <1>1, <1>2, <2>1, <2>2, <3>1
    <3>2. CASE j = i
      <4>1. ~(j <= Len(a)) /\ j - Len(a) = 1
        BY <1>1, <1>2, <3>2
      <4>2. QED
        BY <1>4, <2>1, <2>2, <3>2, <4>1
    <3>3. j < i \/ j = i
      BY <1>1
    <3>4. QED
      BY <3>1, <3>2, <3>3
  <2>4. QED
    BY <2>1, <2>2, <2>3
<1>6. /\ (a \o <<e>>) \o b \in Seq(T) /\ Len((a \o <<e>>) \o b) = i + Len(b)
      /\ \A j \in 1 .. i + Len(b) :
            ((a \o <<e>>) \o b)[j] = IF j <= i THEN (a \o <<e>>)[j] ELSE b[j - i]
  <2> DEFINE c == a \o <<e>>
  <2>1. c \in Seq(T) /\ Len(c) = i
    BY <1>5
  <2> HIDE DEF c
  <2>2. /\ c \o b \in Seq(T) /\ Len(c \o b) = Len(c) + Len(b)
        /\ \A j \in 1 .. Len(c) + Len(b) : (c \o b)[j] = IF j <= Len(c) THEN c[j] ELSE b[j - Len(c)]
    BY <1>3, <2>1, ConcatProperties
  <2>3. QED
    BY <2>1, <2>2 DEF c
<1>7. InsertAt(L, i, e) = (a \o <<e>>) \o b
  BY DEF InsertAt, a, b
<1>8. ASSUME NEW j \in 1 .. Len(L) + 1
      PROVE  ((a \o <<e>>) \o b)[j] = IF j < i THEN L[j] ELSE IF j = i THEN e ELSE L[j - 1]
  <2>1. j \in 1 .. i + Len(b)
    BY <1>1, <1>3
  <2>2. CASE j <= i
    BY <1>1, <1>5, <1>6, <2>1, <2>2
  <2>3. CASE ~(j <= i)
    <3>1. j - i \in 1 .. Len(L) + 1 - i /\ i + (j - i) - 1 = j - 1
      BY <1>1, <2>3
    <3>2. b[j - i] = L[j - 1]
      BY <1>3, <3>1
    <3>3. ~(j < i) /\ j # i
      BY <1>1, <2>3
    <3>4. QED
      BY <1>6, <2>1, <2>3, <3>2, <3>3
  <2>4. QED
    BY <2>2, <2>3
<1>9. QED
  BY <1>1, <1>3, <1>6, <1>7, <1>8
-----------------------------------------------------------------------------
(* A list in the order of its keys, and what is in it.                     *)
Sorted(L) == \A p \in 1 .. Len(L) : \A q \in 1 .. p - 1 : L[q].key < L[p].key
Has(L, e) == \E i \in 1 .. Len(L) : L[i] = e

LEMMA Keys ==
    /\ \A k \in Key : k \in Nat
    /\ \A e \in Entry : e.key \in Key /\ e.key \in Nat /\ e.value \in Value
    /\ Homed \subseteq Key /\ \A k \in Homed : hash_code(k) \in Row
<1>1. /\ \A k \in Key : k \in Nat
      /\ \A e \in Entry : e.key \in Key /\ e.key \in Nat /\ e.value \in Value
  BY HashAssumption DEF Entry
<1>2. Homed \subseteq Key /\ \A k \in Homed : hash_code(k) \in Row
  BY DEF Homed
<1>3. QED
  BY <1>1, <1>2

LEMMA Places ==
    ASSUME NEW L \in Seq(Entry)
    PROVE  /\ Len(L) \in Nat /\ DOMAIN L = 1 .. Len(L)
           /\ \A i \in 1 .. Len(L) : L[i] \in Entry /\ L[i].key \in Key /\ L[i].key \in Nat
BY LenProperties, ElementOfSeq, Keys

(* list_get() finds the entry of a key that the list has.                  *)
LEMMA GetIs ==
    ASSUME NEW L \in Seq(Entry), NEW k
    PROVE  /\ list_get(L, k) \in 0 .. Len(L)
           /\ list_get(L, k) = 0 <=> \A i \in 1 .. Len(L) : L[i].key # k
           /\ list_get(L, k) # 0 => L[list_get(L, k)].key = k
<1> DEFINE I == {i \in 1 .. Len(L) : L[i].key = k}
<1>1. Len(L) \in Nat /\ I \in SUBSET (1 .. Len(L))
  BY Places
<1>2. list_get(L, k) = IF I # {} THEN Min(I) ELSE 0
  BY DEF list_get, SelectInSeq
<1>3. I # {} => Min(I) \in I
  BY <1>1, Least
<1>4. QED
  BY <1>1, <1>2, <1>3

(* In a sorted list, a later place has a larger key and no other.          *)
LEMMA Order ==
    ASSUME NEW L \in Seq(Entry), Sorted(L), NEW i \in 1 .. Len(L), NEW j \in 1 .. Len(L)
    PROVE  /\ i < j <=> L[i].key < L[j].key
           /\ L[i].key = L[j].key => i = j
<1>1. i \in Int /\ j \in Int /\ L[i].key \in Int /\ L[j].key \in Int
  BY Places
<1>2. i < j => L[i].key < L[j].key
  <2>1. i < j => i \in 1 .. j - 1
    BY <1>1
  <2>2. QED
    BY <2>1 DEF Sorted
<1>3. j < i => L[j].key < L[i].key
  <2>1. j < i => j \in 1 .. i - 1
    BY <1>1
  <2>2. QED
    BY <2>1 DEF Sorted
<1>4. QED
  BY <1>1, <1>2, <1>3

(* list_remove() takes out the entry of a key and no other.                *)
LEMMA RemoveIs ==
    ASSUME NEW L \in Seq(Entry), Sorted(L), NEW k \in Key
    PROVE  /\ list_remove(L, k) \in Seq(Entry) /\ Sorted(list_remove(L, k))
           /\ \A e : Has(list_remove(L, k), e) <=> Has(L, e) /\ e.key # k
<1>1. CASE list_get(L, k) = 0
  BY <1>1, GetIs DEF list_remove, Has
<1>2. CASE list_get(L, k) # 0
  <2> DEFINE p == list_get(L, k)
             R == RemoveAt(L, p)
  <2>1. p \in 1 .. Len(L) /\ L[p].key = k /\ Len(L) \in Nat
    BY <1>2, GetIs, Places
  <2> HIDE DEF p
  <2>2. /\ R \in Seq(Entry) /\ Len(R) = Len(L) - 1
        /\ \A j \in 1 .. Len(L) - 1 : R[j] = IF j < p THEN L[j] ELSE L[j + 1]
    BY <2>1, RemoveAtIs
  <2>3. list_remove(L, k) = R
    BY <1>2 DEF list_remove, p
  <2> HIDE DEF R
  <2>4. ASSUME NEW i \in 1 .. Len(R), NEW j \in 1 .. i - 1 PROVE R[j].key < R[i].key
    <3> DEFINE a == IF j < p THEN j ELSE j + 1
               b == IF i < p THEN i ELSE i + 1
    <3>1. R[j] = L[a] /\ R[i] = L[b] /\ a \in 1 .. Len(L) /\ b \in 1 .. Len(L) /\ a < b
      BY <2>1, <2>2
    <3>2. QED
      BY <3>1, Order
  <2>5. ASSUME NEW e, Has(R, e) PROVE Has(L, e) /\ e.key # k
    <3>1. PICK j \in 1 .. Len(R) : R[j] = e
      BY <2>5 DEF Has
    <3> DEFINE a == IF j < p THEN j ELSE j + 1
    <3>2. e = L[a] /\ a \in 1 .. Len(L) /\ a # p
      BY <2>1, <2>2, <3>1
    <3>3. QED
      BY <2>1, <3>2, Order DEF Has
  <2>6. ASSUME NEW e, Has(L, e), e.key # k PROVE Has(R, e)
    <3>1. PICK i \in 1 .. Len(L) : L[i] = e
      BY <2>6 DEF Has
    <3> DEFINE a == IF i < p THEN i ELSE i - 1
    <3>2. i # p /\ a \in 1 .. Len(R)
      BY <2>1, <2>2, <2>6, <3>1
    <3>3. R[a] = e
      BY <2>1, <2>2, <3>1, <3>2
    <3>4. QED
      BY <3>2, <3>3 DEF Has
  <2>7. QED
    BY <2>2, <2>3, <2>4, <2>5, <2>6 DEF Sorted
<1>3. QED
  BY <1>1, <1>2

(* insert() keeps the order, in a list without the key.                    *)
LEMMA InsertIs ==
    ASSUME NEW L \in Seq(Entry), Sorted(L), NEW e \in Entry,
           \A i \in 1 .. Len(L) : L[i].key # e.key
    PROVE  /\ insert(L, e) \in Seq(Entry) /\ Sorted(insert(L, e))
           /\ \A x : Has(insert(L, e), x) <=> x = e \/ Has(L, x)
<1> DEFINE I == {i \in 1 .. Len(L) : e.key <= L[i].key}
           p == find_insert_position(L, e)
           R == InsertAt(L, p, e)
<1>1. /\ Len(L) \in Nat /\ I \in SUBSET (1 .. Len(L)) /\ e.key \in Int
      /\ \A i \in 1 .. Len(L) : L[i].key \in Int
  BY Places, Keys
<1>2. p = IF I = {} THEN Len(L) + 1 ELSE Min(I)
  <2>1. I # {} => Min(I) # 0
    <3>1. I # {} => Min(I) \in I
      BY <1>1, Least
    <3>2. 0 \notin I
      BY <1>1
    <3>3. QED
      BY <3>1, <3>2
  <2>2. QED
    BY <2>1 DEF find_insert_position, SelectInSeq
<1>3. I # {} => Min(I) \in I /\ \A j \in I : Min(I) <= j
  BY <1>1, Least
<1>4. /\ p \in 1 .. Len(L) + 1
      /\ \A i \in 1 .. Len(L) : IF i < p THEN L[i].key < e.key ELSE e.key < L[i].key
  <2>1. CASE I = {}
    BY <1>1, <1>2, <2>1
  <2>2. CASE I # {}
    <3>1. p \in I /\ \A j \in I : p <= j
      BY <1>2, <1>3, <2>2
    <3> HIDE DEF p
    <3>2. ASSUME NEW i \in 1 .. Len(L), i < p PROVE L[i].key < e.key
      BY <1>1, <3>1, <3>2
    <3>3. ASSUME NEW i \in 1 .. Len(L), ~(i < p) PROVE e.key < L[i].key
      <4>1. e.key <= L[p].key /\ p \in 1 .. Len(L)
        BY <3>1
      <4>2. L[p].key <= L[i].key
        BY <1>1, <3>3, <4>1, Order
      <4>3. QED
        BY <1>1, <4>1, <4>2
    <3>4. QED
      BY <1>1, <3>1, <3>2, <3>3
  <2>3. QED
    BY <2>1, <2>2
<1> HIDE DEF p, I
<1>5. /\ R \in Seq(Entry) /\ Len(R) = Len(L) + 1
      /\ \A j \in 1 .. Len(L) + 1 : R[j] = IF j < p THEN L[j] ELSE IF j = p THEN e ELSE L[j - 1]
  BY <1>4, InsertAtIs
<1>6. insert(L, e) = R
  BY DEF insert, p
<1> HIDE DEF R
<1>7. ASSUME NEW i \in 1 .. Len(R), NEW j \in 1 .. i - 1 PROVE R[j].key < R[i].key
  <2>1. CASE i = p
    BY <1>1, <1>4, <1>5, <2>1
  <2>2. CASE j = p
    <3>1. i - 1 \in 1 .. Len(L) /\ ~(i - 1 < p) /\ R[i] = L[i - 1] /\ R[j] = e
      BY <1>1, <1>4, <1>5, <2>2
    <3>2. QED
      BY <1>4, <3>1
  <2>3. CASE i # p /\ j # p
    <3> DEFINE a == IF j < p THEN j ELSE j - 1
               b == IF i < p THEN i ELSE i - 1
    <3>1. R[j] = L[a] /\ R[i] = L[b] /\ a \in 1 .. Len(L) /\ b \in 1 .. Len(L) /\ a < b
      BY <1>1, <1>4, <1>5, <2>3
    <3>2. QED
      BY <3>1, Order
  <2>4. QED
    BY <2>1, <2>2, <2>3
<1>8. ASSUME NEW x, Has(R, x) PROVE x = e \/ Has(L, x)
  <2>1. PICK j \in 1 .. Len(R) : R[j] = x
    BY <1>8 DEF Has
  <2> DEFINE a == IF j < p THEN j ELSE j - 1
  <2>2. CASE j # p
    <3>1. x = L[a] /\ a \in 1 .. Len(L)
      BY <1>1, <1>4, <1>5, <2>1, <2>2
    <3>2. QED
      BY <3>1 DEF Has
  <2>3. QED
    BY <1>1, <1>4, <1>5, <2>1, <2>2
<1>9. ASSUME NEW x, Has(L, x) PROVE Has(R, x)
  <2>1. PICK i \in 1 .. Len(L) : L[i] = x
    BY <1>9 DEF Has
  <2> DEFINE a == IF i < p THEN i ELSE i + 1
  <2>2. a \in 1 .. Len(R) /\ R[a] = x
    BY <1>1, <1>4, <1>5, <2>1
  <2>3. QED
    BY <2>2 DEF Has
<1>10. Has(R, e)
  BY <1>4, <1>5 DEF Has
<1>11. QED
  BY <1>5, <1>6, <1>7, <1>8, <1>9, <1>10 DEF Sorted

(* list_add() replaces the entry of the key, or adds it in its place.      *)
LEMMA AddIs ==
    ASSUME NEW L \in Seq(Entry), Sorted(L), NEW e \in Entry
    PROVE  /\ list_add(L, e) \in Seq(Entry) /\ Sorted(list_add(L, e))
           /\ \A x : Has(list_add(L, e), x) <=> x = e \/ (Has(L, x) /\ x.key # e.key)
<1> DEFINE R == list_remove(L, e.key)
<1>1. /\ R \in Seq(Entry) /\ Sorted(R)
      /\ \A x : Has(R, x) <=> Has(L, x) /\ x.key # e.key
  BY Keys, RemoveIs
<1> HIDE DEF R
<1>2. \A i \in 1 .. Len(R) : R[i].key # e.key
  BY <1>1 DEF Has
<1>3. QED
  BY <1>1, <1>2, InsertIs DEF list_add, R
-----------------------------------------------------------------------------
(* The invariant: WellFormed with the type of the lists.                   *)
Rows == lists \in [Row -> Seq(Entry)]
InOrder == \A i \in Row : Sorted(lists[i])
AtHome == \A i \in Row : \A e : Has(lists[i], e) => hash_code(e.key) = i
TableInv == Rows /\ InOrder /\ AtHome

LEMMA InvImpliesWellFormed == TableInv => WellFormed
<1> SUFFICES ASSUME TableInv PROVE WellFormed
  OBVIOUS
<1>1. DOMAIN lists = Row /\ \A i \in Row : lists[i] \in Seq(Entry)
  BY DEF TableInv, Rows
<1>2. ASSUME NEW i \in Row, NEW p \in DOMAIN lists[i]
      PROVE  /\ hash_code(lists[i][p].key) = i
             /\ \A q \in 1 .. p - 1 : lists[i][q].key < lists[i][p].key
  <2>1. p \in 1 .. Len(lists[i])
    BY <1>1, Places
  <2>2. Has(lists[i], lists[i][p])
    BY <2>1 DEF Has
  <2>3. QED
    BY <2>1, <2>2 DEF TableInv, InOrder, AtHome, Sorted
<1>3. QED
  BY <1>1, <1>2 DEF WellFormed

LEMMA InitTableInv == Init => TableInv
<1> SUFFICES ASSUME Init PROVE TableInv
  OBVIOUS
<1>1. lists \in [Row -> Seq(Entry)] /\ \A i \in Row : Len(lists[i]) = 0
  BY EmptySeq DEF Init
<1>2. QED
  BY <1>1 DEF TableInv, Rows, InOrder, AtHome, Sorted, Has

(* A call changes one list, the one of its key.                            *)
LEMMA OneList ==
    ASSUME TableInv, NEW k \in Homed, NEW L \in Seq(Entry), Sorted(L),
           \A e : Has(L, e) => e.key = k \/ Has(lists[hash_code(k)], e),
           lists' = [lists EXCEPT ![hash_code(k)] = L]
    PROVE  TableInv'
<1>1. hash_code(k) \in Row
  BY Keys
<1>2. /\ lists' \in [Row -> Seq(Entry)] /\ lists'[hash_code(k)] = L
      /\ \A i \in Row : i # hash_code(k) => lists'[i] = lists[i]
  BY <1>1 DEF TableInv, Rows
<1>3. InOrder'
  BY <1>2 DEF TableInv, InOrder
<1>4. ASSUME NEW i \in Row, NEW e, Has(lists'[i], e) PROVE hash_code(e.key) = i
  <2>1. CASE i = hash_code(k)
    <3>1. e.key = k \/ Has(lists[i], e)
      BY <1>2, <1>4, <2>1
    <3>2. QED
      BY <2>1, <3>1 DEF TableInv, AtHome
  <2>2. CASE i # hash_code(k)
    BY <1>2, <1>4, <2>2 DEF TableInv, AtHome
  <2>3. QED
    BY <2>1, <2>2
<1>5. QED
  BY <1>2, <1>3, <1>4 DEF TableInv, Rows, AtHome

LEMMA TableInvStep == TableInv /\ [Next]_vars => TableInv'
<1> SUFFICES ASSUME TableInv, [Next]_vars PROVE TableInv'
  OBVIOUS
<1>1. ASSUME UNCHANGED lists PROVE TableInv'
  BY <1>1 DEF TableInv, Rows, InOrder, AtHome
<1>2. \A k \in Homed : lists[hash_code(k)] \in Seq(Entry) /\ Sorted(lists[hash_code(k)])
  BY Keys DEF TableInv, Rows, InOrder
<1>3. ASSUME NEW k \in Homed, NEW v \in Value, Put(k, v) PROVE TableInv'
  <2> DEFINE e == [key |-> k, value |-> v]
             L == list_add(lists[hash_code(k)], e)
  <2>1. e \in Entry /\ e.key = k
    BY Keys DEF Entry
  <2> HIDE DEF e
  <2>2. /\ L \in Seq(Entry) /\ Sorted(L)
        /\ \A x : Has(L, x) => x = e \/ Has(lists[hash_code(k)], x)
    BY <1>2, <2>1, AddIs
  <2>3. lists' = [lists EXCEPT ![hash_code(k)] = L]
    BY <1>3 DEF Put, e
  <2> HIDE DEF L
  <2>4. QED
    BY <2>1, <2>2, <2>3, OneList
<1>4. ASSUME NEW k \in Homed,
             lists' = [lists EXCEPT ![hash_code(k)] = list_remove(@, k)]
      PROVE  TableInv'
  <2> DEFINE L == list_remove(lists[hash_code(k)], k)
  <2>1. /\ L \in Seq(Entry) /\ Sorted(L)
        /\ \A x : Has(L, x) => Has(lists[hash_code(k)], x)
    BY <1>2, Keys, RemoveIs
  <2>2. lists' = [lists EXCEPT ![hash_code(k)] = L]
    BY <1>4
  <2> HIDE DEF L
  <2>3. QED
    BY <2>1, <2>2, OneList
<1>5. ASSUME NEW k \in Homed, NEW v \in Value, PutNodeFails(k, v) PROVE TableInv'
  BY <1>4, <1>5 DEF PutNodeFails
<1>6. ASSUME NEW k \in Homed, Del(k) PROVE TableInv'
  BY <1>4, <1>6 DEF Del
<1>7. ASSUME NEW k \in Key, NEW v \in Value, PutFails(k, v) PROVE TableInv'
  BY <1>1, <1>7 DEF PutFails
<1>8. ASSUME NEW k \in Key, Get(k) \/ GetFails(k) \/ Undefined(k) PROVE TableInv'
  BY <1>1, <1>8 DEF Get, GetFails, Undefined
<1>9. GetSize \/ GetKeys \/ GetKeysFails \/ GetKeysCut \/ UNCHANGED vars => TableInv'
  BY <1>1 DEF GetSize, GetKeys, GetKeysFails, GetKeysCut, vars
<1>10. Homed \subseteq Key
  BY Keys
<1>11. QED
  BY <1>3, <1>5, <1>6, <1>7, <1>8, <1>9, <1>10 DEF Next

LEMMA TableInvariant == Spec => []TableInv
<1>1. TableInv /\ [Next]_vars => TableInv'
  BY TableInvStep
<1>2. QED
  BY <1>1, InitTableInv, PTL DEF Spec

(* After any sequence of calls, failed ones included, every entry is in    *)
(* the list of its hash code, and every list is in the order of its keys,  *)
(* with no key twice: for any keys, values, codes of any sign and rows.    *)
THEOREM TableSound == Spec => []WellFormed
BY TableInvariant, InvImpliesWellFormed, PTL
-----------------------------------------------------------------------------
(* What table_get() finds, for one key in one list.                        *)
Found(L, k) == IF list_get(L, k) = 0 THEN Absent ELSE L[list_get(L, k)].value

LEMMA LookupFinds == \A k \in Homed : Lookup(k) = Found(lists[hash_code(k)], k)
BY DEF Lookup, Found

LEMMA FoundIs ==
    ASSUME NEW L \in Seq(Entry), Sorted(L), NEW k \in Key
    PROVE  /\ Found(L, k) = Absent <=> list_get(L, k) = 0
           /\ Found(L, k) = Absent <=> \A e : Has(L, e) => e.key # k
           /\ \A e : Has(L, e) /\ e.key = k => Found(L, k) = e.value
<1> DEFINE p == list_get(L, k)
<1>1. /\ p \in 0 .. Len(L)
      /\ p = 0 <=> \A i \in 1 .. Len(L) : L[i].key # k
      /\ p # 0 => L[p].key = k
  BY GetIs
<1>2. Found(L, k) = IF p = 0 THEN Absent ELSE L[p].value
  BY DEF Found
<1> HIDE DEF p
<1>3. p # 0 => p \in 1 .. Len(L) /\ L[p].value # Absent
  <2>1. p # 0 => p \in 1 .. Len(L)
    BY <1>1, Places
  <2>2. \A i \in 1 .. Len(L) : L[i].value # Absent
    BY Places, Keys, HashAssumption
  <2>3. QED
    BY <2>1, <2>2
<1>4. Found(L, k) = Absent <=> p = 0
  BY <1>2, <1>3
<1>5. p = 0 <=> \A e : Has(L, e) => e.key # k
  BY <1>1, <1>3 DEF Has
<1>6. ASSUME NEW e, Has(L, e), e.key = k PROVE Found(L, k) = e.value
  <2>1. PICK i \in 1 .. Len(L) : L[i] = e
    BY <1>6 DEF Has
  <2>2. p # 0 /\ p \in 1 .. Len(L) /\ L[p].key = L[i].key
    BY <1>1, <1>3, <1>6, <2>1
  <2>3. p = i
    BY <2>1, <2>2, Order
  <2>4. QED
    BY <1>2, <2>1, <2>2, <2>3
<1>7. QED
  BY <1>4, <1>5, <1>6 DEF p

(* Lists with the same entries of a key give it the same value.            *)
LEMMA SameFound ==
    ASSUME NEW L \in Seq(Entry), Sorted(L), NEW M \in Seq(Entry), Sorted(M), NEW k \in Key,
           \A e : e.key = k => (Has(L, e) <=> Has(M, e))
    PROVE  Found(L, k) = Found(M, k)
<1>1. CASE \A e : Has(L, e) => e.key # k
  <2>1. \A e : Has(M, e) => e.key # k
    BY <1>1
  <2>2. QED
    BY <1>1, <2>1, FoundIs
<1>2. CASE \E e : Has(L, e) /\ e.key = k
  <2>1. PICK e : Has(L, e) /\ e.key = k
    BY <1>2
  <2>2. Found(L, k) = e.value /\ Found(M, k) = e.value
    BY <2>1, FoundIs
  <2>3. QED
    BY <2>2
<1>3. QED
  BY <1>1, <1>2

LEMMA FoundAdded ==
    ASSUME NEW L \in Seq(Entry), Sorted(L), NEW e \in Entry, NEW j \in Key
    PROVE  Found(list_add(L, e), j) = IF j = e.key THEN e.value ELSE Found(L, j)
<1> DEFINE M == list_add(L, e)
<1>1. /\ M \in Seq(Entry) /\ Sorted(M)
      /\ \A x : Has(M, x) <=> x = e \/ (Has(L, x) /\ x.key # e.key)
  BY AddIs
<1> HIDE DEF M
<1>2. CASE j = e.key
  <2>1. Has(M, e)
    BY <1>1
  <2>2. Found(M, j) = e.value
    BY <1>1, <1>2, <2>1, FoundIs
  <2>3. QED
    BY <1>2, <2>2 DEF M
<1>3. CASE j # e.key
  <2>1. \A x : x.key = j => (Has(M, x) <=> Has(L, x))
    BY <1>1, <1>3
  <2>2. Found(M, j) = Found(L, j)
    BY <1>1, <2>1, SameFound
  <2>3. QED
    BY <1>3, <2>2 DEF M
<1>4. QED
  BY <1>2, <1>3

LEMMA FoundRemoved ==
    ASSUME NEW L \in Seq(Entry), Sorted(L), NEW k \in Key, NEW j \in Key
    PROVE  Found(list_remove(L, k), j) = IF j = k THEN Absent ELSE Found(L, j)
<1> DEFINE M == list_remove(L, k)
<1>1. /\ M \in Seq(Entry) /\ Sorted(M)
      /\ \A x : Has(M, x) <=> Has(L, x) /\ x.key # k
  BY RemoveIs
<1> HIDE DEF M
<1>2. CASE j = k
  <2>1. \A e : Has(M, e) => e.key # j
    BY <1>1, <1>2
  <2>2. Found(M, j) = Absent
    BY <1>1, <2>1, FoundIs
  <2>3. QED
    BY <1>2, <2>2 DEF M
<1>3. CASE j # k
  <2>1. \A x : x.key = j => (Has(M, x) <=> Has(L, x))
    BY <1>1, <1>3
  <2>2. Found(M, j) = Found(L, j)
    BY <1>1, <2>1, SameFound
  <2>3. QED
    BY <1>3, <2>2 DEF M
<1>4. QED
  BY <1>2, <1>3
-----------------------------------------------------------------------------
(* The keys of the table, and those in one list.                           *)
Stored == {k \in Homed : Lookup(k) # Absent}
StoredIn(i) == {k \in Stored : hash_code(k) = i}

LEMMA StoredFinite == \A S \in SUBSET Stored : IsFiniteSet(S) /\ Cardinality(S) \in Nat
<1>1. \A S \in SUBSET Stored : IsFiniteSet(S)
  BY HashAssumption, Keys, FS_Subset DEF Stored
<1>2. QED
  BY <1>1, FS_CardinalityType

LEMMA StoredInIs ==
    ASSUME TableInv, NEW i \in Row
    PROVE  StoredIn(i) = {lists[i][p].key : p \in 1 .. Len(lists[i])}
<1>1. lists[i] \in Seq(Entry) /\ Sorted(lists[i])
  BY DEF TableInv, Rows, InOrder
<1>2. ASSUME NEW k \in StoredIn(i) PROVE \E p \in 1 .. Len(lists[i]) : lists[i][p].key = k
  <2>1. k \in Homed /\ k \in Key /\ hash_code(k) = i /\ Found(lists[i], k) # Absent
    BY LookupFinds, Keys DEF StoredIn, Stored
  <2>2. QED
    BY <1>1, <2>1, FoundIs DEF Has
<1>3. ASSUME NEW p \in 1 .. Len(lists[i]) PROVE lists[i][p].key \in StoredIn(i)
  <2> DEFINE k == lists[i][p].key
  <2>1. k \in Key /\ Has(lists[i], lists[i][p])
    BY <1>1, Places DEF Has
  <2>2. hash_code(k) = i /\ k \in Homed
    BY <2>1 DEF TableInv, AtHome, Homed
  <2>3. Found(lists[i], k) # Absent
    BY <1>1, <2>1, FoundIs
  <2>4. QED
    BY <2>1, <2>2, <2>3, LookupFinds DEF StoredIn, Stored
<1>4. QED
  BY <1>2, <1>3

(* A list is as long as it has keys.                                       *)
LEMMA Counted ==
    ASSUME TableInv, NEW i \in Row
    PROVE  Len(lists[i]) \in Nat /\ Cardinality(StoredIn(i)) = Len(lists[i])
<1> DEFINE n == Len(lists[i])
           f == [p \in 1 .. n |-> lists[i][p].key]
<1>1. lists[i] \in Seq(Entry) /\ Sorted(lists[i]) /\ n \in Nat
  BY LenProperties DEF TableInv, Rows, InOrder
<1>2. StoredIn(i) = {lists[i][p].key : p \in 1 .. n}
  BY StoredInIs
<1>3. \A p, q \in 1 .. n : lists[i][p].key = lists[i][q].key => p = q
  BY <1>1, Order
<1> HIDE DEF n
<1>4. f \in [1 .. n -> StoredIn(i)] /\ \A p \in 1 .. n : f[p] = lists[i][p].key
  BY <1>2
<1> HIDE DEF f
<1>5. f \in Bijection(1 .. n, StoredIn(i))
  <2>1. \A p, q \in 1 .. n : f[p] = f[q] => p = q
    BY <1>3, <1>4
  <2>2. \A k \in StoredIn(i) : \E p \in 1 .. n : f[p] = k
    BY <1>2, <1>4
  <2>3. QED
    BY <1>4, <2>1, <2>2 DEF Bijection, Injection, Surjection, IsInjective
<1>6. ExistsBijection(1 .. n, StoredIn(i))
  BY <1>5 DEF ExistsBijection
<1>7. QED
  BY <1>1, <1>6, FS_CountingElements DEF n
-----------------------------------------------------------------------------
(* The keys in some of the lists.                                          *)
StoredAmong(S) == {k \in Stored : hash_code(k) \in S}

LEMMA OneMore ==
    ASSUME TableInv, NEW S \in SUBSET Row, NEW i \in Row \ S
    PROVE  /\ StoredAmong(S \cup {i}) = StoredAmong(S) \cup StoredIn(i)
           /\ Cardinality(StoredAmong(S \cup {i})) = Len(lists[i]) + Cardinality(StoredAmong(S))
<1>1. /\ StoredAmong(S \cup {i}) = StoredAmong(S) \cup StoredIn(i)
      /\ StoredAmong(S) \cap StoredIn(i) = {}
  BY DEF StoredAmong, StoredIn
<1>2. /\ IsFiniteSet(StoredAmong(S)) /\ IsFiniteSet(StoredIn(i))
      /\ Cardinality(StoredAmong(S)) \in Nat /\ Cardinality(StoredIn(i)) \in Nat
  <2>1. StoredAmong(S) \in SUBSET Stored /\ StoredIn(i) \in SUBSET Stored
    BY DEF StoredAmong, StoredIn
  <2>2. QED
    BY <2>1, StoredFinite
<1>3. Cardinality(StoredAmong(S) \cup StoredIn(i)) =
         Cardinality(StoredAmong(S)) + Cardinality(StoredIn(i)) - Cardinality({})
  BY <1>1, <1>2, FS_Union
<1>4. Cardinality(StoredIn(i)) = Len(lists[i]) /\ Cardinality({}) = 0
  BY Counted, FS_EmptySet
<1>5. Cardinality(StoredAmong(S \cup {i})) = Cardinality(StoredAmong(S) \cup StoredIn(i))
  BY <1>1
<1>6. Cardinality(StoredAmong(S \cup {i})) = Len(lists[i]) + Cardinality(StoredAmong(S))
  BY <1>2, <1>3, <1>4, <1>5
<1>7. QED
  BY <1>1, <1>6

(* table_size() is a fold, its function is determined by its equation, and *)
(* counting the keys in a set of lists satisfies it.                       *)
Adds(f) ==
    f = [S \in SUBSET Row |->
            IF S = {} THEN 0
            ELSE LET i == CHOOSE i \in S : TRUE IN Len(lists[i]) + f[S \ {i}]]

LEMMA SizeIsFold == table_size = (CHOOSE f : Adds(f))[Row]
BY DEF table_size, MapThenFoldSet, Adds

LEMMA SizeStep ==
    ASSUME TableInv, NEW S \in SUBSET Row, S # {}, NEW i \in S
    PROVE  Cardinality(StoredAmong(S)) = Len(lists[i]) + Cardinality(StoredAmong(S \ {i}))
<1> DEFINE R == S \ {i}
<1>1. R \in SUBSET Row /\ i \in Row \ R /\ R \cup {i} = S
  OBVIOUS
<1> HIDE DEF R
<1>2. QED
  BY <1>1, OneMore DEF R

LEMMA EmptyCount == Cardinality(StoredAmong({})) = 0
BY FS_EmptySet DEF StoredAmong

LEMMA SizeIs == ASSUME TableInv PROVE table_size = Cardinality(Stored)
<1> DEFINE g == [S \in SUBSET Row |-> Cardinality(StoredAmong(S))]
<1>1. Adds(g)
  <2>1. ASSUME NEW S \in SUBSET Row
        PROVE  g[S] = IF S = {} THEN 0
                      ELSE LET i == CHOOSE i \in S : TRUE IN Len(lists[i]) + g[S \ {i}]
    <3> DEFINE i == CHOOSE i \in S : TRUE
    <3>1. CASE S = {}
      BY <3>1, EmptyCount
    <3>2. CASE S # {}
      <4>1. i \in S /\ S \ {i} \in SUBSET Row
        BY <3>2
      <4>2. g[S] = Cardinality(StoredAmong(S)) /\ g[S \ {i}] = Cardinality(StoredAmong(S \ {i}))
        BY <4>1
      <4> HIDE DEF i, g
      <4>3. g[S] = Len(lists[i]) + g[S \ {i}]
        BY <3>2, <4>1, <4>2, SizeStep
      <4>4. QED
        BY <3>2, <4>3 DEF i
    <3>3. QED
      BY <3>1, <3>2
  <2>2. g = [S \in SUBSET Row |-> g[S]]
    OBVIOUS
  <2> HIDE DEF g
  <2>3. QED
    BY <2>1, <2>2 DEF Adds
<1>2. ASSUME NEW f, Adds(f) PROVE f[Row] = Cardinality(Stored)
  <2> DEFINE Bad == {S \in SUBSET Row : f[S] # Cardinality(StoredAmong(S))}
  <2>1. IsFiniteSet(Row)
    BY HashAssumption, FS_Interval DEF Row
  <2>2. IsWellFoundedOn(StrictSubsetOrdering(Row), SUBSET Row)
    BY <2>1, FS_FiniteSubsetsOfFinite, FS_StrictSubsetOrderingWellFounded
  <2>3. ASSUME Bad # {} PROVE FALSE
    <3>1. Bad \subseteq SUBSET Row
      OBVIOUS
    <3>2. PICK S \in Bad : \A R \in Bad : ~(<<R, S>> \in StrictSubsetOrdering(Row))
      BY <2>2, <2>3, <3>1, WFMin
    <3> DEFINE i == CHOOSE i \in S : TRUE
    <3>3. S \in SUBSET Row /\ f[S] # Cardinality(StoredAmong(S))
      BY <3>2
    <3>4. f[S] = IF S = {} THEN 0 ELSE Len(lists[i]) + f[S \ {i}]
      BY <1>2, <3>3 DEF Adds
    <3>5. S # {}
      BY <3>3, <3>4, EmptyCount
    <3>6. i \in S
      BY <3>5
    <3> HIDE DEF i
    <3>7. S \ {i} \in SUBSET Row /\ <<S \ {i}, S>> \in StrictSubsetOrdering(Row)
      BY <3>3, <3>6 DEF StrictSubsetOrdering
    <3>8. f[S \ {i}] = Cardinality(StoredAmong(S \ {i}))
      BY <3>2, <3>7
    <3>9. QED
      BY <3>3, <3>4, <3>5, <3>6, <3>8, SizeStep
  <2>4. f[Row] = Cardinality(StoredAmong(Row))
    BY <2>3
  <2>5. StoredAmong(Row) = Stored
    BY Keys DEF StoredAmong, Stored
  <2>6. QED
    BY <2>4, <2>5
<1> HIDE DEF g
<1>3. Adds(CHOOSE f : Adds(f))
  BY <1>1
<1> DEFINE h == CHOOSE f : Adds(f)
<1>4. Adds(h) /\ table_size = h[Row]
  BY <1>3, SizeIsFold
<1> HIDE DEF h
<1>5. QED
  BY <1>2, <1>4
-----------------------------------------------------------------------------
(* FlattenSeq() is a recursive function too.  There is one for the first n *)
(* sequences, for each n: there is no first n without one.                 *)
JoinsTo(f, n, L) == f = [i \in 1 .. n |-> IF i = 1 THEN L[i] ELSE f[i - 1] \o L[i]]

LEMMA FlattenIsJoin ==
    ASSUME NEW L, Len(L) # 0
    PROVE  FlattenSeq(L) = (CHOOSE f : JoinsTo(f, Len(L), L))[Len(L)]
BY DEF FlattenSeq, JoinsTo

LEMMA JoinExists ==
    ASSUME NEW L, NEW n \in Nat \ {0}
    PROVE  \E f : JoinsTo(f, n, L)
<1> DEFINE Bad == {m \in 1 .. n : ~ \E f : JoinsTo(f, m, L)}
<1>1. ASSUME Bad # {} PROVE FALSE
  <2>1. PICK m \in Bad : \A j \in Bad : m <= j
    <3>1. Bad \in SUBSET (1 .. n)
      OBVIOUS
    <3> HIDE DEF Bad
    <3>2. Min(Bad) \in Bad /\ \A j \in Bad : Min(Bad) <= j
      BY <1>1, <3>1, Least
    <3>3. QED
      BY <3>2
  <2>2. m \in 1 .. n /\ ~ \E f : JoinsTo(f, m, L)
    BY <2>1
  <2>3. CASE m = 1
    <3> DEFINE f == [i \in 1 .. 1 |-> L[i]]
    <3>1. f = [i \in 1 .. 1 |-> IF i = 1 THEN L[i] ELSE f[i - 1] \o L[i]]
      OBVIOUS
    <3> HIDE DEF f
    <3>2. JoinsTo(f, m, L)
      BY <2>3, <3>1 DEF JoinsTo
    <3>3. QED
      BY <2>2, <3>2
  <2>4. CASE m # 1
    <3>1. m - 1 \in 1 .. n /\ ~(m <= m - 1)
      BY <2>2, <2>4
    <3>2. PICK f : JoinsTo(f, m - 1, L)
      BY <2>1, <3>1
    <3> DEFINE g == [i \in 1 .. m |-> IF i = m THEN f[m - 1] \o L[m] ELSE f[i]]
    <3>3. ASSUME NEW i \in 1 .. m PROVE g[i] = IF i = 1 THEN L[i] ELSE g[i - 1] \o L[i]
      <4>1. CASE i = m
        <5>1. i # 1 /\ i - 1 \in 1 .. m /\ i - 1 # m
          BY <2>2, <2>4, <4>1
        <5>2. g[i] = f[m - 1] \o L[m] /\ g[i - 1] = f[m - 1]
          BY <4>1, <5>1
        <5> HIDE DEF g
        <5>3. QED
          BY <4>1, <5>1, <5>2
      <4>2. CASE i # m
        <5>1. i \in 1 .. m - 1
          BY <2>2, <4>2
        <5>2. f[i] = IF i = 1 THEN L[i] ELSE f[i - 1] \o L[i]
          BY <3>2, <5>1 DEF JoinsTo
        <5>3. g[i] = f[i]
          BY <4>2
        <5>4. CASE i = 1
          BY <5>2, <5>3, <5>4
        <5>5. CASE i # 1
          <6>1. i - 1 \in 1 .. m /\ i - 1 # m
            BY <2>2, <5>1, <5>5
          <6>2. g[i - 1] = f[i - 1]
            BY <6>1
          <6> HIDE DEF g
          <6>3. QED
            BY <5>2, <5>3, <5>5, <6>2
        <5>6. QED
          BY <5>4, <5>5
      <4>3. QED
        BY <4>1, <4>2
    <3>4. g = [i \in 1 .. m |-> g[i]]
      OBVIOUS
    <3> HIDE DEF g
    <3>5. JoinsTo(g, m, L)
      BY <3>3, <3>4 DEF JoinsTo
    <3>6. QED
      BY <2>2, <3>5
  <2>5. QED
    BY <2>3, <2>4
<1>2. n \in 1 .. n
  OBVIOUS
<1>3. QED
  BY <1>1, <1>2
-----------------------------------------------------------------------------
(* s lists every element of S once.                                        *)
Lists(s, S) == s \in Seq(S) /\ Len(s) = Cardinality(S) /\ \A x \in S : Has(s, x)

LEMMA ListsJoined ==
    ASSUME NEW S, NEW T, NEW s, NEW t, Lists(s, S), Lists(t, T),
           Cardinality(S \cup T) = Cardinality(S) + Cardinality(T)
    PROVE  Lists(s \o t, S \cup T)
<1>1. s \in Seq(S \cup T) /\ t \in Seq(S \cup T)
  BY SeqMonotonic DEF Lists
<1>2. Len(s) \in Nat /\ Len(t) \in Nat
  BY <1>1, LenProperties
<1>3. /\ s \o t \in Seq(S \cup T) /\ Len(s \o t) = Len(s) + Len(t)
      /\ \A i \in 1 .. Len(s) + Len(t) : (s \o t)[i] = IF i <= Len(s) THEN s[i] ELSE t[i - Len(s)]
  BY <1>1, ConcatProperties
<1>4. ASSUME NEW x \in S PROVE Has(s \o t, x)
  <2>1. PICK i \in 1 .. Len(s) : s[i] = x
    BY DEF Lists, Has
  <2>2. i \in 1 .. Len(s \o t) /\ (s \o t)[i] = x
    BY <1>2, <1>3, <2>1
  <2>3. QED
    BY <2>2 DEF Has
<1>5. ASSUME NEW x \in T PROVE Has(s \o t, x)
  <2>1. PICK i \in 1 .. Len(t) : t[i] = x
    BY DEF Lists, Has
  <2>2. /\ Len(s) + i \in 1 .. Len(s) + Len(t) /\ ~(Len(s) + i <= Len(s))
        /\ (Len(s) + i) - Len(s) = i
    BY <1>2
  <2>3. (s \o t)[Len(s) + i] = x
    BY <1>3, <2>1, <2>2
  <2>4. QED
    BY <1>3, <2>2, <2>3 DEF Has
<1>6. QED
  BY <1>3, <1>4, <1>5 DEF Lists

LEMMA KeysOfList ==
    ASSUME TableInv, NEW i \in Row
    PROVE  Lists(list_get_keys(lists[i]), StoredIn(i))
<1> DEFINE L == lists[i]
           s == list_get_keys(L)
           n == Len(L)
<1>1. n \in Nat /\ DOMAIN L = 1 .. n
  BY LenProperties DEF TableInv, Rows
<1>2. StoredIn(i) = {L[p].key : p \in 1 .. n}
  BY StoredInIs
<1>3. s = [p \in 1 .. n |-> L[p].key]
  BY <1>1 DEF list_get_keys
<1>4. Cardinality(StoredIn(i)) = n
  BY Counted
<1> HIDE DEF L, s, n
<1>5. s \in [1 .. n -> StoredIn(i)]
  BY <1>2, <1>3
<1>6. s \in Seq(StoredIn(i)) /\ Len(s) = n
  BY <1>1, <1>5
<1>7. \A x \in StoredIn(i) : Has(s, x)
  BY <1>2, <1>3, <1>6 DEF Has
<1>8. QED
  BY <1>4, <1>6, <1>7 DEF Lists, L, s, n

LEMMA KeysAre ==
    ASSUME TableInv, ~Gap
    PROVE  Lists(table_get_keys, Stored)
<1> DEFINE K == [i \in 1 .. Size |-> list_get_keys(lists[i - 1])]
<1>1. Size \in Nat \ {0} /\ Row = 0 .. Size - 1
  BY HashAssumption DEF Row
<1>3. \A i \in Row : Lists(list_get_keys(lists[i]), StoredIn(i))
  BY KeysOfList
<1>4. Len(K) = Size /\ \A i \in 1 .. Size : K[i] = list_get_keys(lists[i - 1])
  BY <1>1
<1>5. table_get_keys = FlattenSeq(K)
  BY DEF table_get_keys
<1> HIDE DEF K
<1> DEFINE f == CHOOSE g : JoinsTo(g, Size, K)
<1>6. JoinsTo(f, Size, K) /\ FlattenSeq(K) = f[Size]
  <2>1. \E g : JoinsTo(g, Size, K)
    BY <1>1, JoinExists
  <2>2. Len(K) # 0
    BY <1>1, <1>4
  <2>3. FlattenSeq(K) = (CHOOSE g : JoinsTo(g, Len(K), K))[Len(K)]
    BY <2>2, FlattenIsJoin
  <2>4. QED
    BY <1>4, <2>1, <2>3
<1> HIDE DEF f
<1>7. \A i \in 1 .. Size : f[i] = IF i = 1 THEN K[i] ELSE f[i - 1] \o K[i]
  BY <1>6 DEF JoinsTo
<1> DEFINE Bad == {i \in 1 .. Size : ~Lists(f[i], StoredAmong(0 .. i - 1))}
<1>8. ASSUME Bad # {} PROVE FALSE
  <2>1. PICK i \in Bad : \A j \in Bad : i <= j
    <3>1. Bad \in SUBSET (1 .. Size)
      OBVIOUS
    <3> HIDE DEF Bad
    <3>2. Min(Bad) \in Bad /\ \A j \in Bad : Min(Bad) <= j
      BY <1>1, <1>8, <3>1, Least
    <3>3. QED
      BY <3>2
  <2>2. i \in 1 .. Size /\ ~Lists(f[i], StoredAmong(0 .. i - 1))
    BY <2>1
  <2>3. i - 1 \in Row /\ Lists(K[i], StoredIn(i - 1))
    BY <1>1, <1>3, <1>4, <2>2
  <2>4. CASE i = 1
    <3>1. StoredAmong(0 .. i - 1) = StoredIn(i - 1)
      <4>1. 0 .. i - 1 = {0} /\ i - 1 = 0
        BY <2>4
      <4>2. QED
        BY <4>1 DEF StoredAmong, StoredIn
    <3>2. f[i] = K[i]
      BY <1>7, <2>2, <2>4
    <3>3. QED
      BY <2>2, <2>3, <3>1, <3>2
  <2>5. CASE i # 1
    <3> DEFINE S == 0 .. i - 2
    <3>1. S \in SUBSET Row /\ i - 1 \in Row \ S /\ 0 .. i - 1 = S \cup {i - 1}
      BY <1>1, <2>2, <2>5
    <3>2. Lists(f[i - 1], StoredAmong(S))
      <4>1. i - 1 \in 1 .. Size /\ ~(i <= i - 1) /\ (i - 1) - 1 = i - 2
        BY <1>1, <2>2, <2>5
      <4>2. i - 1 \notin Bad
        BY <2>1, <4>1
      <4>3. QED
        BY <4>1, <4>2
    <3> HIDE DEF S
    <3>3. /\ StoredAmong(S \cup {i - 1}) = StoredAmong(S) \cup StoredIn(i - 1)
          /\ Cardinality(StoredAmong(S \cup {i - 1})) =
                Len(lists[i - 1]) + Cardinality(StoredAmong(S))
      BY <3>1, OneMore
    <3>4. /\ Cardinality(StoredIn(i - 1)) = Len(lists[i - 1]) /\ Len(lists[i - 1]) \in Nat
          /\ Cardinality(StoredAmong(S)) \in Nat
      <4>1. StoredAmong(S) \in SUBSET Stored
        BY DEF StoredAmong
      <4>2. QED
        BY <2>3, <4>1, Counted, StoredFinite
    <3>5. Cardinality(StoredAmong(S) \cup StoredIn(i - 1)) =
             Cardinality(StoredAmong(S)) + Cardinality(StoredIn(i - 1))
      <4>1. Cardinality(StoredAmong(S) \cup StoredIn(i - 1)) = Cardinality(StoredAmong(S \cup {i - 1}))
        BY <3>3
      <4>2. QED
        BY <3>3, <3>4, <4>1
    <3>6. Lists(f[i - 1] \o K[i], StoredAmong(S) \cup StoredIn(i - 1))
      BY <2>3, <3>2, <3>5, ListsJoined
    <3>7. f[i] = f[i - 1] \o K[i]
      BY <1>7, <2>2, <2>5
    <3>8. QED
      BY <2>2, <3>1, <3>3, <3>6, <3>7
  <2>6. QED
    BY <2>4, <2>5
<1>9. Lists(f[Size], StoredAmong(0 .. Size - 1))
  <2>1. Size \in 1 .. Size
    BY <1>1
  <2>2. QED
    BY <1>8, <2>1
<1>10. StoredAmong(0 .. Size - 1) = Stored
  BY <1>1, Keys DEF StoredAmong, Stored
<1>11. QED
  BY <1>5, <1>6, <1>9, <1>10
-----------------------------------------------------------------------------
(* The dictionary of a table.                                              *)
Map == [k \in Homed |-> Lookup(k)]

LEMMA HomeList ==
    ASSUME TableInv, NEW k \in Homed
    PROVE  /\ hash_code(k) \in Row
           /\ lists[hash_code(k)] \in Seq(Entry) /\ Sorted(lists[hash_code(k)])
BY Keys DEF TableInv, Rows, InOrder

LEMMA LookupPrime == \A k \in Homed : Lookup(k)' = Found(lists'[hash_code(k)], k)
BY DEF Lookup, Found

(* Put, remove: the map changes at the key and nowhere else.               *)
LEMMA MapAdded ==
    ASSUME TableInv, NEW k \in Homed, NEW v \in Value,
           lists' = [lists EXCEPT ![hash_code(k)] = list_add(@, [key |-> k, value |-> v])]
    PROVE  Map' = [Map EXCEPT ![k] = v]
<1> DEFINE e == [key |-> k, value |-> v]
<1>1. e \in Entry /\ e.key = k /\ e.value = v
  BY Keys DEF Entry
<1>2. /\ lists'[hash_code(k)] = list_add(lists[hash_code(k)], e)
      /\ \A i \in Row : i # hash_code(k) => lists'[i] = lists[i]
  BY HomeList DEF TableInv, Rows
<1> HIDE DEF e
<1>3. ASSUME NEW j \in Homed PROVE Lookup(j)' = IF j = k THEN v ELSE Lookup(j)
  <2>1. Lookup(j)' = Found(lists'[hash_code(j)], j) /\ Lookup(j) = Found(lists[hash_code(j)], j)
    BY LookupPrime, LookupFinds
  <2>2. CASE hash_code(j) = hash_code(k)
    BY <1>1, <1>2, <2>1, <2>2, HomeList, Keys, FoundAdded
  <2>3. CASE hash_code(j) # hash_code(k)
    <3>1. j # k /\ hash_code(j) \in Row
      BY <2>3, HomeList
    <3>2. QED
      BY <1>2, <2>1, <2>3, <3>1
  <2>4. QED
    BY <2>2, <2>3
<1>4. QED
  BY <1>3 DEF Map

LEMMA MapRemoved ==
    ASSUME TableInv, NEW k \in Homed,
           lists' = [lists EXCEPT ![hash_code(k)] = list_remove(@, k)]
    PROVE  Map' = [Map EXCEPT ![k] = Absent]
<1>1. /\ lists'[hash_code(k)] = list_remove(lists[hash_code(k)], k)
      /\ \A i \in Row : i # hash_code(k) => lists'[i] = lists[i]
  BY HomeList DEF TableInv, Rows
<1>2. ASSUME NEW j \in Homed PROVE Lookup(j)' = IF j = k THEN Absent ELSE Lookup(j)
  <2>1. Lookup(j)' = Found(lists'[hash_code(j)], j) /\ Lookup(j) = Found(lists[hash_code(j)], j)
    BY LookupPrime, LookupFinds
  <2>2. CASE hash_code(j) = hash_code(k)
    BY <1>1, <2>1, <2>2, HomeList, Keys, FoundRemoved
  <2>3. CASE hash_code(j) # hash_code(k)
    <3>1. j # k /\ hash_code(j) \in Row
      BY <2>3, HomeList
    <3>2. QED
      BY <1>1, <2>1, <2>3, <3>1
  <2>4. QED
    BY <2>2, <2>3
<1>3. QED
  BY <1>2 DEF Map

LEMMA MapSame == ASSUME UNCHANGED lists PROVE Map' = Map
<1>1. \A k \in Homed : Lookup(k)' = Lookup(k)
  BY LookupPrime, LookupFinds
<1>2. QED
  BY <1>1 DEF Map

LEMMA MissingIs ==
    ASSUME TableInv, NEW k \in Homed
    PROVE  list_get(lists[hash_code(k)], k) = 0 <=> Lookup(k) = Absent
BY HomeList, FoundIs, LookupFinds, Keys

LEMMA SameCount == \A S : Dict!Cardinality(S) = Cardinality(S)
BY DEF Dict!Cardinality, Cardinality

LEMMA PresentIs == Dict!Present = Stored /\ Dict!Present = {k \in Homed : Map[k] # Absent}
BY DEF Dict!Present, Stored, Map

(* Each call does what the dictionary does.                                *)
LEMMA InitDictionary == Init => Dict!DInit
<1> SUFFICES ASSUME Init PROVE Dict!DInit
  OBVIOUS
<1>1. ASSUME NEW k \in Homed PROVE Lookup(k) = Absent
  <2>1. lists[hash_code(k)] = <<>>
    BY Keys DEF Init
  <2>2. list_get(lists[hash_code(k)], k) = 0
    BY <2>1 DEF list_get, SelectInSeq
  <2>3. QED
    BY <2>2 DEF Lookup
<1>2. QED
  BY <1>1 DEF Init, Dict!DInit, NoCall, Call, Dict!NoCall, Dict!Call

LEMMA PutRefines ==
    ASSUME TableInv, NEW k \in Homed, NEW v \in Value, Put(k, v)
    PROVE  Dict!DPut
<1>1. Map' = [Map EXCEPT ![k] = v] /\ last' = Call("put", k, v, 0)
  BY MapAdded DEF Put
<1>2. QED
  BY <1>1 DEF Dict!DPut, Map, Call, Dict!Call

LEMMA PutFailsRefines ==
    ASSUME NEW k \in Key, NEW v \in Value, PutFails(k, v) PROVE Dict!DPutFails
<1>1. Map' = Map /\ k \in Homed \cup (Key \ Homed)
  BY MapSame DEF PutFails
<1>2. QED
  BY <1>1 DEF PutFails, ShortCall, Call, Dict!DPutFails, Dict!ShortCall, Dict!Call, Map

LEMMA PutNodeFailsRefines ==
    ASSUME TableInv, NEW k \in Homed, NEW v \in Value, PutNodeFails(k, v)
    PROVE  Dict!DPutLoses \/ Dict!DPutFails
<1>1. Map' = [Map EXCEPT ![k] = Absent]
  BY MapRemoved DEF PutNodeFails
<1>2. CASE list_get(lists[hash_code(k)], k) = 0
  <2>1. ShortCall("put", k, v, Error)
    BY <1>2 DEF PutNodeFails
  <2>2. list_remove(lists[hash_code(k)], k) = lists[hash_code(k)]
    BY <1>2 DEF list_remove
  <2>3. UNCHANGED lists
    BY <2>2, HomeList DEF PutNodeFails, TableInv, Rows
  <2>4. PutFails(k, v) /\ k \in Key
    BY <2>1, <2>3, Keys DEF PutFails
  <2>5. QED
    BY <2>4, PutFailsRefines
<1>3. CASE list_get(lists[hash_code(k)], k) # 0
  <2>1. ShortCall("put", k, v, 0)
    BY <1>3 DEF PutNodeFails
  <2>2. k \in Dict!Present
    BY <1>3, MissingIs, PresentIs DEF Stored
  <2>3. Dict!DPutLoses
    BY <1>1, <2>1, <2>2 DEF Dict!DPutLoses, Map, ShortCall, Call, Dict!ShortCall, Dict!Call
  <2>4. QED
    BY <2>3
<1>4. QED
  BY <1>2, <1>3

LEMMA DelRefines ==
    ASSUME TableInv, NEW k \in Homed, Del(k)
    PROVE  Dict!DRemove
<1>1. Map' = [Map EXCEPT ![k] = Absent]
  BY MapRemoved DEF Del
<1>2. k \in Dict!Present <=> list_get(lists[hash_code(k)], k) # 0
  BY MissingIs, PresentIs DEF Stored
<1>3. last' = Call("remove", k, Absent, IF k \in Dict!Present THEN 0 ELSE 1)
  BY <1>2 DEF Del
<1>4. QED
  BY <1>1, <1>3 DEF Dict!DRemove, Map, Call, Dict!Call

LEMMA GetRefines ==
    ASSUME NEW k \in Homed, Get(k) PROVE Dict!DGet
<1>1. Map' = Map /\ Map[k] = Lookup(k) /\ last' = Call("get", k, Absent, Map[k])
  BY MapSame DEF Get, Map
<1>2. QED
  BY <1>1 DEF Dict!DGet, Map, Call, Dict!Call

LEMMA GetFailsRefines ==
    ASSUME NEW k \in Homed, GetFails(k) PROVE Dict!DGetFails
<1>1. Map' = Map /\ k \in Dict!Present
  BY MapSame, PresentIs DEF GetFails, Stored
<1>2. QED
  BY <1>1 DEF GetFails, Dict!DGetFails, Map, ShortCall, Call, Dict!ShortCall, Dict!Call

LEMMA GetSizeRefines ==
    ASSUME TableInv, GetSize PROVE Dict!DSize
<1>1. Map' = Map
  BY MapSame DEF GetSize
<1>2. last' = Call("size", Absent, Absent, Cardinality(Dict!Present))
  BY SizeIs, PresentIs DEF GetSize
<1>3. QED
  BY <1>1, <1>2, SameCount DEF Dict!DSize, Map, Call, Dict!Call

(* With no gap, table_get_keys() lists the keys of the dictionary.         *)
LEMMA KeysAreListed ==
    ASSUME TableInv, ~Gap PROVE table_get_keys \in Dict!Listings(Dict!Present)
<1> DEFINE s == table_get_keys
           S == Dict!Present
<1>1. Lists(s, S)
  BY KeysAre, PresentIs
<1> HIDE DEF s, S
<1>2. s \in [1 .. Len(s) -> S] /\ DOMAIN s = 1 .. Len(s)
  BY <1>1, LenProperties DEF Lists
<1>3. s \in [1 .. Cardinality(S) -> S] /\ \A x \in S : \E i \in DOMAIN s : s[i] = x
  BY <1>1, <1>2 DEF Lists, Has
<1>4. s \in Dict!Listings(S)
  BY <1>3, SameCount DEF Dict!Listings
<1>5. QED
  BY <1>4 DEF s, S

LEMMA GetKeysRefines ==
    ASSUME TableInv, GetKeys PROVE Dict!DGetKeys
<1>1. Map' = Map
  BY MapSame DEF GetKeys
<1>2. CASE Gap
  <2>1. last' = Dict!Call("getkeys", Absent, Absent, Error)
    BY <1>2 DEF GetKeys, table_get_keys, Call, Dict!Call
  <2>2. QED
    BY <1>1, <1>2, <2>1 DEF Dict!DGetKeys, Map
<1>3. CASE ~Gap
  <2>1. last' = Dict!Call("getkeys", Absent, Absent, table_get_keys)
    BY DEF GetKeys, Call, Dict!Call
  <2>2. table_get_keys \in Dict!Listings(Dict!Present)
    BY <1>3, KeysAreListed
  <2>3. QED
    BY <1>1, <1>3, <2>1, <2>2 DEF Dict!DGetKeys, Map
<1>4. QED
  BY <1>2, <1>3

LEMMA GetKeysFailsRefines ==
    ASSUME GetKeysFails PROVE Dict!DGetKeysFails
<1>1. Map' = Map
  BY MapSame DEF GetKeysFails
<1>2. QED
  BY <1>1 DEF GetKeysFails, Dict!DGetKeysFails, Map, ShortCall, Call, Dict!ShortCall, Dict!Call

LEMMA GetKeysCutRefines ==
    ASSUME TableInv, GetKeysCut PROVE Dict!DGetKeysCut
<1>1. Map' = Map /\ ~Gap
  BY MapSame DEF GetKeysCut
<1>2. table_get_keys \in Dict!Listings(Dict!Present)
  BY <1>1, KeysAreListed
<1>3. PICK n \in 0 .. Len(table_get_keys) - 1 :
          ShortCall("getkeys", Absent, Absent, SubSeq(table_get_keys, 1, n))
  BY DEF GetKeysCut
<1>4. Dict!ShortCall("getkeys", Absent, Absent, SubSeq(table_get_keys, 1, n))
  BY <1>3 DEF ShortCall, Call, Dict!ShortCall, Dict!Call
<1>5. QED
  BY <1>1, <1>2, <1>4 DEF Dict!DGetKeysCut, Map

LEMMA UndefinedRefines ==
    ASSUME NEW k \in Key, Undefined(k) PROVE Dict!DUndefined
<1>1. Map' = Map /\ k \in Homed \cup (Key \ Homed)
  BY MapSame DEF Undefined
<1>2. (k \in Key \ Homed \/ MemoryFails) /\ last' = Dict!Call("undefined", k, Absent, 0)
  BY DEF Undefined, Call, Dict!Call
<1>3. QED
  BY <1>1, <1>2 DEF Dict!DUndefined, Map

LEMMA StepDictionary == TableInv /\ [Next]_vars => [Dict!DNext]_<<Map, last>>
<1> SUFFICES ASSUME TableInv, [Next]_vars PROVE [Dict!DNext]_<<Map, last>>
  OBVIOUS
<1>1. CASE UNCHANGED vars
  BY <1>1, MapSame DEF vars
<1>2. CASE Next
  <2> USE DEF Dict!DNext
  <2>1. last.op # "undefined"
    BY <1>2 DEF Next
  <2>2. ASSUME NEW k \in Homed, NEW v \in Value, Put(k, v) PROVE Dict!DNext
    BY <2>1, <2>2, PutRefines
  <2>3. ASSUME NEW k \in Key, NEW v \in Value, PutFails(k, v) PROVE Dict!DNext
    BY <2>1, <2>3, PutFailsRefines
  <2>4. ASSUME NEW k \in Homed, NEW v \in Value, PutNodeFails(k, v) PROVE Dict!DNext
    BY <2>1, <2>4, PutNodeFailsRefines
  <2>5. ASSUME NEW k \in Homed, Del(k) PROVE Dict!DNext
    BY <2>1, <2>5, DelRefines
  <2>6. ASSUME NEW k \in Homed, Get(k) \/ GetFails(k) PROVE Dict!DNext
    BY <2>1, <2>6, GetRefines, GetFailsRefines
  <2>7. ASSUME GetSize PROVE Dict!DNext
    BY <2>1, <2>7, GetSizeRefines
  <2>8. ASSUME GetKeys \/ GetKeysFails \/ GetKeysCut PROVE Dict!DNext
    BY <2>1, <2>8, GetKeysRefines, GetKeysFailsRefines, GetKeysCutRefines
  <2>9. ASSUME NEW k \in Key, Undefined(k) PROVE Dict!DNext
    BY <2>1, <2>9, UndefinedRefines
  <2>10. QED
    BY <1>2, <2>2, <2>3, <2>4, <2>5, <2>6, <2>7, <2>8, <2>9 DEF Next
<1>3. QED
  BY <1>1, <1>2

(* To its caller the table is a map from keys to values, whatever rows,    *)
(* lists and hash codes it is made of: table_get() gives what the last     *)
(* table_put() left, table_size() and table_get_keys() count and list the  *)
(* keys that table_get() finds.  A call fails only where an allocation     *)
(* did, and changes nothing then, but for a put that meets the end of the  *)
(* memory, and for table_get_keys() of a table with an empty row.          *)
THEOREM ImplementsDictionary == Spec => IsDictionary
<1>1. Init => Dict!DInit
  BY InitDictionary
<1>2. TableInv /\ [Next]_vars => [Dict!DNext]_<<[k \in Homed |-> Lookup(k)], last>>
  BY StepDictionary DEF Map
<1>3. QED
  BY <1>1, <1>2, TableInvariant, PTL DEF Spec, IsDictionary, Dict!DSpec
-----------------------------------------------------------------------------
(* A function on the numbers is determined by its first value and a step,  *)
(* and there is one: its values up to n exist and agree, for each n.       *)
Begins(f, n, a, step) ==
    f[0] = a /\ \A i \in 1 .. n : f[i] = step[<<i - 1, f[i - 1]>>]

Runs(f, V, a, step) ==
    f \in [Nat -> V] /\ f[0] = a /\ \A i \in Nat \ {0} : f[i] = step[<<i - 1, f[i - 1]>>]

LEMMA Unique ==
    ASSUME NEW n \in Nat, NEW a, NEW step, NEW f, NEW g,
           Begins(f, n, a, step), Begins(g, n, a, step)
    PROVE  \A i \in 0 .. n : f[i] = g[i]
<1> DEFINE Bad == {i \in 1 .. n : f[i] # g[i]}
<1>1. ASSUME Bad # {} PROVE FALSE
  <2>1. PICK i \in Bad : \A j \in Bad : i <= j
    <3>1. Bad \in SUBSET (1 .. n)
      OBVIOUS
    <3> HIDE DEF Bad
    <3>2. Min(Bad) \in Bad /\ \A j \in Bad : Min(Bad) <= j
      BY <1>1, <3>1, Least
    <3>3. QED
      BY <3>2
  <2>2. i \in 1 .. n /\ f[i] # g[i]
    BY <2>1
  <2>3. f[i - 1] = g[i - 1]
    <3>1. CASE i = 1
      BY <3>1 DEF Begins
    <3>2. CASE i # 1
      <4>1. i - 1 \in 1 .. n /\ ~(i <= i - 1)
        BY <2>2, <3>2
      <4>2. QED
        BY <2>1, <4>1
    <3>3. QED
      BY <3>1, <3>2
  <2>4. QED
    BY <2>2, <2>3 DEF Begins
<1>2. \A i \in 0 .. n : i = 0 \/ i \in 1 .. n
  OBVIOUS
<1>3. QED
  BY <1>1, <1>2 DEF Begins

LEMMA Recursion ==
    ASSUME NEW V, NEW a \in V, NEW step \in [Nat \X V -> V]
    PROVE  \E f : Runs(f, V, a, step)
<1> DEFINE P(f, n) == f \in [0 .. n -> V] /\ Begins(f, n, a, step)
<1>1. ASSUME NEW n \in Nat PROVE \E f : P(f, n)
  <2>1. \E f : P(f, 0)
    <3> DEFINE f == [i \in 0 .. 0 |-> a]
    <3>1. P(f, 0)
      BY DEF Begins
    <3>2. QED
      BY <3>1
  <2> DEFINE Bad == {m \in 1 .. n : ~ \E f : P(f, m)}
  <2>2. ASSUME Bad # {} PROVE FALSE
    <3>1. PICK m \in Bad : \A j \in Bad : m <= j
      <4>1. Bad \in SUBSET (1 .. n)
        OBVIOUS
      <4> HIDE DEF Bad
      <4>2. Min(Bad) \in Bad /\ \A j \in Bad : Min(Bad) <= j
        BY <2>2, <4>1, Least
      <4>3. QED
        BY <4>2
    <3>2. m \in 1 .. n /\ ~ \E f : P(f, m)
      BY <3>1
    <3>3. \E f : P(f, m - 1)
      <4>1. m = 1 \/ (m - 1 \in 1 .. n /\ ~(m <= m - 1))
        BY <3>2
      <4>2. m = 1 => m - 1 = 0
        OBVIOUS
      <4> HIDE DEF P
      <4>3. QED
        BY <2>1, <3>1, <4>1, <4>2
    <3>4. PICK f : P(f, m - 1)
      BY <3>3
    <3> DEFINE g == [i \in 0 .. m |-> IF i = m THEN step[<<m - 1, f[m - 1]>>] ELSE f[i]]
    <3>5. m \in Nat /\ m >= 1 /\ m - 1 \in 0 .. m - 1
      BY <3>2
    <3>6. f[m - 1] \in V /\ step[<<m - 1, f[m - 1]>>] \in V
      BY <3>4, <3>5
    <3>7. \A i \in 0 .. m : i # m => i \in 0 .. m - 1
      BY <3>5
    <3>8. g \in [0 .. m -> V]
      BY <3>4, <3>6, <3>7
    <3>9. g[m] = step[<<m - 1, f[m - 1]>>] /\ \A i \in 0 .. m - 1 : g[i] = f[i]
      BY <3>5
    <3> HIDE DEF g
    <3>10. Begins(g, m, a, step)
      <4>1. g[0] = a
        <5>1. 0 \in 0 .. m - 1
          BY <3>5
        <5>2. QED
          BY <3>4, <3>9, <5>1 DEF Begins
      <4>2. ASSUME NEW i \in 1 .. m PROVE g[i] = step[<<i - 1, g[i - 1]>>]
        <5>1. i - 1 \in 0 .. m - 1 /\ g[i - 1] = f[i - 1]
          BY <3>5, <3>9
        <5>2. CASE i = m
          BY <3>9, <5>1, <5>2
        <5>3. CASE i # m
          <6>1. i \in 1 .. m - 1 /\ i \in 0 .. m - 1
            BY <3>5, <5>3
          <6>2. f[i] = step[<<i - 1, f[i - 1]>>]
            BY <3>4, <6>1 DEF Begins
          <6>3. QED
            BY <3>9, <5>1, <6>1, <6>2
        <5>4. QED
          BY <5>2, <5>3
      <4>3. QED
        BY <4>1, <4>2 DEF Begins
    <3>11. QED
      BY <3>2, <3>8, <3>10
  <2>3. n = 0 \/ n \in 1 .. n
    OBVIOUS
  <2> HIDE DEF P
  <2>4. QED
    BY <2>1, <2>2, <2>3
<1> DEFINE c(n) == CHOOSE f : P(f, n)
           h == [n \in Nat |-> c(n)[n]]
<1>2. \A n \in Nat : P(c(n), n)
  BY <1>1
<1> HIDE DEF c
<1>3. h \in [Nat -> V]
  <2>1. ASSUME NEW n \in Nat PROVE c(n)[n] \in V
    BY <1>2
  <2>2. QED
    BY <2>1
<1>4. h[0] = a
  BY <1>2 DEF Begins
<1>5. ASSUME NEW i \in Nat \ {0} PROVE h[i] = step[<<i - 1, h[i - 1]>>]
  <2>1. i - 1 \in Nat /\ i \in 1 .. i /\ i - 1 \in 0 .. i - 1
    OBVIOUS
  <2>2. c(i)[i] = step[<<i - 1, c(i)[i - 1]>>]
    BY <1>2, <2>1 DEF Begins
  <2>3. Begins(c(i), i - 1, a, step)
    <3>1. \A j \in 1 .. i - 1 : j \in 1 .. i
      OBVIOUS
    <3>2. Begins(c(i), i, a, step)
      BY <1>2
    <3>3. QED
      BY <3>1, <3>2 DEF Begins
  <2>4. Begins(c(i - 1), i - 1, a, step)
    BY <1>2, <2>1
  <2>5. c(i)[i - 1] = c(i - 1)[i - 1]
    BY <2>1, <2>3, <2>4, Unique
  <2>6. QED
    BY <2>1, <2>2, <2>5
<1> HIDE DEF h
<1>6. Runs(h, V, a, step)
  BY <1>3, <1>4, <1>5 DEF Runs
<1>7. QED
  BY <1>6
-----------------------------------------------------------------------------
(* Serialization: a key, with the NUL that strcpy() puts after it.         *)
LEMMA TerminatedIs ==
    ASSUME NEW key \in Seq(Char)
    PROVE  /\ Len(key) \in Nat /\ Terminated(key) \in Seq(Nat)
           /\ Len(Terminated(key)) = Len(key) + 1
           /\ \A p \in 1 .. Len(key) : Terminated(key)[p] = key[p] /\ key[p] \in Char
           /\ Terminated(key)[Len(key) + 1] = NUL
<1>1. key \in Seq(Nat) /\ Len(key) \in Nat /\ \A p \in 1 .. Len(key) : key[p] \in Char
  BY SeqMonotonic, LenProperties, ElementOfSeq DEF Char
<1>2. NUL \in Nat
  BY DEF NUL
<1>3. QED
  BY <1>1, <1>2, AppendProperties DEF Terminated

(* The first i texts of T, one after the other, are a prefix of all n.     *)
Offset(J, i) == IF i = 1 THEN 0 ELSE Len(J[i - 1])
Prefix(l, m) == Len(l) <= Len(m) /\ \A p \in 1 .. Len(l) : m[p] = l[p]
Carries(J, T, j) ==
    /\ J[j] \in Seq(Nat)
    /\ Len(J[j]) = Offset(J, j) + Len(T[j])
    /\ \A p \in 1 .. Len(T[j]) : J[j][Offset(J, j) + p] = T[j][p]
    /\ \A i \in 1 .. j : J[i] \in Seq(Nat) /\ Prefix(J[i], J[j])

LEMMA Joined ==
    ASSUME NEW n \in Nat \ {0}, NEW T \in [1 .. n -> Seq(Nat)], NEW J, JoinsTo(J, n, T)
    PROVE  \A j \in 1 .. n : Carries(J, T, j)
<1>1. \A j \in 1 .. n : J[j] = IF j = 1 THEN T[j] ELSE J[j - 1] \o T[j]
  BY DEF JoinsTo
<1>2. \A j \in 1 .. n : T[j] \in Seq(Nat) /\ Len(T[j]) \in Nat
  BY LenProperties
<1> DEFINE Bad == {j \in 1 .. n : ~Carries(J, T, j)}
<1>3. ASSUME Bad # {} PROVE FALSE
  <2>1. PICK j \in Bad : \A k \in Bad : j <= k
    <3>1. Bad \in SUBSET (1 .. n)
      OBVIOUS
    <3> HIDE DEF Bad
    <3>2. Min(Bad) \in Bad /\ \A k \in Bad : Min(Bad) <= k
      BY <1>3, <3>1, Least
    <3>3. QED
      BY <3>2
  <2>2. j \in 1 .. n /\ ~Carries(J, T, j)
    BY <2>1
  <2>3. CASE j = 1
    <3>1. J[1] = T[1] /\ T[1] \in Seq(Nat) /\ Len(T[1]) \in Nat /\ Offset(J, 1) = 0
      BY <1>1, <1>2, <2>2, <2>3 DEF Offset
    <3>2. \A i \in 1 .. 1 : i = 1
      OBVIOUS
    <3>3. Prefix(J[1], J[1])
      BY <3>1 DEF Prefix
    <3>4. /\ Len(J[1]) = Offset(J, 1) + Len(T[1])
          /\ \A p \in 1 .. Len(T[1]) : Offset(J, 1) + p = p
      BY <3>1
    <3>5. Carries(J, T, 1)
      <4>1. \A p \in 1 .. Len(T[1]) : J[1][Offset(J, 1) + p] = T[1][p]
        BY <3>1, <3>4
      <4>2. \A i \in 1 .. 1 : J[i] \in Seq(Nat) /\ Prefix(J[i], J[1])
        BY <3>1, <3>2, <3>3
      <4>3. QED
        BY <3>1, <3>4, <4>1, <4>2 DEF Carries
    <3>6. QED
      BY <2>2, <2>3, <3>5
  <2>4. CASE j # 1
    <3>1. j - 1 \in 1 .. n /\ ~(j <= j - 1)
      BY <2>2, <2>4
    <3>2. Carries(J, T, j - 1)
      BY <2>1, <3>1
    <3> DEFINE l == J[j - 1]
               t == T[j]
    <3>3. J[j] = l \o t /\ l \in Seq(Nat) /\ t \in Seq(Nat) /\ Offset(J, j) = Len(l)
      BY <1>1, <1>2, <2>2, <2>4, <3>2 DEF Carries, Offset
    <3> HIDE DEF l, t
    <3>4. Len(l) \in Nat /\ Len(t) \in Nat
      BY <3>3, LenProperties
    <3>5. /\ l \o t \in Seq(Nat) /\ Len(l \o t) = Len(l) + Len(t)
          /\ \A p \in 1 .. Len(l) + Len(t) :
                (l \o t)[p] = IF p <= Len(l) THEN l[p] ELSE t[p - Len(l)]
      BY <3>3, ConcatProperties
    <3>6. ASSUME NEW p \in 1 .. Len(t) PROVE (l \o t)[Len(l) + p] = t[p]
      <4>1. /\ Len(l) + p \in 1 .. Len(l) + Len(t) /\ ~(Len(l) + p <= Len(l))
            /\ (Len(l) + p) - Len(l) = p
        BY <3>4
      <4>2. QED
        BY <3>5, <4>1
    <3>7. Prefix(l, l \o t)
      <4>1. \A p \in 1 .. Len(l) : p \in 1 .. Len(l) + Len(t) /\ p <= Len(l)
        BY <3>4
      <4>2. QED
        BY <3>4, <3>5, <4>1 DEF Prefix
    <3>8. ASSUME NEW i \in 1 .. j PROVE J[i] \in Seq(Nat) /\ Prefix(J[i], J[j])
      <4>1. CASE i = j
        <5>1. J[i] = l \o t /\ J[j] = l \o t /\ Len(l \o t) \in Nat
          BY <3>3, <3>4, <3>5, <4>1
        <5>2. Prefix(l \o t, l \o t)
          BY <5>1 DEF Prefix
        <5>3. QED
          BY <3>5, <5>1, <5>2
      <4>2. CASE i # j
        <5>1. i \in 1 .. j - 1
          BY <2>2, <4>2
        <5>2. J[i] \in Seq(Nat) /\ Prefix(J[i], l)
          BY <3>2, <5>1 DEF Carries, l
        <5>3. Len(J[i]) \in Nat
          BY <5>2, LenProperties
        <5>4. Prefix(J[i], l \o t)
          <6>1. Len(J[i]) <= Len(l) /\ Len(l) <= Len(l \o t)
            BY <3>7, <5>2 DEF Prefix
          <6>2. \A p \in 1 .. Len(J[i]) : p \in 1 .. Len(l)
            BY <3>4, <5>3, <6>1
          <6>3. Len(J[i]) <= Len(l \o t)
            BY <3>4, <3>5, <5>3, <6>1
          <6>4. QED
            BY <3>7, <5>2, <6>2, <6>3 DEF Prefix
        <5>5. QED
          BY <3>3, <5>2, <5>4
      <4>3. QED
        BY <4>1, <4>2
    <3>9. Carries(J, T, j)
      BY <3>3, <3>5, <3>6, <3>8 DEF Carries, t
    <3>10. QED
      BY <2>2, <3>9
  <2>5. QED
    BY <2>3, <2>4
<1>4. QED
  BY <1>3

(* Where key i begins in the text, and that it is there, with its NUL.     *)
LEMMA TextIs ==
    ASSUME NEW n \in Nat \ {0}, NEW T \in [1 .. n -> Seq(Nat)], NEW J, JoinsTo(J, n, T)
    PROVE  /\ J[n] \in Seq(Nat) /\ Len(J[n]) \in Nat
           /\ \A i \in 1 .. n :
                 /\ Offset(J, i) \in Nat
                 /\ Offset(J, i) + Len(T[i]) <= Len(J[n])
                 /\ i < n => Offset(J, i + 1) = Offset(J, i) + Len(T[i])
                 /\ \A p \in 1 .. Len(T[i]) : J[n][Offset(J, i) + p] = T[i][p]
<1>1. \A j \in 1 .. n : Carries(J, T, j)
  BY Joined
<1>2. n \in 1 .. n
  OBVIOUS
<1>3. J[n] \in Seq(Nat) /\ Len(J[n]) \in Nat
  BY <1>1, <1>2, LenProperties DEF Carries
<1>4. ASSUME NEW i \in 1 .. n
      PROVE  /\ Offset(J, i) \in Nat
             /\ Offset(J, i) + Len(T[i]) <= Len(J[n])
             /\ i < n => Offset(J, i + 1) = Offset(J, i) + Len(T[i])
             /\ \A p \in 1 .. Len(T[i]) : J[n][Offset(J, i) + p] = T[i][p]
  <2>1. Offset(J, i) \in Nat
    <3>1. CASE i = 1
      BY <3>1 DEF Offset
    <3>2. CASE i # 1
      <4>1. i - 1 \in 1 .. n
        BY <3>2
      <4>2. J[i - 1] \in Seq(Nat)
        BY <1>1, <4>1 DEF Carries
      <4>3. QED
        BY <3>2, <4>2, LenProperties DEF Offset
    <3>3. QED
      BY <3>1, <3>2
  <2>2. /\ Len(J[i]) = Offset(J, i) + Len(T[i])
        /\ \A p \in 1 .. Len(T[i]) : J[i][Offset(J, i) + p] = T[i][p]
    BY <1>1 DEF Carries
  <2>3. Prefix(J[i], J[n])
    BY <1>1, <1>2 DEF Carries
  <2>4. Len(T[i]) \in Nat
    BY LenProperties
  <2>5. \A p \in 1 .. Len(T[i]) : Offset(J, i) + p \in 1 .. Len(J[i])
    BY <2>1, <2>2, <2>4
  <2>6. i < n => Offset(J, i + 1) = Len(J[i])
    <3>1. i + 1 # 1 /\ (i + 1) - 1 = i
      OBVIOUS
    <3>2. QED
      BY <3>1 DEF Offset
  <2>7. QED
    BY <2>1, <2>2, <2>3, <2>5, <2>6 DEF Prefix
<1>5. QED
  BY <1>3, <1>4

(* What strlen() and strdup() find where a key begins.                     *)
LEMMA StringIs ==
    ASSUME NEW key \in Seq(Char), NEW buf \in Seq(Nat), NEW a \in Nat \ {0},
           a + Len(key) <= Len(buf),
           \A p \in 1 .. Len(key) + 1 : buf[a + p - 1] = Terminated(key)[p]
    PROVE  strlen(buf, a) = Len(key) /\ strdup(buf, a) = key
<1> DEFINE n == Len(key)
           I == {q \in a .. Len(buf) : buf[q] = NUL}
<1>1. /\ n \in Nat /\ Len(buf) \in Nat
      /\ \A p \in 1 .. n : Terminated(key)[p] = key[p] /\ key[p] \in Char
      /\ Terminated(key)[n + 1] = NUL
  BY TerminatedIs, LenProperties
<1>2. \A p \in 1 .. n : buf[a + p - 1] = key[p] /\ key[p] \in Char /\ key[p] # NUL
  <2>1. \A p \in 1 .. n : p \in 1 .. n + 1
    BY <1>1
  <2>2. QED
    BY <1>1, <2>1 DEF Char, NUL
<1>3. a + n \in I
  <2>1. n + 1 \in 1 .. n + 1 /\ a + (n + 1) - 1 = a + n /\ a + n \in a .. Len(buf)
    BY <1>1
  <2>2. buf[a + n] = NUL
    BY <1>1, <2>1
  <2>3. QED
    BY <2>1, <2>2
<1>4. \A q \in I : q >= a + n
  <2>1. ASSUME NEW q \in I, q < a + n PROVE FALSE
    <3>1. q \in a .. Len(buf) /\ buf[q] = NUL
      OBVIOUS
    <3>2. q - a + 1 \in 1 .. n /\ a + (q - a + 1) - 1 = q
      BY <1>1, <2>1, <3>1
    <3>3. QED
      BY <1>2, <3>1, <3>2
  <2>2. \A q \in I : q \in Int
    OBVIOUS
  <2>3. QED
    BY <1>1, <2>1, <2>2
<1>5. I \in SUBSET (1 .. Len(buf))
  BY <1>1
<1>6. Min(I) = a + n
  <2> HIDE DEF I
  <2>1. Min(I) \in I /\ \A j \in I : Min(I) <= j
    BY <1>1, <1>3, <1>5, Least
  <2>2. Min(I) \in 1 .. Len(buf)
    BY <1>5, <2>1
  <2>3. Min(I) <= a + n /\ Min(I) >= a + n
    BY <1>3, <1>4, <2>1
  <2> DEFINE m == Min(I)
  <2>4. m \in Int /\ m <= a + n /\ m >= a + n
    BY <2>2, <2>3
  <2> HIDE DEF m, n
  <2>5. m = a + n
    BY <1>1, <2>4
  <2>6. QED
    BY <2>5 DEF m, n
<1>7. SelectInSubSeq(buf, a, Len(buf), LAMBDA ch : ch = NUL) = IF I # {} THEN Min(I) ELSE 0
  BY DEF SelectInSubSeq
<1>8. strlen(buf, a) = n
  <2> HIDE DEF I
  <2>1. SelectInSubSeq(buf, a, Len(buf), LAMBDA ch : ch = NUL) = a + n
    BY <1>3, <1>6, <1>7
  <2>2. QED
    BY <1>1, <2>1 DEF strlen
<1>9. strdup(buf, a) = key
  <2> DEFINE s == SubSeq(buf, a, a + n - 1)
  <2>1. a \in Int /\ a + n - 1 \in Int
    BY <1>1
  <2>2. \A i \in a .. a + n - 1 : buf[i] \in Nat
    <3>1. \A i \in a .. a + n - 1 : i \in 1 .. Len(buf)
      BY <1>1
    <3>2. QED
      BY <3>1, ElementOfSeq
  <2>3. /\ s \in Seq(Nat)
        /\ Len(s) = IF a <= a + n - 1 THEN (a + n - 1) - a + 1 ELSE 0
        /\ \A i \in 1 .. (a + n - 1) - a + 1 : s[i] = buf[a + i - 1]
    BY <2>1, <2>2, SubSeqProperties
  <2>4. strdup(buf, a) = s
    BY <1>8 DEF strdup
  <2> HIDE DEF s
  <2>5. Len(s) = n
    BY <1>1, <2>3
  <2>6. \A i \in 1 .. n : s[i] = key[i]
    <3>1. \A i \in 1 .. n : i \in 1 .. (a + n - 1) - a + 1
      BY <1>1
    <3>2. QED
      BY <1>2, <2>3, <3>1
  <2>7. key \in Seq(Nat)
    BY SeqMonotonic DEF Char
  <2>8. s = key
    BY <2>3, <2>5, <2>6, <2>7, SeqEqual
  <2>9. QED
    BY <2>4, <2>8
<1>10. QED
  BY <1>8, <1>9

(* The walk of buffer_to_keyArray() through a buffer.                      *)
Walks(at, buf) ==
    at = [i \in Nat |-> IF i = 0 THEN 2 ELSE at[i - 1] + strlen(buf, at[i - 1]) + 1]

LEMMA PointerIs ==
    ASSUME NEW buf
    PROVE  pointer(buf) = [i \in 1 .. buf[1] |-> (CHOOSE at : Walks(at, buf))[i - 1]]
BY DEF pointer, Walks

LEMMA WalkExists ==
    ASSUME NEW buf \in Seq(Nat)
    PROVE  \E at : Walks(at, buf)
<1> DEFINE Place == Nat \ {0}
           go(x) == x + strlen(buf, x) + 1
           step == [y \in Nat \X Place |-> go(y[2])]
<1>1. ASSUME NEW x \in Place PROVE go(x) \in Place
  <2> DEFINE I == {q \in x .. Len(buf) : buf[q] = NUL}
             m == IF I # {} THEN Min(I) ELSE 0
  <2>1. Len(buf) \in Nat
    BY LenProperties
  <2>2. I \in SUBSET (1 .. Len(buf))
    BY <2>1
  <2>3. m \in Nat
    <3> HIDE DEF I
    <3>1. I # {} => Min(I) \in I
      BY <2>1, <2>2, Least
    <3>2. I # {} => Min(I) \in 1 .. Len(buf)
      BY <2>2, <3>1
    <3>3. I # {} => Min(I) \in Nat
      BY <3>2
    <3>4. QED
      BY <3>3
  <2>4. strlen(buf, x) = m - x
    BY DEF strlen, SelectInSubSeq
  <2> HIDE DEF m
  <2>5. x + (m - x) + 1 = m + 1
    BY <2>3
  <2>6. QED
    BY <2>3, <2>4, <2>5
<1> HIDE DEF go
<1>2. 2 \in Place /\ step \in [Nat \X Place -> Place]
  BY <1>1
<1>3. \A i \in Nat, x \in Place : step[<<i, x>>] = go(x)
  OBVIOUS
<1> HIDE DEF step, Place
<1>4. PICK f : Runs(f, Place, 2, step)
  BY <1>2, Recursion
<1>5. ASSUME NEW i \in Nat \ {0} PROVE f[i] = go(f[i - 1])
  <2>1. i - 1 \in Nat
    OBVIOUS
  <2>2. f[i - 1] \in Place /\ f[i] = step[<<i - 1, f[i - 1]>>]
    BY <1>4, <2>1 DEF Runs
  <2>3. QED
    BY <1>3, <2>1, <2>2
<1>6. f = [i \in Nat |-> IF i = 0 THEN 2 ELSE go(f[i - 1])]
  <2>1. f = [i \in Nat |-> f[i]] /\ f[0] = 2
    BY <1>4 DEF Runs
  <2>2. \A i \in Nat : f[i] = IF i = 0 THEN 2 ELSE go(f[i - 1])
    BY <1>5, <2>1
  <2>3. QED
    BY <2>1, <2>2
<1>7. Walks(f, buf)
  BY <1>6 DEF Walks, go
<1>8. QED
  BY <1>7

(* The buffer: the number of keys, and then the text.                      *)
LEMMA BufferIs ==
    ASSUME NEW n \in Nat, NEW F \in Seq(Nat)
    PROVE  /\ <<n>> \o F \in Seq(Nat) /\ Len(<<n>> \o F) = Len(F) + 1 /\ Len(F) \in Nat
           /\ (<<n>> \o F)[1] = n
           /\ \A q \in 1 .. Len(F) : (<<n>> \o F)[q + 1] = F[q]
<1>1. <<n>> \in Seq(Nat) /\ Len(<<n>>) = 1 /\ <<n>>[1] = n
  OBVIOUS
<1> DEFINE b == <<n>>
<1>2. b \in Seq(Nat) /\ Len(b) = 1 /\ b[1] = n /\ Len(F) \in Nat
  BY <1>1, LenProperties
<1> HIDE DEF b
<1>3. /\ b \o F \in Seq(Nat) /\ Len(b \o F) = Len(b) + Len(F)
      /\ \A i \in 1 .. Len(b) + Len(F) : (b \o F)[i] = IF i <= Len(b) THEN b[i] ELSE F[i - Len(b)]
  BY <1>2, ConcatProperties
<1>4. (b \o F)[1] = n
  BY <1>2, <1>3
<1>5. ASSUME NEW q \in 1 .. Len(F) PROVE (b \o F)[q + 1] = F[q]
  <2>1. q + 1 \in 1 .. Len(b) + Len(F) /\ ~(q + 1 <= Len(b)) /\ (q + 1) - Len(b) = q
    BY <1>2
  <2>2. QED
    BY <1>3, <2>1
<1>6. QED
  BY <1>2, <1>3, <1>4, <1>5 DEF b

(* What keyArray_to_buffer() writes, buffer_to_keyArray() reads: any keys, *)
(* empty ones, equal ones and prefixes of each other included.             *)
THEOREM RoundTrip ==
    ASSUME NEW keys \in Seq(Seq(Char))
    PROVE  buffer_to_keyArray(keyArray_to_buffer(keys)) = keys
<1> DEFINE n == Len(keys)
           T == [i \in DOMAIN keys |-> Terminated(keys[i])]
           F == FlattenSeq(T)
           buf == <<n>> \o F
<1>1. /\ n \in Nat /\ DOMAIN keys = 1 .. n /\ keys \in [1 .. n -> Seq(Char)]
      /\ keys = [i \in 1 .. n |-> keys[i]]
  BY LenProperties
<1>2. keyArray_to_buffer(keys) = buf
  BY DEF keyArray_to_buffer
<1>3. \A i \in 1 .. n : keys[i] \in Seq(Char) /\ T[i] = Terminated(keys[i]) /\ T[i] \in Seq(Nat)
  BY <1>1, TerminatedIs
<1>4. T \in [1 .. n -> Seq(Nat)] /\ Len(T) = n
  <2>1. T = [i \in 1 .. n |-> T[i]]
    BY <1>1
  <2> HIDE DEF T, n
  <2>2. T \in [1 .. n -> Seq(Nat)]
    BY <1>3, <2>1
  <2>3. QED
    BY <1>1, <2>2
<1> HIDE DEF n, T
<1>5. CASE n = 0
  <2>1. F = T /\ T \in Seq(Nat)
    BY <1>4, <1>5 DEF FlattenSeq
  <2>2. buf[1] = 0
    BY <1>5, <2>1, BufferIs
  <2> HIDE DEF buf
  <2>3. buffer_to_keyArray(buf) = [i \in 1 .. n |-> keys[i]]
    BY <1>5, <2>2 DEF buffer_to_keyArray
  <2>4. QED
    BY <1>1, <1>2, <2>3
<1>6. CASE n # 0
  <2> DEFINE J == CHOOSE g : JoinsTo(g, n, T)
  <2>1. n \in Nat \ {0}
    BY <1>1, <1>6
  <2>2. JoinsTo(J, n, T) /\ F = J[n]
    <3>1. \E g : JoinsTo(g, n, T)
      BY <2>1, JoinExists
    <3>2. F = (CHOOSE g : JoinsTo(g, Len(T), T))[Len(T)]
      BY <1>4, <1>6, FlattenIsJoin
    <3>3. QED
      BY <1>4, <3>1, <3>2
  <2> HIDE DEF J, F
  <2>3. /\ F \in Seq(Nat) /\ Len(F) \in Nat
        /\ \A i \in 1 .. n :
              /\ Offset(J, i) \in Nat
              /\ Offset(J, i) + Len(T[i]) <= Len(F)
              /\ i < n => Offset(J, i + 1) = Offset(J, i) + Len(T[i])
              /\ \A p \in 1 .. Len(T[i]) : F[Offset(J, i) + p] = T[i][p]
    BY <1>4, <2>1, <2>2, TextIs
  <2>4. /\ buf \in Seq(Nat) /\ Len(buf) = Len(F) + 1 /\ buf[1] = n
        /\ \A q \in 1 .. Len(F) : buf[q + 1] = F[q]
    BY <1>1, <2>3, BufferIs
  <2> HIDE DEF buf
  <2>5. ASSUME NEW i \in 1 .. n
        PROVE  /\ strlen(buf, 2 + Offset(J, i)) = Len(keys[i])
               /\ strdup(buf, 2 + Offset(J, i)) = keys[i]
    <3> DEFINE a == 2 + Offset(J, i)
    <3>1. /\ Offset(J, i) \in Nat /\ Len(keys[i]) \in Nat /\ Len(T[i]) = Len(keys[i]) + 1
          /\ Offset(J, i) + Len(T[i]) <= Len(F) /\ Len(F) \in Nat /\ Len(buf) = Len(F) + 1
      BY <1>3, <2>3, <2>4, TerminatedIs
    <3>2. a \in Nat \ {0} /\ a + Len(keys[i]) <= Len(buf)
      BY <3>1
    <3>3. ASSUME NEW p \in 1 .. Len(keys[i]) + 1 PROVE buf[a + p - 1] = Terminated(keys[i])[p]
      <4>1. /\ p \in 1 .. Len(T[i]) /\ Offset(J, i) + p \in 1 .. Len(F)
            /\ a + p - 1 = (Offset(J, i) + p) + 1
        <5> DEFINE o == Offset(J, i)
                   m == Len(keys[i])
                   z == Len(F)
        <5>1. /\ o \in Nat /\ m \in Nat /\ z \in Nat /\ o + (m + 1) <= z
              /\ a = 2 + o /\ Len(T[i]) = m + 1 /\ p \in 1 .. m + 1
          BY <3>1
        <5> HIDE DEF o, m, z, a
        <5>2. o + p \in 1 .. z /\ a + p - 1 = (o + p) + 1
          BY <5>1
        <5>3. QED
          BY <5>1, <5>2 DEF o, z
      <4>2. buf[a + p - 1] = F[Offset(J, i) + p]
        BY <2>4, <4>1
      <4>3. QED
        BY <1>3, <2>3, <4>1, <4>2
    <3>4. keys[i] \in Seq(Char)
      BY <1>3
    <3> HIDE DEF a
    <3>5. strlen(buf, a) = Len(keys[i]) /\ strdup(buf, a) = keys[i]
      BY <2>4, <3>2, <3>3, <3>4, StringIs
    <3>6. QED
      BY <3>5 DEF a
  <2> DEFINE at == CHOOSE f : Walks(f, buf)
  <2>6. Walks(at, buf) /\ pointer(buf) = [i \in 1 .. n |-> at[i - 1]]
    BY <2>4, WalkExists, PointerIs
  <2> HIDE DEF at
  <2>7. at[0] = 2 /\ \A i \in 1 .. n : at[i] = at[i - 1] + strlen(buf, at[i - 1]) + 1
    BY <2>6 DEF Walks
  <2> DEFINE Bad == {i \in 1 .. n : at[i - 1] # 2 + Offset(J, i)}
  <2>8. ASSUME Bad # {} PROVE FALSE
    <3>1. PICK i \in Bad : \A j \in Bad : i <= j
      <4>1. Bad \in SUBSET (1 .. n)
        OBVIOUS
      <4> HIDE DEF Bad
      <4>2. Min(Bad) \in Bad /\ \A j \in Bad : Min(Bad) <= j
        BY <1>1, <2>8, <4>1, Least
      <4>3. QED
        BY <4>2
    <3>2. i \in 1 .. n /\ at[i - 1] # 2 + Offset(J, i)
      BY <3>1
    <3>3. i # 1
      <4>1. Offset(J, 1) = 0
        BY DEF Offset
      <4>2. QED
        BY <2>7, <3>2, <4>1
    <3> DEFINE k == i - 1
    <3>4. k \in 1 .. n /\ ~(i <= k) /\ k < n /\ k + 1 = i
      BY <1>1, <3>2, <3>3
    <3> HIDE DEF k
    <3>5. at[k - 1] = 2 + Offset(J, k)
      BY <3>1, <3>4
    <3>6. at[k] = (2 + Offset(J, k)) + Len(keys[k]) + 1
      BY <2>5, <2>7, <3>4, <3>5
    <3>7. Offset(J, i) = Offset(J, k) + Len(T[k]) /\ Len(T[k]) = Len(keys[k]) + 1
      BY <1>3, <2>3, <3>4, TerminatedIs
    <3>8. Offset(J, k) \in Nat /\ Len(keys[k]) \in Nat
      BY <1>3, <2>3, <3>4, TerminatedIs
    <3>9. at[k] = 2 + Offset(J, i)
      <4> DEFINE o == Offset(J, k)
                 m == Len(keys[k])
      <4>1. at[k] = (2 + o) + m + 1 /\ Offset(J, i) = o + (m + 1) /\ o \in Nat /\ m \in Nat
        BY <3>6, <3>7, <3>8
      <4> HIDE DEF o, m
      <4>2. QED
        BY <4>1
    <3>10. QED
      BY <3>2, <3>9 DEF k
  <2>9. ASSUME NEW i \in 1 .. n PROVE strdup(buf, pointer(buf)[i]) = keys[i]
    <3>1. pointer(buf)[i] = 2 + Offset(J, i)
      BY <2>6, <2>8
    <3>2. QED
      BY <2>5, <3>1
  <2>10. buffer_to_keyArray(buf) = [i \in 1 .. n |-> keys[i]]
    BY <2>4, <2>9 DEF buffer_to_keyArray
  <2>11. QED
    BY <1>1, <1>2, <2>10
<1>7. QED
  BY <1>5, <1>6

(* What table_get_keys() has returned is an array of keys.                 *)
KeysReturned == last.op = "getkeys" /\ last.result # Error => last.result \in Seq(Key)

LEMMA StepKeysReturned == TableInv /\ KeysReturned /\ [Next]_vars => KeysReturned'
<1> SUFFICES ASSUME TableInv, KeysReturned, [Next]_vars PROVE KeysReturned'
  OBVIOUS
<1>1. ASSUME ~Gap PROVE table_get_keys \in Seq(Key)
  <2>1. table_get_keys \in Seq(Stored)
    BY <1>1, KeysAre DEF Lists
  <2>2. Stored \subseteq Key
    BY Keys DEF Stored
  <2>3. QED
    BY <2>1, <2>2, SeqMonotonic
<1>2. CASE GetKeys
  <2>1. CASE Gap
    BY <1>2, <2>1 DEF GetKeys, table_get_keys, KeysReturned, Call
  <2>2. CASE ~Gap
    BY <1>1, <1>2, <2>2 DEF GetKeys, KeysReturned, Call
  <2>3. QED
    BY <2>1, <2>2
<1>3. CASE GetKeysCut
  <2>1. PICK n \in 0 .. Len(table_get_keys) - 1 :
            last'.result = SubSeq(table_get_keys, 1, n)
    BY <1>3 DEF GetKeysCut, ShortCall, Call
  <2>2. table_get_keys \in Seq(Key)
    BY <1>1, <1>3 DEF GetKeysCut
  <2>3. SubSeq(table_get_keys, 1, n) \in Seq(Key)
    BY <2>2, LenProperties, SubSeqProperties
  <2>4. QED
    BY <2>1, <2>3 DEF KeysReturned
<1>4. CASE GetKeysFails
  BY <1>4 DEF GetKeysFails, ShortCall, Call, KeysReturned
<1>5. CASE UNCHANGED vars
  BY <1>5 DEF vars, KeysReturned
<1>6. CASE last'.op # "getkeys"
  BY <1>6 DEF KeysReturned
<1>7. \A op, k, v, r : Call(op, k, v, r).op = op /\ (ShortCall(op, k, v, r) => last'.op = op)
  BY DEF Call, ShortCall
<1>8. CASE \E k \in Key, v \in Value : Put(k, v) \/ PutFails(k, v) \/ PutNodeFails(k, v)
  BY <1>6, <1>7, <1>8 DEF Put, PutFails, PutNodeFails
<1>9. CASE \E k \in Key : Del(k) \/ Get(k) \/ GetFails(k) \/ Undefined(k)
  BY <1>6, <1>7, <1>9 DEF Del, Get, GetFails, Undefined
<1>10. CASE GetSize
  BY <1>6, <1>7, <1>10 DEF GetSize
<1>11. Homed \subseteq Key
  BY Keys
<1>12. QED
  BY <1>2, <1>3, <1>4, <1>5, <1>8, <1>9, <1>10, <1>11 DEF Next

(* The keys that table_get_keys() returns come out of a buffer as they     *)
(* went in, for any keys, whatever their characters.                       *)
THEOREM KeysKept == Spec => []KeysSurvive
<1>1. Init => KeysReturned
  BY DEF Init, NoCall, Call, KeysReturned
<1>2. TableInv /\ KeysReturned /\ [Next]_vars => KeysReturned'
  BY StepKeysReturned
<1>3. KeysReturned => KeysSurvive
  <2> SUFFICES ASSUME KeysReturned, last.op = "getkeys", last.result # Error
               PROVE  buffer_to_keyArray(keyArray_to_buffer(Names(last.result))) = Names(last.result)
    BY DEF KeysSurvive
  <2> DEFINE keys == last.result
  <2>1. keys \in Seq(Key)
    BY DEF KeysReturned
  <2> HIDE DEF keys
  <2>2. DOMAIN keys = 1 .. Len(keys) /\ Len(keys) \in Nat /\ \A i \in 1 .. Len(keys) : keys[i] \in Key
    BY <2>1, LenProperties
  <2>3. Names(keys) = [i \in 1 .. Len(keys) |-> Name[keys[i]]]
    BY <2>2 DEF Names
  <2>4. \A i \in 1 .. Len(keys) : Name[keys[i]] \in Seq(Char)
    BY <2>2, NameAssumption
  <2>5. Names(keys) \in Seq(Seq(Char))
    BY <2>2, <2>3, <2>4
  <2>6. QED
    BY <2>5, RoundTrip DEF keys
<1>4. QED
  BY <1>1, <1>2, <1>3, TableInvariant, PTL DEF Spec
=============================================================================
