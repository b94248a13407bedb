------------------------------- MODULE KVData -------------------------------
(***************************************************************************)
(* The vocabulary of the service: requests, tables, and what a request     *)
(* does to a table.                                                        *)
(***************************************************************************)

CONSTANTS
    Key,        \* the keys
    Value,      \* the values a put may carry
    Absent      \* what a table holds under a key that has no entry

ASSUME DataAssumption == Absent \notin Value

Table == [Key -> Value \cup {Absent}]

EmptyTable == [k \in Key |-> Absent]

(* A del carries Absent as its value, so that put and del have one effect: *)
(* afterwards the key holds the value of the request.                      *)
WriteRequest == [op : {"put"}, key : Key, value : Value]
                  \cup [op : {"del"}, key : Key, value : {Absent}]
ReadRequest  == [op : {"get"}, key : Key, value : {Absent}]
Request      == WriteRequest \cup ReadRequest

IsWrite(r) == r.op \in {"put", "del"}

NoRequest == [op |-> "none"]

(* "garbled" is the result of reading a table while another thread changes  *)
(* it: C gives such a data race no meaning.                                *)
Result   == [code : {"ok", "error"}, value : Value \cup {Absent}]
Garbled  == [code |-> "garbled", value |-> Absent]
NoResult == [code |-> "pending", value |-> Absent]

Effect(r, t) == IF IsWrite(r) THEN [t EXCEPT ![r.key] = r.value] ELSE t

(* A put succeeds; a del and a get fail on a key that has no entry.        *)
Answer(r, t) ==
    [code  |-> IF r.op = "put" \/ t[r.key] # Absent THEN "ok" ELSE "error",
     value |-> IF r.op = "get" THEN t[r.key] ELSE Absent]
=============================================================================
