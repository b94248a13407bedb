------------------------------ MODULE Skeleton ------------------------------
(***************************************************************************)
(* The concurrent server of projeto3: one thread per client, each in       *)
(* invoke() of table_skel.c, around one table.  This module has all the    *)
(* operations of invoke(); Chain has the forwarding that projeto4 adds.    *)
(*                                                                         *)
(* A step that takes write_mutex and releases it again is one action, with *)
(* the mutex free as its guard.  Readers work without the mutex, call by   *)
(* call: a writer may change the table between two calls of a reader, and  *)
(* during one.                                                             *)
(***************************************************************************)
EXTENDS Naturals, FiniteSets, KVData

CONSTANTS
    Handler,        \* the handler threads, one per client
    Operation,      \* bound: the operations the clients ask for
    MaxRequests     \* bound: how many requests each client sends

ASSUME SkeletonAssumption ==
    IsFiniteSet(Handler) /\ IsFiniteSet(Key) /\ MaxRequests \in Nat

VARIABLES
    table,          \* the hash table
    mutex,          \* the handlers that hold write_mutex: none or one
    writers,        \* writers_count
    readers,        \* readers_count
    total,          \* stats->total_operations
    operations,     \* history: how many operations other than stats began
    pc,             \* pc[h]: where h is in invoke()
    req,            \* req[h]: the request
    res,            \* res[h]: the result, a code and the data of the response
    keys,           \* keys[h]: gettable: the keys not yet looked up
    left,           \* left[h]: gettable: how many look-ups are left
    raced,          \* raced[h]: a writer changed the table under h
    sent,           \* sent[h]: how many requests the client of h has sent
    crashed         \* the process died on a NULL pointer

locks  == <<mutex, writers, readers>>
stats  == <<total, operations>>
locals == <<res, keys, left>>
vars   == <<table, locks, stats, pc, req, locals, raced, sent, crashed>>

Query == [op : {"size", "getkeys", "gettable", "stats"}, key : Key, value : {Absent}]
Call  == Request \cup Query
IsRead(r) == r.op \in {"get", "size", "getkeys", "gettable"}

Section == {"locked", "applied"}
Reading == {"reading", "sizing", "gathering"}
Stage   == {"idle", "arrived", "counted", "announced", "retire", "waiting",
            "entering", "leaving", "timing", "replied"} \cup Section \cup Reading

Present(t) == {k \in Key : t[k] # Absent}

(* What a response holds when no one interferes.                           *)
Snapshot(r, t) ==
    CASE r.op = "get"      -> [code |-> Answer(r, t).code, data |-> {t[r.key]}]
      [] r.op = "size"     -> [code |-> "ok", data |-> {Cardinality(Present(t))}]
      [] r.op = "getkeys"  -> [code |-> "ok", data |-> Present(t)]
      [] r.op = "gettable" -> [code |-> "ok", data |-> {<<k, t[k]>> : k \in Present(t)}]

Blank  == [code |-> "pending", data |-> {}]
Ruined == [code |-> "garbled", data |-> {}]
-----------------------------------------------------------------------------
Init ==
    /\ table = EmptyTable
    /\ mutex = {} /\ writers = 0 /\ readers = 0
    /\ total = 0 /\ operations = 0
    /\ pc = [h \in Handler |-> "idle"]
    /\ req = [h \in Handler |-> NoRequest]
    /\ res = [h \in Handler |-> Blank]
    /\ keys = [h \in Handler |-> {}]
    /\ left = [h \in Handler |-> 0]
    /\ raced = [h \in Handler |-> FALSE]
    /\ sent = [h \in Handler |-> 0]
    /\ crashed = FALSE

(* A dead process takes no step.                                           *)
At(h, S)        == ~crashed /\ pc[h] \in S
Go(h, from, to) == At(h, {from}) /\ pc' = [pc EXCEPT ![h] = to]
Free == mutex = {}

(* The client sends and handle_client() receives; the reply goes back.     *)
Receive(h) ==
    /\ sent[h] < MaxRequests
    /\ Go(h, "idle", "arrived")
    /\ \E r \in {c \in Call : c.op \in Operation} : req' = [req EXCEPT ![h] = r]
    /\ sent' = [sent EXCEPT ![h] = @ + 1]
    /\ UNCHANGED <<table, locks, stats, locals, raced, crashed>>

Reply(h) ==
    /\ Go(h, "replied", "idle")
    /\ req' = [req EXCEPT ![h] = NoRequest] /\ res' = [res EXCEPT ![h] = Blank]
    /\ raced' = [raced EXCEPT ![h] = FALSE]
    /\ UNCHANGED <<table, locks, stats, keys, left, sent, crashed>>

(* invoke() counts every request.                                          *)
Count(h) ==
    /\ Free /\ Go(h, "arrived", "counted")
    /\ total' = total + 1
    /\ operations' = operations + (IF req[h].op = "stats" THEN 0 ELSE 1)
    /\ UNCHANGED <<table, locks, req, locals, raced, sent, crashed>>

(* Fault: a request for statistics stays on the count.                     *)
StatsCounted(h) ==
    /\ req[h].op = "stats"
    /\ Free /\ Go(h, "counted", "timing")
    /\ res' = [res EXCEPT ![h] = [code |-> "ok", data |-> {total}]]
    /\ UNCHANGED <<table, locks, stats, req, keys, left, raced, sent, crashed>>

(* OP_STATS takes its own request off the count before it reports it.      *)
Stats(h) ==
    /\ req[h].op = "stats"
    /\ Free /\ Go(h, "counted", "timing")
    /\ total' = total - 1
    /\ res' = [res EXCEPT ![h] = [code |-> "ok", data |-> {total - 1}]]
    /\ UNCHANGED <<table, locks, operations, req, keys, left, raced, sent, crashed>>

(* OP_PUT and OP_DEL.                                                      *)
IncrementWriters(h) ==
    /\ IsWrite(req[h])
    /\ Free /\ Go(h, "counted", "announced")
    /\ writers' = writers + 1
    /\ UNCHANGED <<table, mutex, readers, stats, req, locals, raced, sent, crashed>>

Lock(h) ==
    /\ Free /\ Go(h, "announced", "locked")
    /\ mutex' = {h}
    /\ UNCHANGED <<table, writers, readers, stats, req, locals, raced, sent, crashed>>

Apply(h) ==
    /\ Go(h, "locked", "applied")
    /\ table' = Effect(req[h], table)
    /\ res' = [res EXCEPT ![h] = [code |-> Answer(req[h], table).code, data |-> {}]]
    /\ raced' = [x \in Handler |-> raced[x] \/ pc[x] \in Reading \cup {"leaving"}]
    /\ UNCHANGED <<locks, stats, req, keys, left, sent, crashed>>

Unlock(h) ==
    /\ Go(h, "applied", "retire")
    /\ mutex' = {}
    /\ UNCHANGED <<table, writers, readers, stats, req, locals, raced, sent, crashed>>

(* Fault: the last writer signals one reader, not all.                     *)
WakeOne(h) ==
    /\ Free /\ At(h, {"retire"})
    /\ writers' = writers - 1
    /\ \E W \in SUBSET {x \in Handler : pc[x] = "waiting"} :
        /\ Cardinality(W) <= 1
        /\ (writers = 1 /\ \E x \in Handler : pc[x] = "waiting") => W # {}
        /\ pc' = [x \in Handler |-> IF x = h THEN "timing"
                                    ELSE IF x \in W THEN "counted" ELSE pc[x]]
    /\ UNCHANGED <<table, mutex, readers, stats, req, locals, raced, sent, crashed>>

(* The last writer wakes every reader in pthread_cond_wait().              *)
DecrementWriters(h) ==
    /\ Free /\ At(h, {"retire"})
    /\ writers' = writers - 1
    /\ pc' = [x \in Handler |-> IF x = h THEN "timing"
                                ELSE IF pc[x] = "waiting" /\ writers = 1 THEN "counted"
                                ELSE pc[x]]
    /\ UNCHANGED <<table, mutex, readers, stats, req, locals, raced, sent, crashed>>

(* The readers: wait_all_clients_done_writing() and increment_readers()    *)
(* take the mutex one after the other.                                     *)
WaitWriters(h) ==
    /\ IsRead(req[h])
    /\ Free /\ Go(h, "counted", IF writers > 0 THEN "waiting" ELSE "entering")
    /\ UNCHANGED <<table, locks, stats, req, locals, raced, sent, crashed>>

SpuriousWake(h) ==
    /\ Go(h, "waiting", "counted")
    /\ UNCHANGED <<table, locks, stats, req, locals, raced, sent, crashed>>

IncrementReaders(h) ==
    /\ Free /\ Go(h, "entering", "reading")
    /\ readers' = readers + 1
    /\ UNCHANGED <<table, mutex, writers, stats, req, locals, raced, sent, crashed>>

(* OP_GET, OP_SIZE and OP_GETKEYS make one call on the table.              *)
Read(h) ==
    /\ req[h].op # "gettable"
    /\ Go(h, "reading", "leaving")
    /\ res' = [res EXCEPT ![h] = Snapshot(req[h], table)]
    /\ UNCHANGED <<table, locks, stats, req, keys, left, raced, sent, crashed>>

(* OP_GETTABLE makes many: table_get_keys(), table_size(), and table_get() *)
(* for as many keys as table_size() said.                                  *)
TakeKeys(h) ==
    /\ req[h].op = "gettable"
    /\ Go(h, "reading", "sizing")
    /\ keys' = [keys EXCEPT ![h] = Present(table)]
    /\ res' = [res EXCEPT ![h] = [code |-> "ok", data |-> {}]]
    /\ UNCHANGED <<table, locks, stats, req, left, raced, sent, crashed>>

(* Fault: one entry is forgotten.                                          *)
TakeSizeLess(h) ==
    /\ Go(h, "sizing", "gathering")
    /\ left' = [left EXCEPT ![h] = IF Present(table) = {} THEN 0
                                   ELSE Cardinality(Present(table)) - 1]
    /\ UNCHANGED <<table, locks, stats, req, res, keys, raced, sent, crashed>>

TakeSize(h) ==
    /\ Go(h, "sizing", "gathering")
    /\ left' = [left EXCEPT ![h] = Cardinality(Present(table))]
    /\ UNCHANGED <<table, locks, stats, req, res, keys, raced, sent, crashed>>

TakeEntry(h) ==
    /\ At(h, {"gathering"}) /\ left[h] > 0
    /\ \E k \in keys[h] :
        /\ table[k] # Absent
        /\ keys' = [keys EXCEPT ![h] = @ \ {k}]
        /\ res' = [res EXCEPT ![h].data = @ \cup {<<k, table[k]>>}]
    /\ left' = [left EXCEPT ![h] = @ - 1]
    /\ UNCHANGED <<table, locks, stats, pc, req, raced, sent, crashed>>

(* d[i]->data: table_get() returned NULL, because the key is gone or there *)
(* are fewer keys than entries.                                            *)
TakeMissing(h) ==
    /\ At(h, {"gathering"}) /\ left[h] > 0
    /\ keys[h] # {} => \E k \in keys[h] : table[k] = Absent
    /\ crashed' = TRUE
    /\ UNCHANGED <<table, locks, stats, pc, req, locals, raced, sent>>

Gathered(h) ==
    /\ left[h] = 0
    /\ Go(h, "gathering", "leaving")
    /\ keys' = [keys EXCEPT ![h] = {}]
    /\ UNCHANGED <<table, locks, stats, req, res, left, raced, sent, crashed>>

(* The data race itself: a call that overlaps a write may return anything. *)
ReadGarbled(h) ==
    /\ raced[h] /\ At(h, Reading)
    /\ pc' = [pc EXCEPT ![h] = "leaving"]
    /\ res' = [res EXCEPT ![h] = Ruined]
    /\ keys' = [keys EXCEPT ![h] = {}]
    /\ left' = [left EXCEPT ![h] = 0]
    /\ UNCHANGED <<table, locks, stats, req, raced, sent, crashed>>

(* Fault: a reader that found nothing stays on the count.                  *)
LeaveOnError(h) ==
    /\ Free /\ Go(h, "leaving", "timing")
    /\ readers' = IF res[h].code = "error" THEN readers ELSE readers - 1
    /\ UNCHANGED <<table, mutex, writers, stats, req, locals, raced, sent, crashed>>

DecrementReaders(h) ==
    /\ Free /\ Go(h, "leaving", "timing")
    /\ readers' = readers - 1
    /\ UNCHANGED <<table, mutex, writers, stats, req, locals, raced, sent, crashed>>

(* The end of invoke() takes the mutex once more, for total_time.          *)
AddTime(h) ==
    /\ Free /\ Go(h, "timing", "replied")
    /\ UNCHANGED <<table, locks, stats, req, locals, raced, sent, crashed>>

Handle(h) ==
    \/ Count(h) \/ Stats(h)
    \/ IncrementWriters(h) \/ Lock(h) \/ Apply(h) \/ Unlock(h) \/ DecrementWriters(h)
    \/ WaitWriters(h) \/ IncrementReaders(h)
    \/ Read(h) \/ TakeKeys(h) \/ TakeSize(h) \/ TakeEntry(h) \/ TakeMissing(h)
    \/ Gathered(h) \/ ReadGarbled(h) \/ DecrementReaders(h)
    \/ AddTime(h) \/ Reply(h)

Next == \E h \in Handler : Receive(h) \/ Handle(h) \/ SpuriousWake(h)

Spec == Init /\ [][Next]_vars

(* Threads that can run do run.                                            *)
Fairness == \A h \in Handler : WF_vars(Handle(h))
FairSpec == Spec /\ Fairness
-----------------------------------------------------------------------------
Active(S) == {h \in Handler : pc[h] \in S}

(* The type of every variable; the counters say how many handlers are      *)
(* between an increment and its decrement, on every path through invoke(). *)
TypeOK ==
    /\ table \in Table
    /\ pc \in [Handler -> Stage]
    /\ req \in [Handler -> Call \cup {NoRequest}]
    /\ mutex = Active(Section) /\ Cardinality(mutex) <= 1
    /\ writers = Cardinality(Active({"announced", "retire"} \cup Section))
    /\ readers = Cardinality(Active(Reading \cup {"leaving"}))
    /\ keys \in [Handler -> SUBSET Key] /\ left \in [Handler -> 0 .. Cardinality(Key)]
    /\ raced \in [Handler -> BOOLEAN] /\ crashed \in BOOLEAN
    /\ total \in Nat /\ operations \in Nat
    /\ sent \in [Handler -> 0 .. MaxRequests]

(* stats.h: total_operations is the "Total number of operations": those    *)
(* that began, plus the requests for statistics that are counted now and   *)
(* taken off in a moment.  What a client is told is off by at most those.  *)
PendingStats == {h \in Handler : pc[h] = "counted" /\ req[h].op = "stats"}

TotalCounts ==
    /\ total = operations + Cardinality(PendingStats)
    /\ \A h \in Handler : pc[h] = "timing" /\ req[h].op = "stats" =>
          \A n \in res[h].data : n < operations + Cardinality(Handler)

(* A reader that no writer changed the table under answers with the table. *)
UndisturbedReads ==
    \A h \in Handler : pc[h] = "leaving" /\ ~raced[h] => res[h] = Snapshot(req[h], table)

(* Every request is answered, unless the process dies.                     *)
AllAnswered == \A h \in Handler : pc[h] = "arrived" ~> pc[h] = "idle" \/ crashed

(* table_skel.c:155: invoke() "Retorna 0 (OK) ou -1 em caso de erro".      *)
InvokeReturns == ~crashed
=============================================================================
