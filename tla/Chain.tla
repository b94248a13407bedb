------------------------------- MODULE Chain -------------------------------
(***************************************************************************)
(* The request path of the replicated service (projeto4).  Every server    *)
(* runs one handler thread per connection; a handler executes invoke() of  *)
(* table_skel.c.  A put or del takes write_mutex, changes the local table  *)
(* and, still holding the mutex, sends a copy to the next server of the    *)
(* chain and waits for its response.  Clients send writes to the head and  *)
(* reads to the tail.                                                      *)
(*                                                                         *)
(* Spec is the service while the chain does not change: servers 1 .. N in  *)
(* chain order, all up.  The membership of the chain (ZooKeeper, joins and *)
(* crashes) is not part of this module.                                    *)
(***************************************************************************)
EXTENDS Naturals, FiniteSets, KVData

CONSTANTS
    N,              \* the number of servers
    Client,         \* the clients
    MaxRequests     \* bound: how many requests each client issues

ASSUME ChainAssumption ==
    /\ N \in Nat \ {0}
    /\ MaxRequests \in Nat
    /\ IsFiniteSet(Client)
    /\ Client \cap (0 .. N) = {}

Server == 1 .. N
None   == 0

(* A handler is the pair of its server and the peer of its connection: a   *)
(* client, or the server that forwards to it.                              *)
Peer == Client \cup Server

VARIABLES
    next,       \* next[s]: send_to_next, the successor of s or None
    table,      \* table[s]: the hash table of s
    mutex,      \* mutex[s]: the peer whose handler holds write_mutex, or None
    writers,    \* writers[s]: writers_count
    dup,        \* dup[s]: the mutex holder made a duplicate of its message
    target,     \* target[s]: the server send_next() waits for, or None
    pc,         \* pc[s][x]: where the handler of x at s is in invoke()
    req,        \* req[s][x]: the request it executes
    res,        \* res[s][x]: the result it will send back
    sent        \* sent[c]: how many requests c has issued

vars == <<next, table, mutex, writers, dup, target, pc, req, res, sent>>

(* Stages of a handler: holding the mutex, or past the write it executes.  *)
Holding == {"locked", "applied", "awaiting"}
Written == {"retire", "timing", "replied"}
Stage   == {"idle", "received", "announced", "waiting", "entering",
            "reading", "disturbed", "leaving"} \cup Holding \cup Written

(* A client has one request outstanding, at one server: a write at the     *)
(* head, a read at the tail.                                               *)
Busy(c) == \E s \in Server : pc[s][c] # "idle"
-----------------------------------------------------------------------------
Init ==
    /\ next = [s \in Server |-> IF s < N THEN s + 1 ELSE None]
    /\ table = [s \in Server |-> [k \in Key |-> Absent]]
    /\ mutex = [s \in Server |-> None]
    /\ writers = [s \in Server |-> 0]
    /\ dup = [s \in Server |-> FALSE]
    /\ target = [s \in Server |-> None]
    /\ pc = [s \in Server |-> [x \in Peer |-> "idle"]]
    /\ req = [s \in Server |-> [x \in Peer |-> NoRequest]]
    /\ res = [s \in Server |-> [x \in Peer |-> NoResult]]
    /\ sent = [c \in Client |-> 0]

(* The client: rtable_put and rtable_del write to the connection with the  *)
(* head, rtable_get to the one with the tail, and then block on the reply. *)
Send(c, s, r) ==
    /\ ~Busy(c)
    /\ sent[c] < MaxRequests
    /\ sent' = [sent EXCEPT ![c] = @ + 1]
    /\ pc' = [pc EXCEPT ![s][c] = "received"]
    /\ req' = [req EXCEPT ![s][c] = r]
    /\ UNCHANGED <<next, table, mutex, writers, dup, target, res>>

SendWriteToTail(c)  == \E r \in WriteRequest : Send(c, N, r)   \* faults, for
SendReadToHead(c)   == \E r \in ReadRequest : Send(c, 1, r)    \* the mutants

SendWrite(c) == \E r \in WriteRequest : Send(c, 1, r)
SendRead(c)  == \E r \in ReadRequest : Send(c, N, r)

ReceiveReply(c) ==
    \E s \in Server :
        /\ pc[s][c] = "replied"
        /\ pc' = [pc EXCEPT ![s][c] = "idle"]
        /\ UNCHANGED <<next, table, mutex, writers, dup, target, req, res, sent>>

(* The writer branch of invoke(), in the order of its critical sections.   *)
IncrementWriters(s, x) ==
    /\ pc[s][x] = "received" /\ IsWrite(req[s][x])
    /\ mutex[s] = None
    /\ writers' = [writers EXCEPT ![s] = @ + 1]
    /\ pc' = [pc EXCEPT ![s][x] = "announced"]
    /\ UNCHANGED <<next, table, mutex, dup, target, req, res, sent>>

(* duplicate_message() copies the whole request, if there is a successor.  *)
Duplicates(s) == next[s] # None

Lock(s, x) ==
    /\ pc[s][x] = "announced"
    /\ mutex[s] = None
    /\ mutex' = [mutex EXCEPT ![s] = x]
    /\ dup' = [dup EXCEPT ![s] = Duplicates(s)]
    /\ pc' = [pc EXCEPT ![s][x] = "locked"]
    /\ UNCHANGED <<next, table, writers, target, req, res, sent>>

(* Nothing makes the writer wait for a reader that is inside table_get():  *)
(* readers_count is kept, but no one waits on all_finished_reading.        *)
Apply(s, x) ==
    /\ pc[s][x] = "locked"
    /\ table' = [table EXCEPT ![s] = Effect(req[s][x], @)]
    /\ res' = [res EXCEPT ![s][x] = Answer(req[s][x], table[s])]
    /\ pc' = [pc EXCEPT ![s] = [y \in Peer |->
                IF y = x THEN "applied"
                ELSE IF pc[s][y] = "reading" THEN "disturbed" ELSE pc[s][y]]]
    /\ UNCHANGED <<next, mutex, writers, dup, target, req, sent>>

(* Fault: the mutex is released before the response of the successor.      *)
ForwardUnlocked(s, x) ==
    /\ pc[s][x] = "applied"
    /\ next[s] # None /\ dup[s]
    /\ pc' = [pc EXCEPT ![s][x] = "awaiting", ![next[s]][s] = "received"]
    /\ req' = [req EXCEPT ![next[s]][s] = req[s][x]]
    /\ target' = [target EXCEPT ![s] = next[s]]
    /\ mutex' = [mutex EXCEPT ![s] = None]
    /\ UNCHANGED <<next, table, writers, dup, res, sent>>

(* send_next(): the copy goes to the handler that serves s at next[s].     *)
Forward(s, x) ==
    /\ pc[s][x] = "applied"
    /\ next[s] # None /\ dup[s]
    /\ pc' = [pc EXCEPT ![s][x] = "awaiting", ![next[s]][s] = "received"]
    /\ req' = [req EXCEPT ![next[s]][s] = req[s][x]]
    /\ target' = [target EXCEPT ![s] = next[s]]
    /\ UNCHANGED <<next, table, mutex, writers, dup, res, sent>>

(* The response arrives; its content is ignored and the mutex released.    *)
ForwardDone(s, x) ==
    /\ pc[s][x] = "awaiting"
    /\ pc[target[s]][s] = "replied"
    /\ pc' = [pc EXCEPT ![s][x] = "retire", ![target[s]][s] = "idle"]
    /\ target' = [target EXCEPT ![s] = None]
    /\ mutex' = [mutex EXCEPT ![s] = None]
    /\ UNCHANGED <<next, table, writers, dup, req, res, sent>>

UnlockTail(s, x) ==
    /\ pc[s][x] = "applied"
    /\ next[s] = None
    /\ mutex' = [mutex EXCEPT ![s] = None]
    /\ pc' = [pc EXCEPT ![s][x] = "retire"]
    /\ UNCHANGED <<next, table, writers, dup, target, req, res, sent>>

(* Faults: the last writer does not broadcast; the counter drops by two.   *)
DecrementSilently(s, x) ==
    /\ pc[s][x] = "retire"
    /\ mutex[s] = None
    /\ writers' = [writers EXCEPT ![s] = @ - 1]
    /\ pc' = [pc EXCEPT ![s][x] = "timing"]
    /\ UNCHANGED <<next, table, mutex, dup, target, req, res, sent>>

DecrementTwice(s, x) ==
    /\ pc[s][x] = "retire"
    /\ mutex[s] = None
    /\ writers' = [writers EXCEPT ![s] = @ - 2]
    /\ pc' = [pc EXCEPT ![s][x] = "timing"]
    /\ UNCHANGED <<next, table, mutex, dup, target, req, res, sent>>

(* The last writer broadcasts: every reader in pthread_cond_wait wakes and *)
(* tests writers_count again.                                              *)
DecrementWriters(s, x) ==
    /\ pc[s][x] = "retire"
    /\ mutex[s] = None
    /\ writers' = [writers EXCEPT ![s] = @ - 1]
    /\ pc' = [pc EXCEPT ![s] = [y \in Peer |->
                IF y = x THEN "timing"
                ELSE IF pc[s][y] = "waiting" /\ writers[s] = 1 THEN "received"
                ELSE pc[s][y]]]
    /\ UNCHANGED <<next, table, mutex, dup, target, req, res, sent>>

(* The reader branch.  wait_all_clients_done_writing() returns only when   *)
(* it sees no writer; increment_readers() then needs the mutex once more,  *)
(* and table_get() runs without it.                                        *)
WaitWriters(s, x) ==
    /\ pc[s][x] = "received" /\ ~IsWrite(req[s][x])
    /\ mutex[s] = None
    /\ pc' = [pc EXCEPT ![s][x] = IF writers[s] > 0 THEN "waiting" ELSE "entering"]
    /\ UNCHANGED <<next, table, mutex, writers, dup, target, req, res, sent>>

SpuriousWake(s, x) ==
    /\ pc[s][x] = "waiting"
    /\ pc' = [pc EXCEPT ![s][x] = "received"]
    /\ UNCHANGED <<next, table, mutex, writers, dup, target, req, res, sent>>

IncrementReaders(s, x) ==
    /\ pc[s][x] = "entering"
    /\ mutex[s] = None
    /\ pc' = [pc EXCEPT ![s][x] = "reading"]
    /\ UNCHANGED <<next, table, mutex, writers, dup, target, req, res, sent>>

(* table_get() returns.  If a writer changed the table since the reader    *)
(* entered, the two threads raced on the nodes of the table, which frees   *)
(* and reuses them: the result may be anything.  (Or the process dies; in  *)
(* this module servers stay up.)                                           *)
Read(s, x) ==
    /\ pc[s][x] \in {"reading", "disturbed"}
    /\ \/ res' = [res EXCEPT ![s][x] = Answer(req[s][x], table[s])]
       \/ pc[s][x] = "disturbed" /\ res' = [res EXCEPT ![s][x] = Garbled]
    /\ pc' = [pc EXCEPT ![s][x] = "leaving"]
    /\ UNCHANGED <<next, table, mutex, writers, dup, target, req, sent>>

DecrementReaders(s, x) ==
    /\ pc[s][x] = "leaving"
    /\ mutex[s] = None
    /\ pc' = [pc EXCEPT ![s][x] = "timing"]
    /\ UNCHANGED <<next, table, mutex, writers, dup, target, req, res, sent>>

(* The tail of invoke() takes the mutex to add the time spent; then        *)
(* handle_client() sends the reply.                                        *)
AddTime(s, x) ==
    /\ pc[s][x] = "timing"
    /\ mutex[s] = None
    /\ pc' = [pc EXCEPT ![s][x] = "replied"]
    /\ UNCHANGED <<next, table, mutex, writers, dup, target, req, res, sent>>

Handle(s, x) ==
    \/ IncrementWriters(s, x) \/ Lock(s, x) \/ Apply(s, x) \/ Forward(s, x)
    \/ ForwardDone(s, x) \/ UnlockTail(s, x) \/ DecrementWriters(s, x)
    \/ WaitWriters(s, x) \/ IncrementReaders(s, x) \/ Read(s, x)
    \/ DecrementReaders(s, x) \/ AddTime(s, x)

Next ==
    \/ \E c \in Client : SendWrite(c) \/ SendRead(c) \/ ReceiveReply(c)
    \/ \E s \in Server, x \in Peer : Handle(s, x) \/ SpuriousWake(s, x)

Spec == Init /\ [][Next]_vars

(* Threads that can run do run, and a client blocked on a reply reads it.  *)
Fairness ==
    /\ \A s \in Server, x \in Peer : WF_vars(Handle(s, x))
    /\ \A c \in Client : WF_vars(ReceiveReply(c))

FairSpec == Spec /\ Fairness
-----------------------------------------------------------------------------
TypeOK ==
    /\ next \in [Server -> Server \cup {None}]
    /\ table \in [Server -> Table]
    /\ mutex \in [Server -> Peer \cup {None}]
    /\ writers \in [Server -> Nat]
    /\ dup \in [Server -> BOOLEAN]
    /\ target \in [Server -> Server \cup {None}]
    /\ pc \in [Server -> [Peer -> Stage]]
    /\ req \in [Server -> [Peer -> Request \cup {NoRequest}]]
    /\ res \in [Server -> [Peer -> Result \cup {Garbled, NoResult}]]
    /\ sent \in [Client -> 0 .. MaxRequests]

(* No divergence: whenever the head is not executing a write, every server *)
(* of the chain holds the same table.  The mutex of the head, held across  *)
(* send_next(), is what keeps the copies equal.                            *)
NoDivergence ==
    mutex[1] = None => \A s, t \in Server : table[s] = table[t]

(* A replica is ahead of no one: a server behind the head is inside its    *)
(* write section only while its predecessor holds its own mutex and waits  *)
(* for that very write.                                                    *)
WritesDescend ==
    \A s \in Server : s > 1 /\ mutex[s] # None =>
        /\ mutex[s] = s - 1
        /\ target[s - 1] = s
        /\ mutex[s - 1] # None
        /\ req[s][s - 1] = req[s - 1][mutex[s - 1]]

(* No lost wake-up: a reader sleeps on all_finished_writing only while     *)
(* some writer has still to leave and to broadcast.                        *)
Writing(s) == {y \in Peer : pc[s][y] \in {"announced", "retire"} \cup Holding}

NoLostWakeup ==
    \A s \in Server, x \in Peer : pc[s][x] = "waiting" => Writing(s) # {}

(* Every request is answered.                                              *)
AllAnswered == \A c \in Client : Busy(c) ~> ~Busy(c)
-----------------------------------------------------------------------------
(* The chain implements KVStore: the abstract table is the table of the    *)
(* tail, a write takes effect when the tail applies it and a get when it   *)
(* reads.                                                                  *)
Site(c) == CHOOSE s \in Server : pc[s][c] # "idle"

(* The write of this handler has reached the tail: the handler is past its *)
(* section, or it has applied the write and is itself the tail.            *)
Settled(s, x) == \/ pc[s][x] \in Written
                 \/ pc[s][x] = "applied" /\ next[s] = None

Committed(c) ==
    IF IsWrite(req[Site(c)][c])
      THEN \/ Settled(Site(c), c)
           \/ /\ pc[Site(c)][c] = "awaiting"
              /\ \E s, t \in Server : Settled(s, t)
      ELSE pc[Site(c)][c] \in {"leaving", "timing", "replied"}

StatusMap == [c \in Client |-> IF ~Busy(c) THEN "ready"
                               ELSE IF Committed(c) THEN "done" ELSE "invoked"]

ArgMap == [c \in Client |-> IF Busy(c) THEN req[Site(c)][c] ELSE NoRequest]

RetMap == [c \in Client |-> IF StatusMap[c] = "done" THEN res[Site(c)][c]
                            ELSE NoResult]

DisturbedMap == {c \in Client : \E s \in Server : pc[s][c] = "disturbed"}

KV == INSTANCE KVStore WITH kv <- table[N], status <- StatusMap,
                            arg <- ArgMap, ret <- RetMap,
                            disturbed <- DisturbedMap

(* Linearizability: to its clients the chain is a single table, up to the  *)
(* gets that a write disturbs.                                             *)
Linearizable == KV!KVSpec
=============================================================================
