------------------------------ MODULE KVStore ------------------------------
(***************************************************************************)
(* What the service promises a client: one key-value table, on which every *)
(* request takes effect at a single instant between its invocation and its *)
(* response.  Nothing is said of servers, threads or replication.  The one  *)
(* weakness: a write may disturb the gets that are outstanding when it     *)
(* takes effect, and a disturbed get may return anything.                  *)
(***************************************************************************)
EXTENDS KVData

CONSTANT Client     \* the clients; each has at most one request outstanding

VARIABLES
    kv,         \* the table
    status,     \* status[c]: "ready", "invoked" or "done"
    arg,        \* arg[c]: the outstanding request of c
    ret,        \* ret[c]: its result, once it is done
    disturbed   \* the clients whose outstanding get a write has disturbed

kvvars == <<kv, status, arg, ret, disturbed>>

KVInit ==
    /\ kv = EmptyTable
    /\ status = [c \in Client |-> "ready"]
    /\ arg = [c \in Client |-> NoRequest]
    /\ ret = [c \in Client |-> NoResult]
    /\ disturbed = {}

Invoke(c) ==
    /\ status[c] = "ready"
    /\ status' = [status EXCEPT ![c] = "invoked"]
    /\ \E r \in Request : arg' = [arg EXCEPT ![c] = r]
    /\ UNCHANGED <<kv, ret, disturbed>>

Reading == {d \in Client : status[d] = "invoked" /\ ~IsWrite(arg[d])}

CommitWrite(c) ==
    /\ status[c] = "invoked" /\ IsWrite(arg[c])
    /\ status' = [status EXCEPT ![c] = "done"]
    /\ kv' = Effect(arg[c], kv)
    /\ ret' = [ret EXCEPT ![c] = Answer(arg[c], kv)]
    /\ \E D \in SUBSET Reading : disturbed' = disturbed \cup D
    /\ UNCHANGED arg

CommitRead(c) ==
    /\ status[c] = "invoked" /\ ~IsWrite(arg[c])
    /\ status' = [status EXCEPT ![c] = "done"]
    /\ \/ ret' = [ret EXCEPT ![c] = Answer(arg[c], kv)]
       \/ c \in disturbed /\ ret' = [ret EXCEPT ![c] = Garbled]
    /\ disturbed' = disturbed \ {c}
    /\ UNCHANGED <<kv, arg>>

Respond(c) ==
    /\ status[c] = "done"
    /\ status' = [status EXCEPT ![c] = "ready"]
    /\ arg' = [arg EXCEPT ![c] = NoRequest]
    /\ ret' = [ret EXCEPT ![c] = NoResult]
    /\ UNCHANGED <<kv, disturbed>>

KVNext == \E c \in Client : \/ Invoke(c) \/ CommitWrite(c) \/ CommitRead(c)
                           \/ Respond(c)

KVSpec == KVInit /\ [][KVNext]_kvvars
=============================================================================
