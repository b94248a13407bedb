# A replicated key-value store: models, checks and proofs

The repository holds four phases of one program, each a directory with its own
copy of the code. Every phase but the first links the hash table as object files.

| phase | directory | adds |
|-------|-----------|------|
| 1 | `grupo25-projeto1(1)/Grupo25` | the hash table (`data`, `entry`, `list`, `table`) and the serialization of keys |
| 2 | `grupo25-projeto2(1)/grupo25` | one client at a time over TCP: stub, framing, Protocol Buffers messages, skeleton |
| 3 | `grupo25_projeto3(1)/grupo25` | one thread per connection, `write_mutex`, reader and writer counters, statistics |
| 4 | `grupo25_projeto4(1)/grupo25_projeto4/grupo25` | chain replication: servers register in ZooKeeper and forward writes to their successor |

p1 to p4 stand for these directories below.

## 1. The system

### Components

| component | code | state | operations |
|-----------|------|-------|------------|
| hash table | p1 `table.c`, `list.c`, `entry.c`, `data.c` | rows of lists, each sorted by key | `table_put`, `table_get`, `table_remove`, `table_size`, `table_get_keys` |
| serialization of keys | p1 `serialization.c` | none | `keyArray_to_buffer`, `buffer_to_keyArray` |
| skeleton | p2-p4 `table_skel.c` | `table`, `write_mutex`, `readers_count`, `writers_count`, two condition variables, `stats` | `invoke()` and its helpers |
| forwarding | p4 `table_skel.c` | `send_to_next`, `next_rtable` | `update_next`, `send_next`, `duplicate_message` |
| connections | p2-p4 `network_server.c` | the listening socket, `thread_count`, `client_array`, `connected_clients` | `network_main_loop`, `handle_client`, the SIGINT handler |
| framing | p2-p4 `network_server.c`, `network_client.c`, `message.c` | none | `network_send`, `network_receive`, `network_send_receive`, `write_all`, `read_all` |
| membership | p4 `table_server.c` | the session with ZooKeeper, `node_path`, `before`, the server it copies from | `main`, `child_watcher`, `connection_watcher`, `sigpipe_handler` |
| client | p2-p4 `client_stub.c`, `table_client.c` | `head_rtable`, `tail_rtable`, the session | `rtable_*`, `child_watcher` |
| ZooKeeper | external | `/chain` and its ephemeral sequential children, one-shot watches | `zoo_create`, `zoo_wget_children`, session expiry |

### How they interact

A client sends one request at a time and blocks on the answer: `put` and `del` to
the server with the lowest znode of `/chain` (the head), everything else to the
one with the highest (the tail). At a server, a thread per connection receives
the message, runs `invoke()` on the shared table and sends the same message back
as the response. In p4 a write is forwarded within `invoke()`: `send_next()` is an
ordinary request to the next server, which the handler waits for with
`write_mutex` held. `send_to_next` and `next_rtable` are written by another thread,
that of the ZooKeeper client, in `child_watcher()`, and by `main()` while it joins.
`main()` copies the table of its predecessor with `rtable_get_table()` before it
accepts connections itself.

### What is hard

- Readers do not hold `write_mutex`. A reader waits for the writers of the moment
  and goes in; a writer that comes later changes the table under it.
- A write is nested in a write: each server waits for the next with its mutex
  held, and the mutex is also needed to finish a read.
- Three threads decide the link of a server: `main()`, `child_watcher()`, and the
  handlers that use it, with no common lock.
- Watches are one-shot, lists of children are read and used later, sessions outlive
  processes and processes outlive sessions.
- `gettable` and the copy of a table are sequences of calls, not snapshots.
- Errors are seldom passed on: `send_next()`, the second `list_add()`, a failed
  `zoo_wget_children()`, a failed copy.

`hazards` in `PROJECT.json` lists them at their lines, with the properties that
guard them.

### What makes each component correct

- hash table: it is a map; every entry is in its row, in order, once; a failed call
  changes nothing.
- skeleton: writers exclude each other; the counters count; no reader sleeps for
  ever; a read returns the table or reports an error; statistics count each
  operation once; every request is answered.
- forwarding: copies agree whenever no write is under way; writes arrive in the
  order of the head; to clients the chain is one table.
- membership: no change of `/chain` goes unnoticed; the link of every server is its
  neighbour in `/chain`; joins end; the links form a chain.
- writes during membership changes: a write that a client was told is done is in
  every table of the chain, and all tables took the writes in one order.
- connections: every open socket has an owner; the counts are right; a refusal
  means that the server is full.
- framing: a command returns the answer to its own request, whole, or an error.
- serialization: what goes into a buffer comes out of it.
- client: a request goes to the head or the tail of the present chain.

## 2. Modules

| module | models | role |
|--------|--------|------|
| `KVData` | requests, tables, `Effect`, `Answer` | vocabulary of `Chain`, `KVStore` and `Skeleton` |
| `KVStore` | the linearizable table the service promises | abstract specification of `Chain` |
| `Chain` | p4 `invoke()` and `send_next()`: put, del, get at N servers | the core |
| `Membership` | p4 `table_server.c` and ZooKeeper | joins, links, crashes, restarts |
| `Failover` | p4 writes while `update_next()` runs, servers join by copy, die and leave | where `Chain` and `Membership` meet |
| `Skeleton` | p3 `invoke()`, all seven operations, at one server | concurrency within a server |
| `Connections` | p3 and p4 `network_server.c`, the SIGINT handler | accept loop, handler threads, shutdown |
| `Client` | p4 `table_client.c`, the calls of `client_stub.c` and `network_client.c` | the client's two links under two threads |
| `Session` | p2 client and server, framing of messages | sequential phase |
| `Dictionary` | the map that `table.h` promises | abstract specification of `HashTable` |
| `HashTable` | p1 `table.c`, `list.c` | data structure |
| `Serialization` | p1 `serialization.c` | operators |
| `KeyArrays` | an array of keys on its way through a buffer | where `HashTable` and `Serialization` meet |
| `MCChain`, `MCMembership`, `MCFailover`, `MCSkeleton`, `MCConnections`, `MCClient`, `MCSession`, `MCHashTable` | instances | TLC |
| `ChainProofs`, `MembershipProofs`, `SkeletonProofs`, `ConnectionsProofs`, `ClientProofs`, `FailoverProofs`, `SessionProofs`, `HashTableProofs` | theorems | TLAPS |

The system is cut where the code lets it be cut. `Chain` asks what nested requests
do on a chain that does not change, `Membership` what the links are and no tables,
`Failover` puts the two together for writes: its joins, links and lost sessions are
those of `Membership` with one list per event, its handlers those of `Chain` with
the mutex, the two tests of `send_to_next` and the failures of `send_next()`.
`Skeleton` and `Connections` are one server seen from inside `invoke()` and from
outside it.

Definitions whose comment begins with "Fault" are no part of any specification:
they are altered forms of the definition that follows them, kept to confirm that
the properties can fail (`mutants` in `PROJECT.json`).

### Chain

A handler is a pair of a server and the peer of its connection (a client, or the
server before it). `pc[s][x]` is its place in `invoke()`, and one action is one
critical section of the code, or one step outside it:

| action | code (p4) |
|--------|------|
| `SendWrite`, `SendRead`, `ReceiveReply` | `rtable_put`, `rtable_del`, `rtable_get`: write to the head, read at the tail, block |
| `IncrementWriters` | `increment_writers()` |
| `Lock`, `Apply` | `write_mutex` taken, message duplicated; the table changed |
| `Forward`, `ForwardDone` | `send_next()`: the request leaves; its answer arrives |
| `UnlockTail` | no successor: the mutex is released |
| `DecrementWriters` | `decrement_writers_and_signal()`, broadcast to the waiting readers included |
| `WaitWriters`, `SpuriousWake`, `IncrementReaders`, `Read`, `DecrementReaders` | the reader branch |
| `AddTime` | the last critical section, for `total_time` |

A read that a write overlaps has no defined result in C; it is the stage
`disturbed`, from which it may answer anything (`Garbled`). `KVStore` allows the
same of a get that is outstanding when a write takes effect, and of nothing else.
The chain of `Chain` is fixed and its servers stay up: that isolates the claim
that replication by nested requests keeps copies equal. `readers_count` is not a
variable here, because nothing reads it; it is one in `Skeleton`.

### Membership

A server is one run of the process and has the sequence number of its znode; runs
at one address (`addr`) share the prefix of their znode names, which is all that
`strstr()` compares (`Own`). `main()` goes through the stages absent, registered,
listed, linked, joining, serving; `mlist` and `wlist` are the lists that `main()`
and `child_watcher()` have read and not yet used, so that each may act on an old
one. ZooKeeper is external: `Change` fires every watch once; `Expire` removes the
znode of a dead process; `LoseSession` that of a live one; `MainListFails` and
`FetchFails` are failed reads of `/chain`, after which the code goes on without a watch
and with whatever list `malloc()` returned (`table_server.c:89`, `301`): any list of
nodes, or a crash.

Of the writes there is what a join can wait for: `holder[t]` is the server that the write
which holds `write_mutex` at t waits for. `Forward` sends it to any process that listens
at the address of the link, which with restarts is more than the connection of the code
can reach. The request of a joining server needs that mutex too (`table_skel.c:146`,
`158`, `274`), so it is answered (`Answers`) by a server that serves and whose mutex is
free. A link that `child_watcher()` closes under a write may leave the write `Astray`: its
descriptor is then that of another connection, or of none.

### Skeleton

As `Chain`, for one server, with `size`, `getkeys`, `gettable` and `stats`.
`gettable` is the sequence of calls it is in the code (`TakeKeys`, `TakeSize`,
`TakeEntry`, `Gathered`); `TakeMissing` is the NULL pointer, after which the process
is gone. `raced[h]` says that a write overlapped the reader h. The table is a map:
the object files that p2 to p4 link skip empty lists in `table_get_keys()`, unlike
p1's source.

### Client

A link is an `rtable_t`: `live` while the memory is allocated, with the server whose
address it has (`to`) and the number of its socket (`fd`). A socket is `open`, with the
server it is connected to (`peer`); `socket()` gives out the lowest number not in use, so
a link whose socket was closed may come to name the next one. `head` and `tail` are the two
global pointers, which may name a link that is freed, and which are set before the link is
connected. `asked` is the server that the request went to, `answer` whether it has
answered. `main` and `wpc` are the places of the two threads:

| action | code (p4) |
|--------|------|
| `MainList`, `MainHead`, `MainConnectHead`, `MainTail`, `MainConnectTail` | `main()`: read `/chain` with a watch; `rtable_connect()` and `network_connect()` to the first, to the last |
| `Command` | a command: the pointer is passed to the stub |
| `Send`, `Read`, `Answered`, `EndOfFile` | `network_send_receive()`: write, block in `read()`, the answer, or the death of the server; each reads `rtable->sockfd` anew |
| `Fail`, `Stray`, `StrayEnds` | an error closes the socket; the link is freed memory, and a read through it ends |
| `Fetch`, `DropHead`, `DropTail`, `OpenHead`, `ConnectHead`, `FreeHead`, `OpenTail`, `ConnectTail`, `FreeTail` | `child_watcher()`; a link that is refused is freed through its pointer, read again |
| `Quit`, `Interrupt` | `quit`; SIGINT |
| `Join`, `Crash`, `Expire`, `Answer` | the servers and ZooKeeper |

`Unchecked` are the calls that follow a missing response (`rtable_stats()`): they end
the process. What a thread meets behind a freed link is undefined in C. `Stray` lets
the call fail, close some other socket, or wait on a descriptor that is not its own, which
may end at any time and need not (`StrayEnds`); `StrayConnect` connects or closes
some other socket, or none; `Disconnect` of a freed link does nothing or aborts. `Target`
leaves open the first child of an empty list.

### Failover

A write is its number, a table the sequence of writes it took: all put one key, so
their order is what tables can differ in. `link[s]` is `next_rtable` with what is
behind it (none, an open connection, a closed descriptor, a freed block), `send[s]`
is `send_to_next`.

| action | code (p4) |
|--------|------|
| `Ask`, `Apply` | a put arrives; the mutex taken, the message duplicated if `send_to_next` says so, the table changed |
| `Skip`, `Forward`, `ForwardToDead`, `ForwardAmiss` | `send_to_next` looked at again; `send_next()` over a good link, to a dead server, over none, a closed one, a freed one, without the duplicate, or over a socket that `update_next()` is about to connect, which raises SIGPIPE |
| `Answered`, `EndOfFile`, `Crossed`, `StrayEnds` | the answer; none; a link taken away under `read()`; a read on another descriptor that ends |
| `Reply` | `network_send()`, SIGPIPE included |
| `DropLink`, `ConnectNext` | `child_watcher()` and `update_next()`: disconnect and free, connect |
| `Register`, `ListChain`, `ConnectBefore` | `main()`: the znode; the list and the choice of `before`; `network_connect()` |
| `CopyAsk`, `CopyTake`, `CopyServe`, `CopyFails` | `main()`: `rtable_get_table()`, `network_main_loop()` |
| `Crash`, `Expire`, `StartLeave`, `EndLeave`, `LoseSession` | death, SIGINT, and what ZooKeeper makes of them |

`acked`, `unsent` and `blank` are histories: writes answered, writes some server did
not pass on, servers that joined with an empty table. One server at a time creates its znode
and reads `/chain`; the chain may shrink in between. Two that register at once are in
`Membership`. A server with no successor has
passed a write on (`Skip`) unless some server further down has its table already and
not this write (`Behind`): one of `/chain`, or one that lost its session and that a
server of `/chain` is about to copy from (`Kept`).

### Connections

Connections come from clients and each gets a handler thread, `pc[c]`.
`connected_clients++` and `--` are a read and a write each, with no lock (`ReadShown`,
`WriteShown`); `crossed` says that two of them have overlapped.

| action | code |
|--------|------|
| `Accept`, `Refuse`, `CountIn`, `Record` | `network_main_loop()`: `accept()`, the limit, the counter and `pthread_create()`, the two arrays |
| `Receive`, `ReceiveEnd`, `Invoke`, `Send`, `SendInVain`, `CountOut` | `handle_client()`: the loop and its two ways out; a request that a client left behind is received as any other |
| `Interrupt`, `End`, `UseDestroyed` | SIGINT on the stack of some thread, that of the ZooKeeper client (`Watcher`) included; `sigpipe_handler()`; a handler that uses the destroyed table |
| `Hang` | the handler needs a lock, of `malloc()` or `printf()`, that the thread it interrupted holds: the process stays, and stops |
| `Connect`, `Ask`, `Leave` | the clients |

### Session

p2 is one thread at each side. A message is a sequence of fields; its length, in
`Limit` as in 16 bits, goes before it. `up` and `down` are the streams of bytes.

| action | code (p2) |
|--------|------|
| `Listen`, `Accept`, `Receive`, `ReceiveEnd`, `Send`, `SendInVain` | `network_server_init()`, `network_main_loop()`: one client until it is gone; sockets are not closed |
| `Start`, `Put` to `GetTable`, `Again`, `EndOfInput`, `Quit`, `Kill` | `main()` of the client, and a user |
| `Command` | a stub and the writing half of `network_send_receive()` |
| `ReadLength`, `ReadMessage`, `ReadEnd` | its reading half: the length, as many fields as it says, the end of the stream |

A length that is a field of something else is any number, and a wrong sequence of
bytes may or may not pass for a message.

### HashTable and Serialization

`lists` are the rows; the functions of `list.c` are operators under their own
names; `last` is the last call, its result, and whether an allocation failed in it
(`short`). Keys are numbers, their order that of `strcmp()`, with any sum of characters,
since `char` is signed. With `MemoryFails` every allocation may fail: the ones whose
result is checked (`PutFails`, `PutNodeFails`, `GetKeysFails`), the one in `data_dup()`
that makes `table_get()` return NULL for a key that is there (`GetFails`), the `strdup()`
whose NULL cuts the list of keys (`GetKeysCut`). `Undefined` is where C defines nothing
any more, and the model ends: a negative index, and a copy to the NULL of `data_dup()`.
`Serialization` works on the characters; `KeyArrays` gives each
key a name and sends what `table_get_keys()` returns through a buffer and back.
`MCHashTable` has five keys, with the hash codes of `hash_code()` for short names.

## 3. What is checked

Passing runs, with their bounds:

| run | instance | shows |
|-----|----------|-------|
| `chain` | 3 servers, 2 clients, 1 key, 2 values, 2 requests each | `TypeOK`, `NoDivergence`, `WritesDescend`, `NoLostWakeup`; `Linearizable`: `Chain` implements `KVStore`; `AllAnswered`; no deadlock |
| `membership` | 3 addresses, 3 znodes, no restart, 1 lost session or failed read | `TypeOK`, `LinkFollowsChain`; `JoinsComplete`, `LinkCatchesUp` |
| `failover` | a chain of 2, a third that joins, 2 writes, 1 crash, exit or lost session | `TypeOK`, `AckedWritesKept`, `TablesAgree`; `WritesEnd` |
| `skeleton` | 3 handlers, 1 key, 1 value, all 7 operations, 1 request each | `TypeOK`, `TotalCounts`, `UndisturbedReads`; `AllAnswered` |
| `connections` | 3 connections, `MaxThreads` 4, 1 request each, SIGINT at any time | `TypeOK`, `ClientsCounted`, `SocketsOwned`; `RefusalIsForEver`, `HandlersEnd` |
| `client` | 2 servers that join and die, put and stats, 6 links | `TypeOK`, `LinksFollowChain`, `LinksBounded`; `CommandsReturn`, `LinksCatchUp` |
| `session` | 3 clients, 1 key, lengths modulo 2, 2 descriptors, 3 commands | `TypeOK`, `OwnAnswers`; `WaitsForOthers` |
| `hash_safety` | keys "", "a", "aa" and two of a negative character in 2 rows, 2 values, allocations fail | `WellFormed`, `KeysSurvive`; `IsDictionary`: `HashTable` implements `Dictionary` |

Why these bounds.

- Three servers are the least with a head, a middle and a tail, so that a forward is
  itself forwarded; two clients are the least that compete for a mutex or make a
  reader meet a writer; two requests make a client's second request meet the state
  its first left; two values tell an old value from a new one. The locks of a server
  take no notice of keys, so one key shows the conflicts of `Chain`.
- Three znodes allow a first, a middle and a last one. Restarts are left to
  `membership_join_after_restart` and to the theorems.
- `failover` has a join and a fault: a write meets a copy, a link that is dropped, or
  a dead successor, and the second write what the first left behind.
- Three handlers are two readers that wait for one writer. A gettable of one entry has
  every step of a longer one; `ReadsAreUndisturbed` proves the others.
- Three connections are one more than `MaxThreads` 4 admits, and two handlers are
  the least whose updates of the counter cross.
- Two servers give the client's chain four changes, each of its ends a change of its
  own, and an empty chain; six links are more than can exist or be named at once (two
  in use, two that the start left behind, one freed under a call). `put` and `stats` are
  a command for each link, and the second does not check its response.
- In `session` a list of one key is an answer whose length is cut to 0; the third
  client finds no descriptor left.
- Three of the five keys share a row: a first, a middle and a last entry of a list, the
  last one of a negative sum; one is alone in its row; one has no row.

`MaxRequests`, `MaxNodes`, `MaxServers`, `MaxWrites`, `MaxLosses`, `MaxFaults`,
`MaxLinks`, `MaxCommands`, `Formed` and `Operation` are bounds of the models and not
of the code. `Limit`, `Descriptors` and `MaxThreads` are numbers of the code made
small. No run uses symmetry, since most check liveness. Instead the MC modules use
interchangeable handlers, clients, connections and addresses in one order (`InOrder`,
the constraint of `MCSpec`): every behaviour has a renaming that keeps it.

`CHECK_DEADLOCK FALSE` stands in all configurations but that of `chain`: all servers
may have stopped, the process may have ended, all clients may have had their requests,
a call may have been undefined. `MCChain` gives the state in which every request has been
answered a step of its own, so that a deadlock of `chain` is a request that is stuck.

Fairness, weak except where it says strong:

- `Chain`, `Skeleton`: the steps of each handler. A mutex is released by the thread
  that holds it, and no step of a handler depends on a client. A request that waits
  for the mutex waits while others pass; each client has one request at a time and
  the instances bound their number, so weak fairness is enough.
- `Membership`: the two threads of each server, and the handler of a write that is
  forwarded. Strong where a request waits for a mutex: one write after another may hold
  it, and the mutex is assumed to reach whoever waits for it in the end, as pthread
  mutexes do in practice and do not promise. Nothing makes ZooKeeper expire a session.
- `Failover`: some thread that can take a step takes one. Each has finitely much to
  do for each request and each change, so no thread is favoured for ever.
- `Connections`: the end of the process, and the accept loop and each handler as long
  as no lock is held for ever (`hung`).
- `Client`: `main()`, `child_watcher()`, and a server that runs answers (`AllAnswered`
  of `Chain` and of `Skeleton`, which holds while the chain does not change).
- `Session`: the server, from its start on, and the reading half of each client.

Nothing makes a user give a command, a client send or leave, a server join a chain, a read
on a foreign descriptor end, or a fault happen.

Runs that end in a counterexample, each a disagreement of code and text:

| run | property | finding |
|-----|----------|---------|
| `failover_copies` | `CopiesAgree` | with no fault at all, a write taken between the copy of a table and the change of the link reaches one server and not the next (README line 19: "ensure data consistency"; p4 `table_skel.c:316`) |
| `skeleton_gettable_dies` | `InvokeReturns` | gettable follows the NULL of a key that was removed between two of its calls |
| `membership_link_overwritten` | `ChainForms` | `main()` overwrites the newer link of `child_watcher()` |
| `membership_join_after_restart` | `JoinsComplete` | a server restarted before its old znode expires takes itself for its predecessor and copies its table from itself, for ever |

Two more disagreements need no run. The comment at p4 `table_skel.c:33` has writers
wait for readers; nothing in the code waits on `all_finished_reading`. And in p1
`table_get_keys()` returns NULL, its sign of an error, for a table with an empty row
(`table.c:201`, `list.c:235`).

Where the code is weaker than it may seem, the specifications say so, by name:

- `KVStore` lets a write disturb the gets that are outstanding.
- `Dictionary` lets a call fail only if an allocation failed in that very call, with these
  exceptions: a put that fails may lose the entry it replaces and report success, because
  `list_add()` ignores the result of its second call (`DPutLoses`); a failed `strdup()` cuts
  the list of keys (`DGetKeysCut`); `table_get_keys()` fails for a table with an empty row
  (`gap`), and for no other; and nothing is promised after a call that is undefined in C
  (`DUndefined`).
- `Membership`: `JoinsComplete` excepts a server left behind a write that will not end
  (`BehindStuckWrite`). A server that joins waits for a mutex; the write that holds it was
  forwarded to that very server, or to one that waits for it, which accepts no connection
  before it has its copy (`table_server.c:398`); or the write reads from a descriptor
  that is not its own. No restart and no fault is needed for the first of these.
- `Failover`: `AckedWritesKept` and `TablesAgree` leave out the writes of `unsent` (the
  result of `send_next()` is ignored) and the servers of `blank` (a failed copy is
  ignored). For every other write `TablesAgree` says that no table has it twice, that a
  server has none that the servers before it lack, and that two tables that have it
  have the same writes before it. `WritesEnd` excepts `Held`: a handler that reads from a
  connection that is not its own (`Stray`), and a mutex held for a write that waits at
  the very server that needs this mutex to get its table (`JoinLock`).
- `Connections`: `ClientsCounted` holds until two updates have crossed; `HandlersEnd`
  excepts a process that `hung` in its signal handler.
- `Session`: `OwnAnswers` holds until an answer was too long for its length (64 KB in
  the code) or the server died; `WaitsForOthers` says who keeps a client waiting.
- `Client`: `CommandsReturn` excepts a command whose link `child_watcher()` has freed:
  it may wait for ever on a descriptor that is not its own. It also rests on a server that
  runs answering, which `Held` in `Failover` shows is not so while a chain changes.
  `LinksFollowChain` and `LinksCatchUp` except a start that `child_watcher()` overtook,
  and `Mixed`: the number of a socket that a failed command closed was given out again, and
  both links share one connection.

## 4. What is proved

TLAPS checks these for every value of the constants that meets the assumptions of the
module (`ChainAssumption`, `DataAssumption`, `MembershipAssumption`,
`SkeletonAssumption`, `ConnectionsAssumption`, `ClientAssumption`,
`FailoverAssumption`, `SessionAssumption`, `HashAssumption`, `NameAssumption`): handlers,
keys and connections are finite, bounds are numbers, the names of keys have no NUL in
them. Every invariant and every property of steps that a passing run checks has a
theorem, and so have both refinements, `Linearizable` and `IsDictionary`.

`ChainProofs`: `TypeCorrect`, `ReplicasAgree`, `WritesFollowTheChain`,
`WakeupsReachReaders`. None of the properties is inductive. The invariant is

- `Control`: types; the holder of a mutex is the one handler in `Holding`; only
  clients at the ends, and each server at its successor, have a handler at work
  (`Active`); and that handler is at work exactly while the predecessor waits, with
  the very request (`Link`);
- `Counting`: `writers_count` is the number of handlers between its increment and
  its decrement, which is what makes a broadcast certain when the last one leaves;
- `Replicas`: the servers inside a write form an unbroken line from the head
  (`Descent`), and a table differs from the head's only below the point that the
  write has reached, and then by that write (`Agreement`).

`Link` is the step from a local fact (a mutex) to one about two servers, and
`Agreement` the one from there to all: with `mutex[1] = None` the line is empty and
all tables are equal.

Its last part is `ImplementsKVStore`, that is `Spec => Linearizable`: the chain is
one table to its clients, however many servers, clients and keys there are. Two facts
join the invariant: a client's request is at one server (`OneSite`), and as long as a
write has not reached the tail, the answer that the head keeps for it is the one the
tail's table would give (`Promise`). `Promise` is what makes the point at which a write
takes effect, the tail, agree with the point at which it was answered, the head; it
follows from `Agreement` when the head applies and from the mutex afterwards.
`Views` reads the refinement mapping one client at a time: ready, or invoked, or done
with the result that its handler holds. A step either changes what one client sees
(`SendShown`, `WriteShown`, `ReadShown`, `ReplyShown`: each an action of `KVStore`) or
nothing that a client sees (`Hidden`), and a write on its way down or an answer on its
way up is of the second kind everywhere but at the tail.

`MembershipProofs`: `TypeCorrect`, `LinksFollow`, `ChangesNoticed`. The invariant
adds to the type: a process outside its working stages has no watch, event, list or
link (`IdleOutside`); unused numbers are absent (`Unused`); a sound session has a
watch or an event, and while it has a watch its list is the present one
(`NothingMissed`, the statement of `ChangesNoticed`); and before `main()` links, no
link is set unless `child_watcher()` was first (`NoLinkYet`). `LinkFollowsChain`
follows a link from the list it was taken from to `/chain` itself.
Its exceptions `overtaken` and `Twin` are the two ways in which the code breaks the
rule, and the runs `membership_link_overwritten` and `membership_join_after_restart`
show both.

`SkeletonProofs`: `TypeCorrect`, `TotalsCount`, `ReadsAreUndisturbed`. The type is
inductive with the paths (`OnPaths`: only a write is at a writer's stage, only a read
at a reader's) and with `total_operations` in terms of what is under way (`Total`); the
counters are cardinalities of sets of handlers, and each step moves one handler, or
wakes the waiting ones, which are in none of those sets. `Told` bounds what OP_STATS
reports, now and for ever, because the count of operations only grows. `ReadInv` says
what a gettable has gathered at each of its stages: the entries of the table but for
those of the keys that are left, of which there are as many as it counts on.

`ConnectionsProofs`: `TypeCorrect`, `SocketsAreOwned`, `ClientsAreCounted`,
`RefusalsAreForEver`. `TwoPlaces` ties the number of connections ever taken to
`thread_count`: two places each, but for one that is started and not yet recorded.
`MaxThreads` even then puts the second place inside the arrays. `RefusalIsForEver` is an
action property that follows from `TwoPlaces` before the step. `ClientsCounted` is
inductive with the type: unless updates have crossed, a thread that writes the counter
has read its present value.

`ClientProofs`: `TypeCorrect`, `LinksFollow`, `LinksAreBounded`. `TypeInv` adds to the type
which pointers `main()` has stored, that nothing is heard before it reads `/chain`, and that
only open sockets are connected. `Stages` says where the two threads may be at one
time, and what is allocated then. `Apart` says that until `main()` has stored both of its
links, each has a socket of its own unless it was refused. `FollowInv` carries the
two links from the list they were made from to the list that `/chain` holds now: with
no event the list of `child_watcher()` (`WatcherKnows`), or that of `main()` (`MainKnows`),
is the present one, and the stages of both threads say which of the two pointers already
follow it. `OrphanInv` adds up the links that no pointer names, the calls in which `main()`
still stores a link, and the links that `child_watcher()` is about to store over: together
never more than two, so a link left behind is one that `main()` met on its way to the
prompt. `LeakInv` does the same for sockets that no link names: one is lost when the number
of a refused socket was given out again to `main()` and is freed with the refused link.

`FailoverProofs`: `TypeCorrect`, `AckedKept`, `OrderKept`. The type of a forwarded request
is that of `mutex`: its handler at the next server has one place, whatever asked it. So the invariant must show
that nothing arrives at a handler that is at work: links lead down the chain (`Descends`),
the owner of a mutex is the one handler that holds it (`Owned`), only servers that live
have links and writes (`Living`), a handler is asked by a server that still waits
(`Unasked`), and a write that a server may yet forward is nowhere further down
(`Frontier`), which survives a link that is dropped and set anew, because a new link
also leads down.

The other two theorems are about tables while the chain changes, and neither property is
inductive: the table that a server copies, the write that a handler still holds and the
answer on its way up say nothing by themselves. `ChainInv` adds four parts to the type.
`Structure` says where every server is in its life and where a link, or the address that a
server is about to use, may lead: down the chain, past no server of `/chain` and past none
that a server which joins copies from. `Travel` says where a write may be: a server that
is upstream has had whatever one below it has had, a handler that has applied a write has
it in its table, and a handler that waits waits for one server; a write that was passed on
goes down server by server, each waiting for the next (`InTurn`, `Between`). `Repeats` says
that no write is twice in a table that is in use, not even when it came with a copied table
and comes over a link as well: the second is on its way only while the server copied from
holds its mutex for that write, or is dead (`Copied`, `Holds`), or over links that lead to
no server of the chain any more (`CastOff`).
`Tables` is what the theorems say, for the copies that are not in
use yet as well, and with the writes that are in hand. The steps fall into four kinds,
one lemma each for what they have in common: those that only take away, a crash, an exit,
a lost session, a dropped link (`Wanes`); a server that joins (`Register`, `ListChain`,
`CopyTake`);
a write that goes one table further (`Ask`, `Apply`, `Forward`); and a handler that goes
on with a write that its table has (`Moved`), where `Answered` hands the successor's
promise on and every failure puts the write into `unsent`.

`SessionProofs`: `TypeCorrect`, `OwnAnswersOnly`. `Orderly` says what a connection holds at
each stage of its client: nothing at the prompt; the request, or the message in the
server's hand, or its frame, while it waits; the rest of the frame, of exactly the length
that was read, while it reads (`Measured`). It holds as long as the server lives and no
answer was cut, and it makes every read of the client a read of one whole frame.

`HashTableProofs`: `TableSound`, `ImplementsDictionary`, `RoundTrip`, `KeysKept`. Lemmas say
what `list_get()`, `list_remove()`, `insert()` and `list_add()` do to a list that is in
order (`GetIs`, `RemoveIs`, `InsertIs`, `AddIs`): which entries it has afterwards, and that
it is in order again. The invariant `TableInv` (types, `InOrder`, `AtHome`) is `WellFormed`
for lists of entries. For the refinement, the map of a table changes at the key of a call
and nowhere else (`MapAdded`, `MapRemoved`); a list is as long as it has keys (`Counted`),
which needs the order, because a key that is twice in a list would be counted twice; so
`table_size()` is the number of keys (`SizeIs`) and `table_get_keys()` lists each once
(`KeysAre`). `RoundTrip` is about `serialization.c` alone: key i begins where the texts
before it end (`TextIs`), `strlen()` stops at the NUL after it and not before
(`StringIs`), and so the pointer is at the next key. The sum, the concatenation and the
pointer are recursive functions. That they exist and what they compute is proved with a
smallest number, or set, for which it fails (`Least`, `JoinExists`, `Recursion`); the
induction theorems of the library have an operator for a parameter, which the provers
cannot instantiate.

Only model-checked:

- liveness and fairness, which TLAPS cannot prove, and with it `AllAnswered`,
  `JoinsComplete`, `WritesEnd`, `HandlersEnd`, `CommandsReturn`, `WaitsForOthers` and
  their like.

## 5. What is not modelled

- the client of p3: it is that of p2, which `Session` has, with the statistics;
- `data_replace()`, `entry_replace()`, `table_create()`, `table_destroy()`,
  `list_create()`, `list_destroy()`: allocation and release, no behaviour over time;
- the generated `sdmessage.pb-c.c`, object files and Makefiles, command lines, output;
- in `Chain` and `Failover`, the operations that neither forward nor race in a way of
  their own: `size`, `getkeys` and `stats` are in `Skeleton`;
- in `Membership`, a server that starts without a session (`table_server.c:268`), and the
  requests of clients that do not hold the mutex while they wait;
- `before` of p4 `table_server.c:355` points into a block that has ended when it is
  read: modelled as the address stored last;
- in `Failover`, two servers that register at the same time (`Membership` has them), reads
  other than the copy, restarts (a server that comes back is a new
  one), and the numbers of descriptors: what is read or closed through a stale one is
  left open in `Strays` and `Crossed`;
- in `Client`, the expiry of its own session, a failed read of `/chain`, an
  `rtable_connect()` that fails, and the state of `strtok()` and the address buffers that the
  two threads share; the ZooKeeper library is taken to keep its connection, so that no other
  part of the process takes a socket number that was closed;
- in `Session`, the end of the input before any command, and a request that a killed
  client has written in part;
- in `Connections`, a second SIGINT, and a `pthread_create()` that fails.

## 6. Plan

Done: `KVData`, `KVStore`, `Chain`, `ChainProofs`; `Membership`, `MembershipProofs`;
`Skeleton`, `SkeletonProofs`; `Dictionary`, `HashTable`, `Serialization`, `KeyArrays`,
`HashTableProofs`; `Client`, `ClientProofs`; `Connections`, `ConnectionsProofs`; `Session`,
`SessionProofs`; `Failover`, `FailoverProofs`.

Left, in order:

1. `Failover`: what holds of the writes of `unsent`, in the servers before the one that
   did not pass them on.
2. `Session`: that a list of keys longer than a message may be is the one way to an
   answer that is not the client's own, as a theorem about the codes of messages.
