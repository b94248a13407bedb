---------------------------- MODULE Connections ----------------------------
(***************************************************************************)
(* The connections of the server of projeto4 (and, but for the chain, of   *)
(* projeto3): the main thread accepts, one thread serves each connection,  *)
(* and SIGINT ends the process from whatever thread it meets, those of the *)
(* ZooKeeper client included, or leaves it hung: the handler allocates and *)
(* frees, and the thread may hold the lock of malloc().  What a request    *)
(* does is in Skeleton and Chain.                                          *)
(***************************************************************************)
EXTENDS Naturals, Integers, FiniteSets

CONSTANTS
    Conn,           \* the connections that clients make
    MaxThreads,     \* MAX_THREADS
    MaxRequests     \* bound: how many requests a connection carries

(* MAX_THREADS is 100: the two entries of a connection end at the bound.   *)
ASSUME ConnectionsAssumption ==
    /\ IsFiniteSet(Conn) /\ 0 \notin Conn /\ -1 \notin Conn
    /\ MaxThreads \in Nat /\ MaxThreads % 2 = 0
    /\ MaxRequests \in Nat

VARIABLES
    process,        \* "running", the steps of its end, or "dead"
    interrupted,    \* the thread that SIGINT took, if any
    hung,           \* the thread that SIGINT took waits for ever
    thread_count,   \* the next free place of thread_array, client_array
    shown,          \* stats->connected_clients
    entering,       \* main thread: the connection it has accepted, if any
    read,           \* read[t]: what thread t has read of shown, or -1
    client,         \* client[c]: what the client of c does
    pc,             \* pc[c]: where the handler of c is
    open,           \* open[c]: the server has the socket of c open
    sent,           \* sent[c]: how many requests c has carried
    crossed         \* history: two updates of shown have crossed

life == <<process, interrupted, hung>>
counting == <<shown, read, crossed>>
vars == <<life, thread_count, counting, entering, client, pc, open, sent>>

(* main() and the handlers; child_watcher() has a thread of its own.       *)
Main    == 0
Watcher == -1
Thread  == {Main} \cup Conn
Ending == {"unlinked", "closed", "destroyed"}

Runs(t) == process # "dead" /\ t \notin interrupted
-----------------------------------------------------------------------------
Init ==
    /\ process = "running" /\ interrupted = {} /\ hung = FALSE
    /\ thread_count = 0 /\ shown = 0 /\ entering = {}
    /\ read = [t \in Thread |-> -1]
    /\ client = [c \in Conn |-> "away"] /\ pc = [c \in Conn |-> "none"]
    /\ open = [c \in Conn |-> FALSE] /\ sent = [c \in Conn |-> 0]
    /\ crossed = FALSE

(* connected_clients++ and connected_clients-- are a read and a write, and *)
(* nothing keeps two threads apart.                                        *)
ReadShown(t) ==
    /\ read' = [read EXCEPT ![t] = shown]
    /\ UNCHANGED <<shown, crossed>>

WriteShown(t, n) ==
    /\ shown' = n
    /\ read' = [read EXCEPT ![t] = -1]
    /\ crossed' = (crossed \/ shown # read[t] \/ \E u \in Thread \ {t} : read[u] # -1)
-----------------------------------------------------------------------------
(* Fault: an off-by-one in the test of the limit.                          *)
AcceptOneMore(c) ==
    /\ Runs(Main) /\ entering = {}
    /\ client[c] \in {"connecting", "gone"} /\ pc[c] = "none"
    /\ thread_count <= MaxThreads
    /\ entering' = {c}
    /\ open' = [open EXCEPT ![c] = TRUE]
    /\ ReadShown(Main)
    /\ UNCHANGED <<life, thread_count, client, pc, sent>>

(* network_main_loop().                                                    *)
Accept(c) ==
    /\ Runs(Main) /\ entering = {}
    /\ client[c] \in {"connecting", "gone"} /\ pc[c] = "none"
    /\ thread_count < MaxThreads
    /\ entering' = {c}
    /\ open' = [open EXCEPT ![c] = TRUE]
    /\ ReadShown(Main)
    /\ UNCHANGED <<life, thread_count, client, pc, sent>>

(* Fault: the last two places are never used.                              *)
RefuseEarly(c) ==
    /\ Runs(Main) /\ entering = {}
    /\ client[c] \in {"connecting", "gone"} /\ pc[c] = "none"
    /\ thread_count + 2 >= MaxThreads
    /\ client' = [client EXCEPT ![c] = IF @ = "gone" THEN @ ELSE "refused"]
    /\ pc' = [pc EXCEPT ![c] = "refused"]
    /\ UNCHANGED <<life, thread_count, counting, entering, open, sent>>

(* No place is ever given back.                                            *)
Refuse(c) ==
    /\ Runs(Main) /\ entering = {}
    /\ client[c] \in {"connecting", "gone"} /\ pc[c] = "none"
    /\ thread_count >= MaxThreads
    /\ client' = [client EXCEPT ![c] = IF @ = "gone" THEN @ ELSE "refused"]
    /\ pc' = [pc EXCEPT ![c] = "refused"]
    /\ UNCHANGED <<life, thread_count, counting, entering, open, sent>>

(* connected_clients++ and pthread_create(); the thread starts at once.    *)
CountIn(c) ==
    /\ Runs(Main) /\ c \in entering /\ pc[c] = "none"
    /\ WriteShown(Main, read[Main] + 1)
    /\ pc' = [pc EXCEPT ![c] = "receiving"]
    /\ client' = [client EXCEPT ![c] = IF @ = "gone" THEN @ ELSE "connected"]
    /\ UNCHANGED <<life, thread_count, entering, open, sent>>

(* The thread and the socket go to one place each, not to the same one.    *)
Record(c) ==
    /\ Runs(Main) /\ c \in entering /\ pc[c] # "none"
    /\ thread_count' = thread_count + 2
    /\ entering' = {}
    /\ UNCHANGED <<life, counting, client, pc, open, sent>>
-----------------------------------------------------------------------------
(* handle_client().                                                        *)
Step(c, a, b) == Runs(c) /\ pc[c] = a /\ pc' = [pc EXCEPT ![c] = b]

(* A client that left while it waited has left a request, or a part of it. *)
Receive(c) ==
    /\ client[c] \in {"waiting", "left"} /\ Step(c, "receiving", "invoking")
    /\ client' = [client EXCEPT ![c] = IF @ = "left" THEN "gone" ELSE @]
    /\ UNCHANGED <<life, thread_count, counting, entering, open, sent>>

(* Fault: the end of file passes for a message.                            *)
EndAsMessage(c) ==
    /\ client[c] = "gone" /\ Step(c, "receiving", "invoking")
    /\ UNCHANGED <<life, thread_count, counting, entering, client, open, sent>>

(* An error or the end of file: network_receive() has set the length to 0  *)
(* before it reads, so both end the loop.                                  *)
ReceiveEnd(c) ==
    /\ client[c] \in {"left", "gone"} /\ Step(c, "receiving", "counting")
    /\ client' = [client EXCEPT ![c] = "gone"]
    /\ ReadShown(c)
    /\ UNCHANGED <<life, thread_count, entering, open, sent>>

Invoke(c) ==
    /\ Step(c, "invoking", "answering")
    /\ UNCHANGED <<life, thread_count, counting, entering, client, open, sent>>

Send(c) ==
    /\ client[c] = "waiting" /\ Step(c, "answering", "receiving")
    /\ client' = [client EXCEPT ![c] = "connected"]
    /\ UNCHANGED <<life, thread_count, counting, entering, open, sent>>

Dies ==
    /\ process' = "dead" /\ interrupted' = {} /\ hung' = FALSE /\ entering' = {} /\ thread_count' = 0
    /\ shown' = 0 /\ read' = [t \in Thread |-> -1] /\ crossed' = FALSE
    /\ pc' = [c \in Conn |-> "none"] /\ open' = [c \in Conn |-> FALSE]
    /\ client' = [c \in Conn |-> IF client[c] = "away" THEN "away" ELSE "gone"]
    /\ UNCHANGED sent

(* The client is gone.  network_send() may notice, and then the thread     *)
(* returns without closing its socket or counting the client out; or it    *)
(* may not; or SIGPIPE ends the process.                                   *)
SendInVain(c) ==
    /\ client[c] = "gone"
    /\ \/ /\ Step(c, "answering", "returned") \/ Step(c, "answering", "receiving")
          /\ UNCHANGED <<life, thread_count, counting, entering,
                         client, open, sent>>
       \/ Runs(c) /\ pc[c] = "answering" /\ Dies

(* Fault: the thread closes the socket and forgets the count.              *)
CloseUncounted(c) ==
    /\ Step(c, "counting", "closed")
    /\ open' = [open EXCEPT ![c] = FALSE]
    /\ read' = [read EXCEPT ![c] = -1]
    /\ UNCHANGED <<life, thread_count, shown, crossed, entering, client, sent>>

(* Fault: the count and no close.                                          *)
CountOutOpen(c) ==
    /\ Step(c, "counting", "closed")
    /\ WriteShown(c, read[c] - 1)
    /\ UNCHANGED <<life, thread_count, entering, client, open, sent>>

CountOut(c) ==
    /\ Step(c, "counting", "closed")
    /\ WriteShown(c, read[c] - 1)
    /\ open' = [open EXCEPT ![c] = FALSE]
    /\ UNCHANGED <<life, thread_count, entering, client, sent>>
-----------------------------------------------------------------------------
(* handler(): it looks at a counter that nobody changes, finds 0 and goes  *)
(* on to sigpipe_handler(), on the stack of the thread that SIGINT met.    *)
Interrupt(t) ==
    /\ process = "running"
    /\ t \in Conn => pc[t] \in {"receiving", "invoking", "answering", "counting"}
    /\ process' = "unlinked" /\ interrupted' = {t}
    /\ UNCHANGED <<hung, thread_count, counting, entering, client, pc, open, sent>>

(* sigpipe_handler(): the link, the session, the table, exit().            *)
End ==
    \/ /\ ~hung /\ process \in {"unlinked", "closed"}
       /\ process' = IF process = "unlinked" THEN "closed" ELSE "destroyed"
       /\ UNCHANGED <<interrupted, hung, thread_count, counting, entering, client, pc, open, sent>>
    \/ ~hung /\ process = "destroyed" /\ Dies

(* The thread was inside malloc(), free() or printf(): its lock is taken.  *)
Hang ==
    /\ process \in Ending /\ ~hung
    /\ hung' = TRUE
    /\ UNCHANGED <<process, interrupted, thread_count, counting, entering, client, pc, open, sent>>

(* Another thread that uses the table after it was destroyed.              *)
UseDestroyed(c) ==
    /\ Runs(c) /\ process = "destroyed" /\ pc[c] = "invoking"
    /\ Dies
-----------------------------------------------------------------------------
(* The clients.                                                            *)
Connect(c) ==
    /\ client[c] = "away" /\ process # "dead"
    /\ client' = [client EXCEPT ![c] = "connecting"]
    /\ UNCHANGED <<life, thread_count, counting, entering, pc, open, sent>>

Ask(c) ==
    /\ client[c] = "connected" /\ sent[c] < MaxRequests
    /\ client' = [client EXCEPT ![c] = "waiting"]
    /\ sent' = [sent EXCEPT ![c] = @ + 1]
    /\ UNCHANGED <<life, thread_count, counting, entering, pc, open>>

Leave(c) ==
    /\ client[c] \in {"connecting", "connected", "waiting"}
    /\ client' = [client EXCEPT ![c] = IF @ = "waiting" /\ pc[c] = "receiving" THEN "left" ELSE "gone"]
    /\ UNCHANGED <<life, thread_count, counting, entering, pc, open, sent>>

MainLoop  == \E c \in Conn : Accept(c) \/ Refuse(c) \/ CountIn(c) \/ Record(c)
Handle(c) == Receive(c) \/ ReceiveEnd(c) \/ Invoke(c) \/ Send(c) \/ SendInVain(c) \/ CountOut(c)

Next ==
    \/ MainLoop \/ End \/ Hang
    \/ \E t \in Thread \cup {Watcher} : Interrupt(t)
    \/ \E c \in Conn : Handle(c) \/ UseDestroyed(c) \/ Connect(c) \/ Ask(c) \/ Leave(c)

Spec == Init /\ [][Next]_vars

(* The threads run, but for a lock that is never released; nothing makes a *)
(* client do anything.                                                     *)
Fairness == /\ WF_vars(~hung /\ MainLoop) /\ WF_vars(End)
            /\ \A c \in Conn : WF_vars(~hung /\ Handle(c))
FairSpec == Spec /\ Fairness
-----------------------------------------------------------------------------
AtMostOne(S) == {{}} \cup {{x} : x \in S}
In(stages) == {c \in Conn : pc[c] \in stages}
Handling   == {"receiving", "invoking", "answering", "counting"}

(* The type of every variable; both entries of a connection lie inside the *)
(* arrays; a thread has read the counter exactly while it is about to      *)
(* change it.                                                              *)
TypeOK ==
    /\ process \in {"running", "dead"} \cup Ending
    /\ interrupted \in AtMostOne(Thread \cup {Watcher})
    /\ interrupted # {} <=> process \in Ending
    /\ hung \in BOOLEAN /\ (hung => process \in Ending)
    /\ thread_count \in 0 .. MaxThreads /\ thread_count % 2 = 0
    /\ entering \in AtMostOne(Conn)
    /\ entering # {} => thread_count + 1 < MaxThreads
    /\ shown \in Int /\ read \in [Thread -> Int] /\ crossed \in BOOLEAN
    /\ client \in [Conn -> {"away", "connecting", "connected", "waiting", "refused", "left", "gone"}]
    /\ pc \in [Conn -> {"none", "refused", "returned", "closed"} \cup Handling]
    /\ open \in [Conn -> BOOLEAN] /\ sent \in [Conn -> 0 .. MaxRequests]
    /\ \A c \in Conn : pc[c] # "counting" => read[c] = -1

(* While no two updates have crossed, connected_clients is the number of   *)
(* connections that are served, and of those whose handler has returned    *)
(* from the middle of its loop.                                            *)
ClientsCounted ==
    ~crossed => shown = Cardinality(In(Handling \cup {"returned"}))

(* A socket of the server belongs to a connection that is served, or to    *)
(* one whose handler has returned from the middle of its loop.             *)
SocketsOwned ==
    \A c \in Conn : open[c] <=> \/ c \in entering /\ pc[c] = "none"
                               \/ pc[c] \in Handling \cup {"returned"}

(* Once the server refuses, it has taken MaxThreads / 2 connections in its *)
(* life: it refuses for ever, whoever has left.                            *)
RefusalIsForEver ==
    [][\A c \in Conn : pc[c] # "refused" /\ pc'[c] = "refused" =>
          2 * Cardinality(In(Handling \cup {"returned", "closed"})) = MaxThreads]_vars

(* The handler of a client that is gone ends, with the process if SIGINT   *)
(* comes, unless that hangs under a lock.                                  *)
HandlersEnd ==
    \A c \in Conn : pc[c] = "receiving" /\ client[c] \in {"left", "gone"} ~>
        hung \/ pc[c] \in {"closed", "returned", "none"}
=============================================================================
