----------------------------- MODULE Membership -----------------------------
(***************************************************************************)
(* How the servers of projeto4 form the chain (table_server.c).  A server  *)
(* listens, creates an ephemeral sequential znode under /chain, reads the  *)
(* children of /chain leaving a one-shot watch, links to the node after    *)
(* its own (update_next) and copies the table of the node before it.  From *)
(* then on child_watcher(), on the thread of the ZooKeeper client, reads   *)
(* the children again at every change and links anew.                      *)
(*                                                                         *)
(* A server is one run of the process, numbered by the sequence number of  *)
(* its znode; runs of a restarted process share their address.  ZooKeeper  *)
(* is external: its client library is modelled from the calls made here.   *)
(***************************************************************************)
EXTENDS Naturals, FiniteSets

CONSTANTS
    Address,        \* host:port of the servers
    None,           \* no address
    MaxNodes,       \* bound: how many znodes are ever created
    MaxLosses,      \* bound: how many sessions go wrong
    Restarts        \* whether a server may be restarted at its address

ASSUME MembershipAssumption ==
    /\ None \notin Address
    /\ MaxNodes \in Nat /\ MaxLosses \in Nat
    /\ Restarts \in BOOLEAN

Node   == 1 .. MaxNodes
NoList == {0}       \* no list of children in hand
Astray == MaxNodes + 1  \* no node: a descriptor that is not the writer's own

VARIABLES
    nodes,      \* the children of /chain
    last,       \* the last sequence number given out
    addr,       \* addr[s]: the address in the name of znode s
    proc,       \* proc[s]: how far main() of s is
    watch,      \* watch[s]: ZooKeeper holds a watch of s on /chain
    event,      \* event[s]: a child event is on its way to s
    mlist,      \* mlist[s]: the list main() is working on
    wlist,      \* wlist[s]: the list child_watcher() is working on
    next,       \* next[s]: send_to_next
    before,     \* before[s]: the address to copy the table from
    peer,       \* peer[s]: the server s is copying from
    holder,     \* holder[s]: whom the write that holds write_mutex waits for
    lost,       \* lost[s]: the session of s expired, or a read of /chain failed
    overtaken   \* overtaken[s]: child_watcher() linked s before main() did

zookeeper == <<nodes, last, addr>>
session   == <<watch, event, lost>>
links     == <<next, before, overtaken>>
waiting   == <<peer, holder>>
vars      == <<zookeeper, session, links, proc, mlist, wlist, waiting>>

Stage == {"absent", "registered", "listed", "linked", "joining", "serving",
          "down"}
Alive(s)  == proc[s] \notin {"absent", "down"}
Linked(s) == proc[s] \in {"linked", "joining", "serving"}
-----------------------------------------------------------------------------
(* Lists of children.  qsort() orders them by sequence number, so a list   *)
(* is its set of nodes.                                                    *)
Later(i, L)   == {j \in L : j > i}
Earlier(i, L) == {j \in L : j < i}
Lowest(L)     == CHOOSE i \in L : \A j \in L : i <= j
Highest(L)    == CHOOSE i \in L : \A j \in L : i >= j

(* strstr(resultString, node_path) compares the address, not the sequence  *)
(* number: it finds every node a process at this address created.          *)
Own(s, L) == {i \in L : addr[i] = addr[s]}

Successor(i, L)   == IF Later(i, L) = {} THEN None ELSE addr[Lowest(Later(i, L))]
Predecessor(i, L) == addr[Highest(Earlier(i, L))]

(* Both loops run over the whole list: the last match decides.  main()     *)
(* has no else and leaves the link of a last node as it is; child_watcher  *)
(* clears it.                                                              *)
MainNext(s, L) ==
    LET linkable == {i \in Own(s, L) : Later(i, L) # {}}
    IN  IF linkable = {} THEN next[s] ELSE Successor(Highest(linkable), L)

(* Fault: child_watcher() without its else.                                *)
WatcherKeepsLink(s, L) == MainNext(s, L)

WatcherNext(s, L) ==
    IF Own(s, L) = {} THEN next[s] ELSE Successor(Highest(Own(s, L)), L)

NewBefore(s, L) ==
    LET preceded == {i \in Own(s, L) : Earlier(i, L) # {}}
    IN  IF preceded = {} THEN before[s] ELSE Predecessor(Highest(preceded), L)

(* main() serves without a copy when the last match is the first node.     *)
IsHead(s, L) == Own(s, L) # {} => Earlier(Highest(Own(s, L)), L) = {}
-----------------------------------------------------------------------------
Init ==
    /\ nodes = {} /\ last = 0
    /\ addr = [s \in Node |-> None]
    /\ proc = [s \in Node |-> "absent"]
    /\ watch = [s \in Node |-> FALSE]
    /\ event = [s \in Node |-> FALSE]
    /\ lost = [s \in Node |-> FALSE]
    /\ mlist = [s \in Node |-> NoList]
    /\ wlist = [s \in Node |-> NoList]
    /\ next = [s \in Node |-> None]
    /\ before = [s \in Node |-> None]
    /\ overtaken = [s \in Node |-> FALSE]
    /\ peer = [s \in Node |-> 0]
    /\ holder = [s \in Node |-> 0]

(* ZooKeeper: /chain changes and every watch on it fires, once; nothing    *)
(* more reaches a server s whose session is gone (0: all sessions stay).   *)
Change(children, s) ==
    /\ nodes' = children
    /\ event' = [t \in Node |-> t # s /\ (event[t] \/ watch[t])]
    /\ watch' = [t \in Node |-> FALSE]

(* main(): listen, which needs the port, and create the znode.             *)
Register(a) ==
    /\ last < MaxNodes
    /\ \A t \in Node : addr[t] = a => Restarts /\ ~Alive(t)
    /\ last' = last + 1
    /\ Change(nodes \cup {last + 1}, 0)
    /\ addr' = [addr EXCEPT ![last + 1] = a]
    /\ proc' = [proc EXCEPT ![last + 1] = "registered"]
    /\ UNCHANGED <<lost, links, mlist, wlist, waiting>>

(* main(): zoo_wget_children().                                            *)
MainList(s) ==
    /\ proc[s] = "registered"
    /\ proc' = [proc EXCEPT ![s] = "listed"]
    /\ mlist' = [mlist EXCEPT ![s] = nodes]
    /\ watch' = [watch EXCEPT ![s] = TRUE]
    /\ UNCHANGED <<zookeeper, event, lost, links, wlist, waiting>>

(* A session goes wrong.                                                   *)
Lose(s) ==
    /\ Cardinality({t \in Node : lost[t]}) < MaxLosses
    /\ lost' = [lost EXCEPT ![s] = TRUE]

(* zoo_wget_children() fails: no watch is set, and the code goes on with   *)
(* the list that malloc() found in memory, whatever it is.  Where it is no *)
(* list at all the process dies (Crash).                                   *)
MainListFails(s) ==
    /\ proc[s] = "registered"
    /\ Lose(s)
    /\ proc' = [proc EXCEPT ![s] = "listed"]
    /\ \E L \in SUBSET (1 .. last) : mlist' = [mlist EXCEPT ![s] = L]
    /\ UNCHANGED <<zookeeper, watch, event, links, wlist, waiting>>

(* main(): set before, and the link.                                       *)
MainLink(s) ==
    /\ proc[s] = "listed"
    /\ next' = [next EXCEPT ![s] = MainNext(s, mlist[s])]
    /\ before' = [before EXCEPT ![s] = NewBefore(s, mlist[s])]
    /\ proc' = [proc EXCEPT ![s] = IF IsHead(s, mlist[s]) THEN "serving"
                                                         ELSE "linked"]
    /\ mlist' = [mlist EXCEPT ![s] = NoList]
    /\ UNCHANGED <<zookeeper, session, overtaken, wlist, waiting>>

(* The process is gone: its memory, and its end of the session.  The znode *)
(* stays until ZooKeeper expires the session.                              *)
Forget(s) ==
    /\ proc' = [proc EXCEPT ![s] = "down"]
    /\ mlist' = [mlist EXCEPT ![s] = NoList]
    /\ wlist' = [wlist EXCEPT ![s] = NoList]
    /\ next' = [next EXCEPT ![s] = None]
    /\ before' = [before EXCEPT ![s] = None]
    /\ overtaken' = [overtaken EXCEPT ![s] = FALSE]
    /\ peer' = [peer EXCEPT ![s] = 0]
    /\ holder' = [holder EXCEPT ![s] = 0]

Die(s) ==
    /\ Forget(s)
    /\ watch' = [watch EXCEPT ![s] = FALSE]
    /\ event' = [event EXCEPT ![s] = FALSE]
    /\ UNCHANGED <<zookeeper, lost>>

(* main(): network_connect() to before reaches whatever process listens at *)
(* that address now; if none does, main() returns.                         *)
Connect(s) ==
    /\ proc[s] = "linked"
    /\ \E t \in Node :
        /\ Alive(t) /\ addr[t] = before[s]
        /\ peer' = [peer EXCEPT ![s] = t]
    /\ proc' = [proc EXCEPT ![s] = "joining"]
    /\ UNCHANGED <<zookeeper, session, links, mlist, wlist, holder>>

ConnectRefused(s) ==
    /\ proc[s] = "linked"
    /\ \A t \in Node : addr[t] = before[s] => ~Alive(t)
    /\ Die(s)

(* A server answers requests that need write_mutex: it accepts, in its main*)
(* loop, and no write holds the mutex.                                     *)
Answers(t) == proc[t] = "serving" /\ holder[t] = 0

(* A write takes the mutex and is forwarded, by send_next(), to whatever   *)
(* process listens at the address of the link.                             *)
Forward(t) ==
    /\ Answers(t)
    /\ \E y \in Node :
        /\ Alive(y) /\ addr[y] = next[t]
        /\ holder' = [holder EXCEPT ![t] = y]
    /\ UNCHANGED <<zookeeper, session, links, proc, mlist, wlist, peer>>

(* It is answered, which takes the mutex of the next server, or that server*)
(* is dead.  What this write in turn waits for there is a Forward there.   *)
Forwarded(t) ==
    /\ holder[t] \in Node
    /\ Answers(holder[t]) \/ ~Alive(holder[t])
    /\ holder' = [holder EXCEPT ![t] = 0]
    /\ UNCHANGED <<zookeeper, session, links, proc, mlist, wlist, peer>>

(* A read from a descriptor that is not its own may end at any time.       *)
StrayEnds(t) ==
    /\ holder[t] = Astray
    /\ holder' = [holder EXCEPT ![t] = 0]
    /\ UNCHANGED <<zookeeper, session, links, proc, mlist, wlist, peer>>

(* Fault: the death of the peer is not noticed.                            *)
CopiedFromServing(s) ==
    /\ proc[s] = "joining"
    /\ Answers(peer[s])
    /\ proc' = [proc EXCEPT ![s] = "serving"]
    /\ peer' = [peer EXCEPT ![s] = 0]
    /\ UNCHANGED <<zookeeper, session, links, mlist, wlist, holder>>

(* main(): OP_STATS and rtable_get_table() are answered once the peer      *)
(* accepts and its handler gets the mutex.  When the peer dies the calls   *)
(* fail, and main() serves all the same, with an empty table.              *)
Copied(s) ==
    /\ proc[s] = "joining"
    /\ Answers(peer[s]) \/ ~Alive(peer[s])
    /\ proc' = [proc EXCEPT ![s] = "serving"]
    /\ peer' = [peer EXCEPT ![s] = 0]
    /\ UNCHANGED <<zookeeper, session, links, mlist, wlist, holder>>

(* Fault: the watch is not set again.                                      *)
FetchOnce(s) ==
    /\ event[s] /\ wlist[s] = NoList
    /\ wlist' = [wlist EXCEPT ![s] = nodes]
    /\ event' = [event EXCEPT ![s] = FALSE]
    /\ UNCHANGED <<zookeeper, watch, lost, links, proc, mlist, waiting>>

(* Fault: the event is not consumed.                                       *)
FetchAgain(s) ==
    /\ event[s] /\ wlist[s] = NoList
    /\ wlist' = [wlist EXCEPT ![s] = nodes]
    /\ watch' = [watch EXCEPT ![s] = TRUE]
    /\ UNCHANGED <<zookeeper, event, lost, links, proc, mlist, waiting>>

(* child_watcher(): zoo_wget_children(), which sets the watch again.       *)
Fetch(s) ==
    /\ event[s] /\ wlist[s] = NoList
    /\ wlist' = [wlist EXCEPT ![s] = nodes]
    /\ watch' = [watch EXCEPT ![s] = TRUE]
    /\ event' = [event EXCEPT ![s] = FALSE]
    /\ UNCHANGED <<zookeeper, lost, links, proc, mlist, waiting>>

(* child_watcher(): the loop over the list.  update_next() is one step; a  *)
(* second event waits on the thread of the client.  A write whose link is  *)
(* closed and freed while it reads from it goes on with another descriptor.*)
WatcherLink(s) ==
    /\ wlist[s] # NoList
    /\ next' = [next EXCEPT ![s] = WatcherNext(s, wlist[s])]
    /\ before' = [before EXCEPT ![s] = NewBefore(s, wlist[s])]
    /\ overtaken' = [overtaken EXCEPT ![s] = proc[s] = "listed"]
    /\ wlist' = [wlist EXCEPT ![s] = NoList]
    /\ \E y \in {holder[s], IF holder[s] = 0 THEN 0 ELSE Astray} :
          holder' = [holder EXCEPT ![s] = y]
    /\ UNCHANGED <<zookeeper, session, proc, mlist, peer>>

(* The environment.  A killed process leaves its znode; SIGINT closes the  *)
(* session and removes it; ZooKeeper expires the session of a dead process *)
(* and may expire that of one that is only slow; a read of /chain may fail.*)
Crash(s) == Alive(s) /\ Die(s)

Leave(s) ==
    /\ Alive(s) /\ s \in nodes
    /\ Change(nodes \ {s}, s)
    /\ Forget(s)
    /\ UNCHANGED <<last, addr, lost>>

Expire(s) ==
    /\ ~Alive(s) /\ s \in nodes
    /\ Change(nodes \ {s}, s)
    /\ UNCHANGED <<last, addr, lost, links, proc, mlist, wlist, waiting>>

LoseSession(s) ==
    /\ proc[s] = "listed" \/ Linked(s)
    /\ s \in nodes
    /\ Lose(s)
    /\ Change(nodes \ {s}, s)
    /\ UNCHANGED <<last, addr, links, proc, mlist, wlist, waiting>>

(* child_watcher() as MainListFails.                                       *)
FetchFails(s) ==
    /\ event[s] /\ wlist[s] = NoList
    /\ Lose(s)
    /\ event' = [event EXCEPT ![s] = FALSE]
    /\ \E L \in SUBSET (1 .. last) : wlist' = [wlist EXCEPT ![s] = L]
    /\ UNCHANGED <<zookeeper, watch, links, proc, mlist, waiting>>

Main(s)    == MainList(s) \/ MainLink(s) \/ Connect(s) \/ ConnectRefused(s) \/ Copied(s)
Watcher(s) == Fetch(s) \/ WatcherLink(s)
Write(t)   == Forward(t) \/ Forwarded(t) \/ StrayEnds(t)
Fault(s)   == Crash(s) \/ Leave(s) \/ LoseSession(s) \/ MainListFails(s) \/ FetchFails(s)

Next ==
    \/ \E a \in Address : Register(a)
    \/ \E s \in Node : Main(s) \/ Watcher(s) \/ Write(s) \/ Fault(s) \/ Expire(s)

Spec == Init /\ [][Next]_vars

(* The two threads of a live process run, and a request that waits for a   *)
(* mutex that is free again and again gets it.                             *)
Fairness == \A s \in Node :
    SF_vars(Main(s)) /\ WF_vars(Watcher(s)) /\ SF_vars(Forwarded(s))
FairSpec == Spec /\ Fairness
-----------------------------------------------------------------------------
TypeOK ==
    /\ last \in 0 .. MaxNodes /\ nodes \in SUBSET (1 .. last)
    /\ addr \in [Node -> Address \cup {None}]
    /\ proc \in [Node -> Stage]
    /\ watch \in [Node -> BOOLEAN] /\ event \in [Node -> BOOLEAN]
    /\ lost \in [Node -> BOOLEAN] /\ overtaken \in [Node -> BOOLEAN]
    /\ mlist \in [Node -> (SUBSET Node) \cup {NoList}]
    /\ wlist \in [Node -> (SUBSET Node) \cup {NoList}]
    /\ next \in [Node -> Address \cup {None}]
    /\ before \in [Node -> Address \cup {None}]
    /\ peer \in [Node -> Node \cup {0}]
    /\ holder \in [Node -> Node \cup {0, Astray}]
    /\ \A s \in Node :
        /\ ~(watch[s] /\ event[s])
        /\ mlist[s] # NoList <=> proc[s] = "listed"
        /\ peer[s] # 0 <=> proc[s] = "joining"
        /\ holder[s] # 0 => proc[s] = "serving"

(* The znode of an earlier run of the same server is still there.          *)
Twin(s) == \E t \in nodes : t # s /\ addr[t] = addr[s]

(* The link follows the chain: a server that has linked, has no change of  *)
(* /chain to hear of or to act on, and whose two threads did not cross,    *)
(* sends to the server whose node is next to its own, or to none.          *)
LinkFollowsChain ==
    \A s \in nodes :
        (/\ Linked(s) /\ ~event[s] /\ wlist[s] = NoList
         /\ ~lost[s] /\ ~overtaken[s] /\ ~Twin(s))
        => next[s] = Successor(s, nodes)

(* The link catches up: once a serving server has been told of a change,   *)
(* its link comes to agree with /chain, unless its process or its session  *)
(* goes.                                                                   *)
CaughtUp(s) == ~event[s] /\ wlist[s] = NoList /\ next[s] = Successor(s, nodes)

LinkCatchesUp ==
    \A s \in Node :
        event[s] /\ proc[s] = "serving" ~> CaughtUp(s) \/ ~Alive(s) \/ lost[s]

(* A joining server waits for the server it copies from, a serving one for *)
(* the server its write was forwarded to.                                  *)
WaitsFor(s) == IF proc[s] = "joining" THEN peer[s] ELSE holder[s]

(* The servers of S wait for each other, or for a descriptor that is not   *)
(* their own.                                                              *)
Stuck(S) == S # {} /\ \A t \in S : WaitsFor(t) \in S \cup {Astray}

(* A server waits, perhaps through others, for a write that will not end:  *)
(* it holds the mutex of its server and waits for one that does not accept *)
(* before it has copied the table there, or its link was taken away.       *)
BehindStuckWrite(s) == \E S \in SUBSET Node :
    /\ s \in S /\ Stuck(S)
    /\ \A T \in SUBSET S : Stuck(T) => \E t \in T : proc[t] = "serving"

(* Joins complete: in the end every server that has registered serves, or  *)
(* its process has ended, but for one thing: it may be left behind a write *)
(* that will not end.                                                      *)
JoinsComplete ==
    <>[](\A s \in Node : \/ proc[s] \in {"absent", "serving", "down"}
                         \/ BehindStuckWrite(s))

(* README: "Servers form a chain where each server communicates with its   *)
(* successor".  When every server serves and nothing is going on, it does. *)
Quiet ==
    /\ \A s \in Node : Alive(s) => proc[s] = "serving" /\ s \in nodes
    /\ \A s \in Node : ~event[s] /\ wlist[s] = NoList /\ ~lost[s]
    /\ \A s \in nodes : Alive(s)

ChainForms == Quiet => \A s \in nodes : next[s] = Successor(s, nodes)
=============================================================================
