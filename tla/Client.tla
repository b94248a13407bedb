------------------------------- MODULE Client -------------------------------
(***************************************************************************)
(* The client of projeto4 (table_client.c, client_stub.c).  It keeps two   *)
(* connections, to the head of the chain for writes and to its tail for    *)
(* reads.  main() reads commands and waits for each answer; on the thread  *)
(* of the ZooKeeper client, child_watcher() replaces both connections at   *)
(* every change of /chain, and no lock keeps the two threads apart.        *)
(*                                                                         *)
(* A link is an rtable_t: the address of a server and the number of a      *)
(* socket.  The number of a socket that was closed is given out again, the *)
(* memory of a link that was freed is not while a pointer still names it;  *)
(* what a thread may meet behind such a pointer is left open (Stray).      *)
(* ZooKeeper and the servers are external; the client keeps its session.   *)
(***************************************************************************)
EXTENDS Naturals, FiniteSets

CONSTANTS
    Operation,      \* bound: the commands the user gives
    MaxNodes,       \* bound: how many servers ever join the chain
    MaxLinks        \* bound: how many links may exist or be named at once

Commands == {"put", "del", "get", "size", "getkeys", "gettable", "stats"}

ASSUME ClientAssumption ==
    Operation \subseteq Commands /\ MaxNodes \in Nat /\ MaxLinks \in Nat

Node   == 1 .. MaxNodes
Link   == 1 .. MaxLinks
Socket == 1 .. MaxLinks

VARIABLES
    nodes,      \* the children of /chain
    last,       \* the last sequence number given out
    alive,      \* the servers that run
    watch,      \* ZooKeeper holds a watch of the client on /chain
    event,      \* a child event is on its way to the client
    live,       \* the links whose rtable_t is allocated
    to,         \* to[l]: the server at the address in l
    fd,         \* fd[l]: the number of its socket in l
    open,       \* the sockets the client has open
    peer,       \* peer[f]: the server that socket f is connected to, or 0
    head, tail, \* head_rtable and tail_rtable; 0 for NULL
    main,       \* how far main() is
    mlist,      \* the list main() is working on
    cmd,        \* the command
    using,      \* the link main() passed to the stub; 0 outside a call
    asked,      \* the server that the request of the call went to, or 0
    answer,     \* the answer is there
    wpc,        \* how far child_watcher() is
    wlist,      \* the list child_watcher() is working on
    overtaken   \* child_watcher() stored a link that main() then overwrote

chain    == <<nodes, last, alive>>
session  == <<watch, event>>
links    == <<live, to, fd>>
sockets  == <<open, peer>>
pointers == <<head, tail>>
command  == <<cmd, using, asked, answer>>
watcher  == <<wpc, wlist, overtaken>>
vars     == <<chain, session, links, sockets, pointers, main, mlist, command, watcher>>

Calling == {"called", "sent", "reading", "astray"}
Gone    == main \in {"ended", "crashed"}
Running == main \in Calling \cup {"prompt"}

(* qsort() by sequence number; the ends of the list.                       *)
First(L) == CHOOSE n \in L : \A m \in L : n <= m
Last(L)  == CHOOSE n \in L : \A m \in L : n >= m
-----------------------------------------------------------------------------
Init ==
    /\ nodes = {} /\ last = 0 /\ alive = {}
    /\ watch = FALSE /\ event = FALSE
    /\ live = {} /\ to = [l \in Link |-> 0] /\ fd = [l \in Link |-> 0]
    /\ open = {} /\ peer = [f \in Socket |-> 0]
    /\ head = 0 /\ tail = 0
    /\ main = "start" /\ mlist = {}
    /\ cmd = "none" /\ using = 0 /\ asked = 0 /\ answer = FALSE
    /\ wpc = "idle" /\ wlist = {}
    /\ overtaken = FALSE

(* ZooKeeper: /chain changes, and the watch fires once.                    *)
Change(children) ==
    /\ nodes' = children
    /\ event' = (event \/ watch)
    /\ watch' = FALSE

(* rtable_connect(): the memory and a socket, the lowest number not in use.*)
Named      == live \cup {head, tail, using}
Lowest(S)  == {i \in S : \A j \in S : i <= j}
New(l, n) ==
    \E f \in Lowest(Socket \ open) :
        /\ l \in Lowest(Link \ Named)
        /\ live' = live \cup {l}
        /\ to' = [to EXCEPT ![l] = n]
        /\ fd' = [fd EXCEPT ![l] = f]
        /\ open' = open \cup {f}
        /\ UNCHANGED peer

(* close(): nothing happens if the number is in use no more, and if it is  *)
(* in use again another socket is closed.                                  *)
Close(f) ==
    /\ open' = open \ {f}
    /\ peer' = [g \in Socket |-> IF g = f THEN 0 ELSE peer[g]]

Free(l) ==
    /\ live' = live \ {l}
    /\ to' = [k \in Link |-> IF k = l THEN 0 ELSE to[k]]
    /\ fd' = [k \in Link |-> IF k = l THEN 0 ELSE fd[k]]

(* network_connect(): a server that runs accepts.  A socket that is        *)
(* connected already, or closed, or refused, is closed.                    *)
Connects(l) == fd[l] \in open /\ peer[fd[l]] = 0 /\ to[l] \in alive
Connect(l, connected) ==
    /\ l \in live
    /\ connected = Connects(l)
    /\ IF connected THEN peer' = [peer EXCEPT ![fd[l]] = to[l]] /\ UNCHANGED open
                    ELSE Close(fd[l])

(* The same through a link that is freed: with the number of no socket or  *)
(* of another one, which may be one that the other thread is about to      *)
(* connect.                                                                *)
StrayConnect(l, connected) ==
    /\ l \notin live
    /\ \/ UNCHANGED sockets
       \/ ~connected /\ \E f \in open : Close(f)
       \/ /\ connected
          /\ \E f \in open, n \in alive :
                peer[f] = 0 /\ peer' = [peer EXCEPT ![f] = n]
          /\ UNCHANGED open

(* Fault: the memory is freed and the socket is left open.                 *)
FreeOnly(l) ==
    /\ Free(l)
    /\ UNCHANGED <<sockets, main>>

(* rtable_disconnect(): nothing to do for NULL.  A link freed before is    *)
(* read and perhaps freed again: it may be taken for invalid, or the       *)
(* process aborts.                                                         *)
Disconnect(l) ==
    /\ Free(l)
    /\ IF l \in live THEN Close(fd[l]) ELSE UNCHANGED sockets
    /\ \/ UNCHANGED main
       \/ l # 0 /\ l \notin live /\ main' = "crashed"
-----------------------------------------------------------------------------
(* main() reads the chain, leaves a watch, and connects to both ends; it   *)
(* gives up at the first refusal.  The first child of an empty list is     *)
(* whatever the memory holds.                                              *)

(* Fault: zoo_get_children() for zoo_wget_children().                      *)
MainListUnwatched ==
    /\ main = "start"
    /\ mlist' = nodes
    /\ main' = IF nodes = {} THEN "ended" ELSE "listed"
    /\ UNCHANGED <<chain, session, links, sockets, pointers, command, watcher>>

MainList ==
    /\ main = "start"
    /\ watch' = TRUE
    /\ mlist' = nodes
    /\ IF nodes = {} THEN main' \in {"ended", "crashed"} ELSE main' = "listed"
    /\ UNCHANGED <<chain, event, links, sockets, pointers, command, watcher>>

(* The link is in head_rtable before it is connected.                      *)
MainHead ==
    /\ main = "listed"
    /\ \E l \in Link : New(l, First(mlist)) /\ head' = l
    /\ main' = "heading"
    /\ UNCHANGED <<chain, session, tail, mlist, command, watcher>>

(* network_connect(head_rtable): the pointer is read again.                *)
MainConnectHead ==
    /\ main = "heading"
    /\ \E connected \in BOOLEAN :
        /\ Connect(head, connected) \/ StrayConnect(head, connected)
        /\ main' = IF connected THEN "headed" ELSE "ended"
    /\ UNCHANGED <<chain, session, links, pointers, mlist, command, watcher>>

MainTail ==
    /\ main = "headed"
    /\ \E l \in Link : New(l, Last(mlist)) /\ tail' = l
    /\ main' = "tailing"
    /\ UNCHANGED <<chain, session, head, mlist, command, watcher>>

MainConnectTail ==
    /\ main = "tailing"
    /\ \E connected \in BOOLEAN :
        /\ Connect(tail, connected) \/ StrayConnect(tail, connected)
        /\ main' = IF connected THEN "prompt" ELSE "ended"
    /\ mlist' = {}
    /\ UNCHANGED <<chain, session, links, pointers, command, watcher>>

(* The command loop.  put and del go to the head, the rest to the tail;    *)
(* the pointer is read once, as the argument of the stub.                  *)
LinkFor(op) == IF op \in {"put", "del"} THEN head ELSE tail

Command ==
    /\ main = "prompt"
    /\ \E op \in Operation : cmd' = op /\ using' = LinkFor(op)
    /\ main' = "called"
    /\ UNCHANGED <<chain, session, links, sockets, pointers, mlist, asked, answer, watcher>>

(* Every stub turns a missing response into an error, but rtable_stats()   *)
(* follows the NULL pointer.                                               *)
Unchecked == {"stats"}
Return(answered) ==
    /\ main' = IF cmd \in Unchecked /\ ~answered THEN "crashed" ELSE "prompt"
    /\ cmd' = "none" /\ using' = 0 /\ asked' = 0 /\ answer' = FALSE

(* network_send_receive(): on an error it closes the socket; the rtable_t  *)
(* keeps the number, and the next socket may get it.                       *)
Fail ==
    /\ Return(FALSE)
    /\ Close(fd[using])
    /\ UNCHANGED <<chain, session, links, pointers, mlist, watcher>>

(* The stub reads rtable->sockfd in a freed link: the number of no socket, *)
(* of another one, to read from or to close, or of standard input.         *)
Stray ==
    /\ \/ Return(FALSE) /\ UNCHANGED sockets
       \/ Return(FALSE) /\ \E f \in open : Close(f)
       \/ main' = "astray" /\ asked' = 0 /\ answer' = FALSE /\ UNCHANGED <<sockets, cmd, using>>
    /\ UNCHANGED <<chain, session, links, pointers, mlist, watcher>>

(* Then a read on a descriptor that is not its own may end at any time.    *)
StrayEnds ==
    /\ main = "astray"
    /\ \E answered \in BOOLEAN : Return(answered)
    /\ UNCHANGED <<chain, session, links, sockets, pointers, mlist, watcher>>

Usable == using \in live /\ fd[using] \in open
Broken == (using \in live /\ fd[using] \notin open /\ Fail) \/ (using \notin live /\ Stray)

(* The length and the request are written, over whatever socket has the    *)
(* number.  A dead server may or may not be noticed yet; a socket without  *)
(* a connection raises SIGPIPE, which is caught.                           *)
Send ==
    /\ main = "called"
    /\ \/ /\ Usable /\ peer[fd[using]] # 0
          /\ main' = "sent"
          /\ asked' = peer[fd[using]]
          /\ UNCHANGED <<chain, session, links, sockets, pointers, mlist, cmd, using,
                         answer, watcher>>
       \/ Usable /\ peer[fd[using]] \notin alive /\ Fail
       \/ Broken

(* read() of the length begins, and blocks.                                *)
Read ==
    /\ main = "sent"
    /\ \/ /\ Usable
          /\ main' = "reading"
          /\ UNCHANGED <<chain, session, links, sockets, pointers, mlist, command, watcher>>
       \/ Broken

(* The length has come: read_all() goes on to the rest, through the link.  *)
Answered ==
    /\ main = "reading" /\ answer
    /\ \/ /\ Usable
          /\ Return(TRUE)
          /\ UNCHANGED <<chain, session, links, sockets, pointers, mlist, watcher>>
       \/ Broken

(* Fault: an end of file is taken for an interrupted call.                 *)
EndOfFileIgnored ==
    /\ main = "reading" /\ asked \notin alive /\ ~answer
    /\ UNCHANGED vars

(* The server is gone.  read() returns -1, or 0, which leaves the length   *)
(* undefined: then nothing is read into a buffer of some size, and what it *)
(* holds may or may not pass for a message.  The socket is closed in the   *)
(* first case and in that of length 0.                                     *)
EndOfFile ==
    /\ main = "reading" /\ asked \notin alive /\ ~answer
    /\ \/ /\ Usable
          /\ \E answered \in BOOLEAN : Return(answered)
          /\ UNCHANGED <<chain, session, links, sockets, pointers, mlist, watcher>>
       \/ Usable /\ Fail
       \/ Broken

(* quit, and SIGINT, which ends the process wherever it is: its memory and *)
(* its sockets are gone.                                                   *)
Exit ==
    /\ main' = "ended"
    /\ live' = {} /\ to' = [l \in Link |-> 0] /\ fd' = [l \in Link |-> 0]
    /\ open' = {} /\ peer' = [f \in Socket |-> 0]
    /\ head' = 0 /\ tail' = 0
    /\ mlist' = {} /\ wlist' = {} /\ wpc' = "idle"
    /\ cmd' = "none" /\ using' = 0 /\ asked' = 0 /\ answer' = FALSE
    /\ watch' = FALSE /\ event' = FALSE /\ overtaken' = FALSE
    /\ UNCHANGED chain

Quit      == main = "prompt" /\ Exit
Interrupt == ~Gone /\ Exit
-----------------------------------------------------------------------------
(* child_watcher().                                                        *)

(* Fault: the watch is not set again.                                      *)
FetchOnce ==
    /\ ~Gone /\ event /\ wpc = "idle"
    /\ wlist' = nodes
    /\ event' = FALSE
    /\ wpc' = "fetched"
    /\ UNCHANGED <<chain, watch, links, sockets, pointers, main, mlist, command, overtaken>>

(* Fault: the event is not consumed.                                       *)
FetchAgain ==
    /\ ~Gone /\ event /\ wpc = "idle"
    /\ wlist' = nodes
    /\ watch' = TRUE
    /\ wpc' = "fetched"
    /\ UNCHANGED <<chain, event, links, sockets, pointers, main, mlist, command, overtaken>>

Fetch ==
    /\ ~Gone /\ event /\ wpc = "idle"
    /\ wlist' = nodes
    /\ watch' = TRUE /\ event' = FALSE
    /\ wpc' = "fetched"
    /\ UNCHANGED <<chain, links, sockets, pointers, main, mlist, command, overtaken>>

DropHead ==
    /\ ~Gone /\ wpc = "fetched"
    /\ Disconnect(head)
    /\ wpc' = "headless"
    /\ UNCHANGED <<chain, session, pointers, mlist, command, wlist, overtaken>>

DropTail ==
    /\ ~Gone /\ wpc = "headless"
    /\ Disconnect(tail)
    /\ wpc' = "dropped"
    /\ UNCHANGED <<chain, session, pointers, mlist, command, wlist, overtaken>>

(* The node to connect to.  The list may be empty: then the name comes     *)
(* from memory that was not written, and may be that of any server.        *)
Target(n) == IF wlist = {} THEN 1 .. last ELSE {n}

(* The link is in head_rtable before it is connected.                      *)
OpenHead ==
    /\ ~Gone /\ wpc = "dropped"
    /\ \/ /\ \E l \in Link, n \in Target(First(wlist)) : New(l, n) /\ head' = l
          /\ UNCHANGED main
       \/ wlist = {} /\ main' = "crashed" /\ UNCHANGED <<links, sockets, head>>
    /\ overtaken' = (main = "listed")
    /\ wpc' = "heading"
    /\ UNCHANGED <<chain, session, tail, mlist, command, wlist>>

ConnectHead ==
    /\ ~Gone /\ wpc = "heading"
    /\ \E connected \in BOOLEAN :
        /\ Connect(head, connected) \/ StrayConnect(head, connected)
        /\ wpc' = IF connected THEN "headed" ELSE "head refused"
    /\ UNCHANGED <<chain, session, links, pointers, main, mlist, command, wlist, overtaken>>

(* free(head_rtable): the pointer is read again, and main() may have       *)
(* stored another link there by now.                                       *)
FreeHead ==
    /\ ~Gone /\ wpc = "head refused"
    /\ Free(head)
    /\ wpc' = "headed"
    /\ UNCHANGED <<chain, session, sockets, pointers, main, mlist, command, wlist, overtaken>>

OpenTail ==
    /\ ~Gone /\ wpc = "headed"
    /\ \E l \in Link, n \in Target(Last(wlist)) : New(l, n) /\ tail' = l
    /\ overtaken' = (overtaken \/ main \in {"listed", "heading", "headed"})
    /\ wpc' = "tailing"
    /\ UNCHANGED <<chain, session, head, main, mlist, command, wlist>>

ConnectTail ==
    /\ ~Gone /\ wpc = "tailing"
    /\ \E connected \in BOOLEAN :
        /\ Connect(tail, connected) \/ StrayConnect(tail, connected)
        /\ IF connected THEN wpc' = "idle" /\ wlist' = {}
                        ELSE wpc' = "tail refused" /\ UNCHANGED wlist
    /\ UNCHANGED <<chain, session, links, pointers, main, mlist, command, overtaken>>

FreeTail ==
    /\ ~Gone /\ wpc = "tail refused"
    /\ Free(tail)
    /\ wpc' = "idle" /\ wlist' = {}
    /\ UNCHANGED <<chain, session, sockets, pointers, main, mlist, command, overtaken>>
-----------------------------------------------------------------------------
(* The environment: servers join at the end of the chain, die, and lose    *)
(* their znode some time later; a server that runs answers what it gets.   *)
Join ==
    /\ ~Gone /\ last < MaxNodes
    /\ last' = last + 1
    /\ alive' = alive \cup {last + 1}
    /\ Change(nodes \cup {last + 1})
    /\ UNCHANGED <<links, sockets, pointers, main, mlist, command, watcher>>

Crash(n) ==
    /\ ~Gone /\ n \in alive
    /\ alive' = alive \ {n}
    /\ UNCHANGED <<nodes, last, session, links, sockets, pointers, main, mlist, command, watcher>>

Expire(n) ==
    /\ ~Gone /\ n \in nodes \ alive
    /\ Change(nodes \ {n})
    /\ UNCHANGED <<last, alive, links, sockets, pointers, main, mlist, command, watcher>>

Answer ==
    /\ ~Gone /\ asked \in alive /\ ~answer
    /\ answer' = TRUE
    /\ UNCHANGED <<chain, session, links, sockets, pointers, main, mlist, cmd, using,
                   asked, watcher>>

Main    == \/ MainList \/ MainHead \/ MainConnectHead \/ MainTail \/ MainConnectTail
           \/ Send \/ Read \/ Answered \/ EndOfFile
Watcher == \/ Fetch \/ DropHead \/ DropTail
           \/ OpenHead \/ ConnectHead \/ FreeHead \/ OpenTail \/ ConnectTail \/ FreeTail
User    == Command \/ Quit \/ Interrupt

Next ==
    \/ Main \/ Watcher \/ User \/ StrayEnds
    \/ Join \/ \E n \in Node : Crash(n) \/ Expire(n)
    \/ Answer

Spec == Init /\ [][Next]_vars

(* Both threads run, and a server that runs answers.  Nothing is asked of  *)
(* the user, of ZooKeeper, or of a descriptor that is not the client's own.*)
FairSpec == Spec /\ WF_vars(Main) /\ WF_vars(Watcher) /\ WF_vars(Answer)
-----------------------------------------------------------------------------
(* The type of every variable; and the watch on /chain is set, has fired   *)
(* or is about to be set again.                                            *)
TypeOK ==
    /\ last \in 0 .. MaxNodes /\ nodes \subseteq 1 .. last /\ alive \subseteq 1 .. last
    /\ live \subseteq Link /\ open \subseteq Socket
    /\ to \in [Link -> Node \cup {0}] /\ fd \in [Link -> Socket \cup {0}]
    /\ peer \in [Socket -> Node \cup {0}]
    /\ head \in Link \cup {0} /\ tail \in Link \cup {0}
    /\ main \in Calling \cup {"start", "listed", "heading", "headed", "tailing", "prompt",
                             "ended", "crashed"}
    /\ mlist \subseteq Node /\ wlist \subseteq Node
    /\ wpc \in {"idle", "fetched", "headless", "dropped", "heading", "head refused",
                "headed", "tailing", "tail refused"}
    /\ cmd \in Operation \cup {"none"}
    /\ using \in Link \cup {0} /\ (main \in Calling => using # 0)
    /\ asked \in Node \cup {0} /\ answer \in BOOLEAN
    /\ watch \in BOOLEAN /\ event \in BOOLEAN /\ overtaken \in BOOLEAN
    /\ main = "start" \/ Gone \/ (watch # event)

(* A link that has not failed is connected to the right server.            *)
Right(l, n) == l \in live /\ fd[l] \in open => peer[fd[l]] = n
AtTheEnds == nodes # {} => Right(head, First(nodes)) /\ Right(tail, Last(nodes))

(* The number of a socket that failed has been given out again: both links *)
(* share one connection.                                                   *)
Mixed == head \in live /\ tail \in live /\ fd[head] = fd[tail]

(* README: "Clients connect to the head of the chain for write operations  *)
(* and to the tail of the chain for read operations."  With no change of   *)
(* /chain to hear of or to act on, a link that is not dead leads there,    *)
(* unless child_watcher() ran before main() had connected, or a command    *)
(* failed between its two connections and left its number to the second.   *)
LinksFollowChain ==
    Running /\ ~event /\ wpc = "idle" /\ ~overtaken /\ ~Mixed => AtTheEnds

(* However often the chain changes, the two threads leave little behind:   *)
(* at most two links that no pointer names, and two sockets of no link,    *)
(* all from the time when main() opened its own.                           *)
LinksBounded ==
    /\ Cardinality(live \ {head, tail}) <= 2
    /\ Cardinality(open \ {fd[l] : l \in live}) <= 2

(* A command comes to an end: the process goes, or the prompt returns, or  *)
(* its link is one that child_watcher() freed.                             *)
CommandsReturn == main = "called" ~> main \notin Calling \/ using \notin live

(* Links to the wrong servers are replaced.                                *)
LinksCatchUp == Running /\ ~AtTheEnds ~> Gone \/ AtTheEnds \/ overtaken \/ Mixed
=============================================================================
