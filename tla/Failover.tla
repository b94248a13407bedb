------------------------------ MODULE Failover ------------------------------
(***************************************************************************)
(* Writes while the chain of projeto4 changes.  Membership says which      *)
(* server a link names, Chain what a write does while nothing changes;     *)
(* here handlers forward writes over a link that the ZooKeeper thread      *)
(* takes away and makes anew, servers die, lose their sessions and join by *)
(* copying the table of the one before them.                               *)
(*                                                                         *)
(* A server is named by the number of its znode.  A table is the sequence  *)
(* of writes it has taken: they all put one key, so a table is what the    *)
(* last of them left and their order is all there is to it.                *)
(***************************************************************************)
EXTENDS Naturals, Sequences, FiniteSets, SequencesExt

CONSTANTS
    MaxServers,     \* bound: how many servers there ever are
    Formed,         \* how many of them form the chain at the start
    MaxWrites,      \* bound: how many writes the clients ask for
    MaxFaults       \* bound: how many servers crash, leave or lose their session

ASSUME FailoverAssumption ==
    /\ MaxServers \in Nat /\ Formed \in 1 .. MaxServers
    /\ MaxWrites \in Nat /\ MaxFaults \in Nat

Server == 1 .. MaxServers
Write  == 1 .. MaxWrites

VARIABLES
    nodes,      \* the children of /chain
    heads,      \* the servers that a client may take for the head
    faults,     \* how many faults there have been
    asked,      \* how many writes the clients have asked for
    proc,       \* proc[s]: how far main() of s is
    lost,       \* lost[s]: the session of s is gone
    leaving,    \* leaving[s]: SIGINT is ending s
    event,      \* event[s]: a child event is on its way to s
    before,     \* before[s]: the server that s copies from, or 0
    log,        \* log[s]: the table of s; a copy that is not yet in use
    send,       \* send[s]: send_to_next is not NULL
    link,       \* link[s]: what next_rtable points to
    aim,        \* aim[s]: the server update_next() is about to connect to
    mutex,      \* mutex[s]: the write that holds write_mutex, or 0
    dup,        \* dup[s]: the holder of the mutex has a duplicate to forward
    via,        \* via[s]: the server the holder of the mutex waits for
    relinked,   \* relinked[s]: its link was taken away meanwhile
    pc,         \* pc[s][w]: where the handler of w is in s
    from,       \* from[s][w]: who asked for w, a server or 0 (a client)
    acked,      \* history: the writes that clients were told are done
    unsent,     \* history: the writes that a server did not get downstream
    blank       \* history: the servers that joined without a table

chain    == <<nodes, heads, lost, event>>
process  == <<proc, before, log, leaving>>
nextlink == <<send, link, aim>>
handler  == <<mutex, dup, via, relinked, pc, from>>
history  == <<acked, unsent, blank>>
vars     == <<chain, faults, asked, process, nextlink, handler, history>>

(* next_rtable: NULL, or a block with a connection to a server, or with a  *)
(* descriptor that is closed, or no block any more.                        *)
NoLink    == [state |-> "none", to |-> 0]
Open(t)   == [state |-> "open", to |-> t]
Closed    == [state |-> "closed", to |-> 0]
Freed     == [state |-> "freed", to |-> 0]

Alive(s) == proc[s] \notin {"absent", "dead"}
Dead(s)  == s # 0 /\ proc[s] = "dead"
Serving  == {s \in Server : proc[s] = "serving"}

Lowest(L)  == CHOOSE i \in L : \A j \in L : i <= j
Highest(L) == CHOOSE i \in L : \A j \in L : i >= j
Successor(s) == IF \E t \in nodes : t > s THEN Lowest({t \in nodes : t > s}) ELSE 0
-----------------------------------------------------------------------------
(* A chain that has formed and has not been written to.                    *)
Init ==
    /\ nodes = 1 .. Formed /\ heads = {1} /\ faults = 0 /\ asked = 0
    /\ proc = [s \in Server |-> IF s <= Formed THEN "serving" ELSE "absent"]
    /\ lost = [s \in Server |-> FALSE] /\ leaving = [s \in Server |-> FALSE]
    /\ event = [s \in Server |-> FALSE]
    /\ before = [s \in Server |-> 0] /\ log = [s \in Server |-> <<>>]
    /\ send = [s \in Server |-> s < Formed]
    /\ link = [s \in Server |-> IF s < Formed THEN Open(s + 1) ELSE NoLink]
    /\ aim = [s \in Server |-> 0]
    /\ mutex = [s \in Server |-> 0] /\ dup = [s \in Server |-> FALSE]
    /\ via = [s \in Server |-> 0] /\ relinked = [s \in Server |-> FALSE]
    /\ pc = [s \in Server |-> [w \in Write |-> "none"]]
    /\ from = [s \in Server |-> [w \in Write |-> 0]]
    /\ acked = {} /\ unsent = {} /\ blank = {}

(* ZooKeeper: /chain changes and the servers that watch it hear of it.     *)
Watching(t) == Alive(t) /\ t \in nodes /\ proc[t] # "registered"
Change(children) ==
    /\ nodes' = children
    /\ heads' = IF children = {} THEN heads ELSE heads \cup {Lowest(children)}
    /\ event' = [t \in Server |-> event[t] \/ Watching(t)]

(* The process is gone, the requests it has not read included.             *)
Dies(s) ==
    /\ proc' = [proc EXCEPT ![s] = "dead"] /\ leaving' = [leaving EXCEPT ![s] = FALSE]
    /\ log' = [log EXCEPT ![s] = <<>>] /\ before' = [before EXCEPT ![s] = 0]
    /\ send' = [send EXCEPT ![s] = FALSE] /\ link' = [link EXCEPT ![s] = NoLink]
    /\ aim' = [aim EXCEPT ![s] = 0]
    /\ mutex' = [mutex EXCEPT ![s] = 0] /\ dup' = [dup EXCEPT ![s] = FALSE]
    /\ via' = [via EXCEPT ![s] = 0] /\ relinked' = [relinked EXCEPT ![s] = FALSE]
    /\ pc' = [pc EXCEPT ![s] = [w \in Write |-> "none"]]
    /\ from' = [from EXCEPT ![s] = [w \in Write |-> 0]]
    /\ event' = [event EXCEPT ![s] = FALSE]

Crash(s) ==
    /\ Alive(s) /\ faults < MaxFaults
    /\ faults' = faults + 1
    /\ Dies(s)
    /\ UNCHANGED <<nodes, heads, lost, asked, history>>

Expire(s) ==
    /\ Dead(s) /\ s \in nodes
    /\ Change(nodes \ {s})
    /\ UNCHANGED <<lost, faults, asked, process, nextlink, handler, history>>

(* SIGINT: sigpipe_handler() takes the link away, closes the session and   *)
(* exits; the other threads go on meanwhile.                               *)
StartLeave(s) ==
    /\ proc[s] = "serving" /\ ~leaving[s] /\ faults < MaxFaults
    /\ faults' = faults + 1
    /\ leaving' = [leaving EXCEPT ![s] = TRUE]
    /\ send' = [send EXCEPT ![s] = FALSE]
    /\ link' = [link EXCEPT ![s] = IF send[s] /\ @ # NoLink THEN Freed ELSE @]
    /\ relinked' = [relinked EXCEPT ![s] = @ \/ (send[s] /\ via[s] # 0)]
    /\ UNCHANGED <<chain, asked, proc, before, log, aim, mutex, dup, via, pc, from, history>>

SessionEnds(s) ==
    /\ s \in nodes
    /\ lost' = [lost EXCEPT ![s] = TRUE]
    /\ nodes' = nodes \ {s}
    /\ heads' = IF nodes = {s} THEN heads ELSE heads \cup {Lowest(nodes \ {s})}
    /\ event' = [t \in Server |-> t # s /\ (event[t] \/ Watching(t))]
    /\ UNCHANGED <<asked, process, nextlink, handler, history>>

EndLeave(s) ==
    /\ leaving[s]
    /\ \/ SessionEnds(s) /\ UNCHANGED faults
       \/ s \notin nodes /\ Dies(s) /\ UNCHANGED <<nodes, heads, lost, faults, asked, history>>

(* A slow server: it is out of /chain, hears no more of it, and goes on.   *)
LoseSession(s) ==
    /\ proc[s] = "serving" /\ faults < MaxFaults
    /\ faults' = faults + 1
    /\ SessionEnds(s)
-----------------------------------------------------------------------------
(* child_watcher() and update_next().  Every change of /chain drops the    *)
(* link, the one to a successor that stays as well.  A pointer to a block  *)
(* that was freed before is freed again, which may end the process.        *)
DropLink(s) ==
    /\ event[s] /\ aim[s] = 0
    /\ \/ /\ event' = [event EXCEPT ![s] = FALSE]
          /\ aim' = [aim EXCEPT ![s] = Successor(s)]
          /\ send' = [send EXCEPT ![s] = Successor(s) # 0]
          /\ link' = [link EXCEPT ![s] =
                        IF @ = NoLink \/ (Successor(s) = 0 /\ ~send[s]) THEN @ ELSE Freed]
          /\ relinked' = [relinked EXCEPT ![s] = via[s] # 0]
          /\ UNCHANGED <<process, mutex, dup, via, pc, from>>
       \/ link[s] = Freed /\ (Successor(s) # 0 \/ send[s]) /\ Dies(s)
    /\ UNCHANGED <<nodes, heads, lost, faults, asked, history>>

(* network_connect(): a connection that is refused frees the block.        *)
ConnectNext(s) ==
    /\ aim[s] # 0
    /\ link' = [link EXCEPT ![s] = IF Alive(aim[s]) THEN Open(aim[s]) ELSE Freed]
    /\ aim' = [aim EXCEPT ![s] = 0]
    /\ UNCHANGED <<chain, faults, asked, process, send, handler, history>>
-----------------------------------------------------------------------------
(* main() of a server that joins: it listens and creates its znode; the    *)
(* servers before it hear of it, and may forward to it from now on.  Two   *)
(* servers that do this at the same time are left to Membership.           *)
Register(s) ==
    /\ proc[s] = "absent" /\ proc[s - 1] \notin {"absent", "registered"}
    /\ Change(nodes \cup {s})
    /\ proc' = [proc EXCEPT ![s] = "registered"]
    /\ UNCHANGED <<lost, faults, asked, before, log, leaving, nextlink, handler, history>>

(* It reads the list, with a watch: the server before it, if there is one. *)
ListChain(s) ==
    /\ proc[s] = "registered"
    /\ LET above == {t \in nodes : t < s}
       IN  IF above = {}
           THEN /\ proc' = [proc EXCEPT ![s] = "serving"]
                /\ blank' = blank \cup {s}
                /\ UNCHANGED before
           ELSE /\ proc' = [proc EXCEPT ![s] = "listed"]
                /\ before' = [before EXCEPT ![s] = Highest(above)]
                /\ UNCHANGED blank
    /\ UNCHANGED <<chain, faults, asked, log, leaving, nextlink, handler, acked, unsent>>

(* network_connect(): main() ends if that server is gone.                  *)
ConnectBefore(s) ==
    /\ proc[s] = "listed"
    /\ \/ /\ ~Dead(before[s])
          /\ proc' = [proc EXCEPT ![s] = "joining"]
          /\ UNCHANGED <<event, before, log, leaving, nextlink, handler>>
       \/ Dead(before[s]) /\ Dies(s)
    /\ UNCHANGED <<nodes, heads, lost, faults, asked, history>>

(* The server before it answers like any other client's request: a reader  *)
(* takes write_mutex on its way in and on its way out, and not in between. *)
CopyAsk(s) ==
    /\ proc[s] = "joining" /\ proc[before[s]] = "serving" /\ mutex[before[s]] = 0
    /\ proc' = [proc EXCEPT ![s] = "reading"]
    /\ UNCHANGED <<chain, faults, asked, before, log, leaving, nextlink, handler, history>>

CopyTake(s) ==
    /\ proc[s] = "reading" /\ ~Dead(before[s])
    /\ log' = [log EXCEPT ![s] = log[before[s]]]
    /\ blank' = IF before[s] \in blank THEN blank \cup {s} ELSE blank
    /\ proc' = [proc EXCEPT ![s] = "copied"]
    /\ UNCHANGED <<chain, faults, asked, before, leaving, nextlink, handler, acked, unsent>>

CopyServe(s) ==
    /\ proc[s] = "copied" /\ ~Dead(before[s]) /\ mutex[before[s]] = 0
    /\ proc' = [proc EXCEPT ![s] = "serving"] /\ before' = [before EXCEPT ![s] = 0]
    /\ UNCHANGED <<chain, faults, asked, log, leaving, nextlink, handler, history>>

(* The server before it is gone.  main() serves all the same, with an      *)
(* empty table, unless the second request meets SIGPIPE.                   *)
CopyFails(s) ==
    /\ proc[s] \in {"joining", "reading", "copied"} /\ Dead(before[s])
    /\ \/ /\ proc' = [proc EXCEPT ![s] = "serving"] /\ before' = [before EXCEPT ![s] = 0]
          /\ log' = [log EXCEPT ![s] = <<>>]
          /\ blank' = blank \cup {s}
          /\ UNCHANGED <<event, leaving, nextlink, handler, acked, unsent>>
       \/ proc[s] = "joining" /\ Dies(s) /\ UNCHANGED history
    /\ UNCHANGED <<nodes, heads, lost, faults, asked>>
-----------------------------------------------------------------------------
(* A client asks what it takes for the head; a server that is still        *)
(* joining leaves the request in its backlog.                              *)
Ask(s) ==
    /\ asked < MaxWrites /\ s \in heads /\ Alive(s)
    /\ asked' = asked + 1
    /\ pc' = [pc EXCEPT ![s][asked'] = "received"]
    /\ UNCHANGED <<chain, faults, process, nextlink, mutex, dup, via, relinked,
                   from, history>>

At(s, w, stage) == proc[s] = "serving" /\ pc[s][w] = stage

(* Fault: the handler does not wait for the mutex.                         *)
ApplyUnlocked(s, w) ==
    /\ At(s, w, "received")
    /\ mutex' = [mutex EXCEPT ![s] = w]
    /\ dup' = [dup EXCEPT ![s] = send[s]]
    /\ log' = [log EXCEPT ![s] = Append(@, w)]
    /\ pc' = [pc EXCEPT ![s][w] = "applied"]
    /\ UNCHANGED <<chain, faults, asked, proc, before, leaving, nextlink, via, relinked,
                   from, history>>

(* invoke(): take the mutex, duplicate the message if there is a           *)
(* successor, change the table.                                            *)
Apply(s, w) ==
    /\ At(s, w, "received") /\ mutex[s] = 0
    /\ mutex' = [mutex EXCEPT ![s] = w]
    /\ dup' = [dup EXCEPT ![s] = send[s]]
    /\ log' = [log EXCEPT ![s] = Append(@, w)]
    /\ pc' = [pc EXCEPT ![s][w] = "applied"]
    /\ UNCHANGED <<chain, faults, asked, proc, before, leaving, nextlink, via, relinked,
                   from, history>>

Moves(s, w, stage) == pc' = [pc EXCEPT ![s][w] = stage] /\ UNCHANGED <<process, from>>
Unlocks(s) ==
    /\ mutex' = [mutex EXCEPT ![s] = 0] /\ dup' = [dup EXCEPT ![s] = FALSE]
    /\ via' = [via EXCEPT ![s] = 0] /\ relinked' = [relinked EXCEPT ![s] = FALSE]
Finishes(s, w) == Moves(s, w, "released") /\ Unlocks(s)
Waits(s, w, stage, t) ==
    /\ Moves(s, w, stage)
    /\ via' = [via EXCEPT ![s] = t]
    /\ UNCHANGED <<mutex, dup, relinked>>
Links(s, states) == \E l \in states : link' = [link EXCEPT ![s] = l]
Steady == UNCHANGED <<nodes, heads, lost, event, send, aim>>

(* The servers of the chain, and those a server that joins will copy from. *)
Copying(s) == proc[s] \in {"listed", "joining", "reading"}
Kept == nodes \cup {before[r] : r \in {q \in nodes : Copying(q)}}

(* invoke() looks at send_to_next again: no successor.  Some server down   *)
(* the chain may have its table already, and not this write.               *)
Behind(s, w) == {t \in Kept : t > s /\ proc[t] \in {"copied", "serving"} /\ ~Contains(log[t], w)}

Skip(s, w) ==
    /\ At(s, w, "applied") /\ ~send[s]
    /\ Finishes(s, w) /\ Steady
    /\ unsent' = IF Behind(s, w) = {} THEN unsent ELSE unsent \cup {w}
    /\ UNCHANGED <<faults, asked, link, acked, blank>>

(* send_next(): the request reaches the successor.                         *)
Forward(s, w) ==
    /\ At(s, w, "applied") /\ send[s] /\ dup[s]
    /\ link[s].state = "open" /\ Alive(link[s].to)
    /\ LET t == link[s].to
       IN  /\ pc' = [pc EXCEPT ![s][w] = "awaiting", ![t][w] = "received"]
           /\ from' = [from EXCEPT ![t][w] = s]
           /\ via' = [via EXCEPT ![s] = t]
    /\ UNCHANGED <<chain, faults, asked, process, nextlink, mutex, dup, relinked, history>>

(* send_next() fails, and invoke() does not look at what it returns.       *)
Fails(s, w, states) ==
    /\ Finishes(s, w) /\ Steady /\ Links(s, states)
    /\ unsent' = unsent \cup {w}
    /\ UNCHANGED <<faults, asked, acked, blank>>

(* The process ends, on a signal or on a pointer that leads nowhere.       *)
Killed(s) == Dies(s) /\ UNCHANGED <<nodes, heads, lost, faults, asked, history>>

(* The bytes go to some other connection, and read() waits there.          *)
Strays(s, w) ==
    /\ Waits(s, w, "astray", 0) /\ Steady
    /\ unsent' = unsent \cup {w}
    /\ UNCHANGED <<faults, asked, link, acked, blank>>

(* To a server that is dead: the first write may fail, the second may meet *)
(* SIGPIPE, or both may pass and read() finds out.                         *)
ForwardToDead(s, w) ==
    /\ At(s, w, "applied") /\ send[s] /\ dup[s]
    /\ link[s].state = "open" /\ Dead(link[s].to)
    /\ \/ Fails(s, w, {Closed})
       \/ Killed(s)
       \/ /\ Waits(s, w, "awaiting", link[s].to)
          /\ UNCHANGED <<chain, faults, asked, nextlink, history>>

(* Over no link, a closed descriptor or a freed block; over a socket that  *)
(* update_next() is about to connect, where a write raises SIGPIPE; or     *)
(* without the duplicate, not made because there was no successor then.    *)
ForwardAmiss(s, w) ==
    /\ At(s, w, "applied") /\ send[s]
    /\ link[s].state # "open" \/ ~dup[s]
    /\ \/ Fails(s, w, {link[s]})
       \/ link[s].state = "open" /\ Fails(s, w, {Closed})
       \/ link[s].state \in {"freed", "closed"} /\ Strays(s, w)
       \/ (link[s].state = "freed" \/ ~dup[s] \/ aim[s] # 0) /\ Killed(s)

(* Fault: send_next() does not wait for the answer.                        *)
AnswerNotAwaited(s, w) ==
    /\ At(s, w, "awaiting") /\ ~relinked[s]
    /\ Finishes(s, w) /\ Steady
    /\ UNCHANGED <<faults, asked, link, history>>

(* network_send_receive(): the answer of the successor.                    *)
Answered(s, w) ==
    /\ At(s, w, "awaiting") /\ ~relinked[s]
    /\ Alive(via[s]) /\ pc[via[s]][w] = "replied"
    /\ Finishes(s, w) /\ Steady
    /\ UNCHANGED <<faults, asked, link, history>>

(* Fault: the read is tried again at the end of the file.                  *)
EndOfFileRetried(s, w) ==
    /\ At(s, w, "awaiting") /\ ~relinked[s]
    /\ Dead(via[s]) /\ pc[via[s]][w] = "replied"
    /\ Fails(s, w, {link[s], Closed})

(* The successor died: an error, or an end of file, which is none.         *)
EndOfFile(s, w) ==
    /\ At(s, w, "awaiting") /\ ~relinked[s]
    /\ Dead(via[s])
    /\ Fails(s, w, {link[s], Closed})

(* update_next() took the link away under read(): that one read goes on,   *)
(* and the next ones use whatever descriptor next_rtable now holds.        *)
Crossed(s, w) ==
    /\ At(s, w, "awaiting") /\ relinked[s]
    /\ \/ Dead(via[s]) /\ unsent' = unsent \cup {w}
       \/ Alive(via[s]) /\ pc[via[s]][w] = "replied" /\ UNCHANGED unsent
    /\ \/ Finishes(s, w) /\ Links(s, {link[s]} \cup IF link[s].state = "open" THEN {Closed} ELSE {})
       \/ Waits(s, w, "astray", 0) /\ UNCHANGED link
    /\ Steady
    /\ UNCHANGED <<faults, asked, acked, blank>>

StrayEnds(s, w) ==
    /\ At(s, w, "astray")
    /\ Finishes(s, w) /\ Steady
    /\ Links(s, {link[s]} \cup IF link[s].state = "open" THEN {Closed} ELSE {})
    /\ UNCHANGED <<faults, asked, history>>

(* The answer goes back.  To a server that is dead or has dropped the      *)
(* connection it may meet SIGPIPE.                                         *)
Reply(s, w) ==
    /\ At(s, w, "released")
    /\ \/ /\ Moves(s, w, "replied")
          /\ acked' = IF from[s][w] = 0 THEN acked \cup {w} ELSE acked
          /\ UNCHANGED <<chain, faults, asked, nextlink, mutex, dup, via, relinked,
                         unsent, blank>>
       \/ from[s][w] # 0 /\ (Dead(from[s][w]) \/ relinked[from[s][w]]) /\ Killed(s)

Handle(s, w) ==
    \/ Apply(s, w) \/ Skip(s, w) \/ Forward(s, w) \/ ForwardToDead(s, w)
    \/ ForwardAmiss(s, w) \/ Answered(s, w) \/ EndOfFile(s, w) \/ Crossed(s, w)
    \/ Reply(s, w)
Main(s)    == ListChain(s) \/ ConnectBefore(s) \/ CopyAsk(s) \/ CopyTake(s) \/ CopyServe(s) \/ CopyFails(s)
Watcher(s) == DropLink(s) \/ ConnectNext(s)
Fault(s)   == Crash(s) \/ StartLeave(s) \/ LoseSession(s)

Progress(s) ==
    \/ Main(s) \/ Watcher(s) \/ Expire(s) \/ EndLeave(s)
    \/ \E w \in Write : Handle(s, w)
Environment(s) ==
    \/ Register(s) \/ Fault(s) \/ Ask(s)
    \/ \E w \in Write : StrayEnds(s, w)

Next == \E s \in Server : Progress(s) \/ Environment(s)

Spec == Init /\ [][Next]_vars

(* Some thread that can run runs, and ZooKeeper expires the sessions of    *)
(* dead servers.  Each of them has finitely much to do for each request    *)
(* and each change of /chain, so none is kept waiting for ever.            *)
Fairness == WF_vars(\E s \in Server : Progress(s))
FairSpec == Spec /\ Fairness
-----------------------------------------------------------------------------
(* The type of every variable.  write_mutex is held exactly while a        *)
(* handler is inside the section that it guards, in a process that lives.  *)
Section == {"applied", "awaiting", "astray"}
TypeOK ==
    /\ nodes \subseteq Server /\ heads \subseteq Server
    /\ faults \in 0 .. MaxFaults /\ asked \in 0 .. MaxWrites
    /\ lost \in [Server -> BOOLEAN] /\ event \in [Server -> BOOLEAN]
    /\ leaving \in [Server -> BOOLEAN]
    /\ proc \in [Server -> {"absent", "registered", "listed", "joining", "reading", "copied",
                         "serving", "dead"}]
    /\ before \in [Server -> Server \cup {0}]
    /\ log \in [Server -> Seq(Write)]
    /\ send \in [Server -> BOOLEAN] /\ dup \in [Server -> BOOLEAN]
    /\ relinked \in [Server -> BOOLEAN]
    /\ link \in [Server -> {NoLink, Closed, Freed} \cup {Open(t) : t \in Server}]
    /\ aim \in [Server -> Server \cup {0}]
    /\ via \in [Server -> Server \cup {0}]
    /\ from \in [Server -> [Write -> Server \cup {0}]]
    /\ acked \subseteq Write /\ unsent \subseteq Write /\ blank \subseteq Server
    /\ \A s \in Server, w \in Write :
        /\ pc[s][w] \in {"none", "received", "released", "replied"} \cup Section
        /\ mutex[s] = w <=> pc[s][w] \in Section
        /\ pc[s][w] # "none" => Alive(s)

(* A write that a client was told is done is in every table of the chain,  *)
(* unless a server failed to pass it on, or the table began empty.         *)
InChain == Serving \cap nodes

AckedWritesKept ==
    \A w \in acked \ unsent : \A s \in InChain \ blank : Contains(log[s], w)

(* Two servers of the chain have taken the writes that were passed on in   *)
(* one order, each of them once, and the one behind no write that the one  *)
(* before has not.                                                         *)
Earlier(l, v, w) == \E i, j \in 1 .. Len(l) : i < j /\ l[i] = v /\ l[j] = w
Agree(l, m) ==
    \A w \in Write \ unsent : Contains(m, w) =>
        /\ Contains(l, w)
        /\ \A v \in Write \ unsent : Earlier(l, v, w) <=> Earlier(m, v, w)

TablesAgree ==
    \A s, t \in InChain \ blank :
        /\ \A w \in Write \ unsent : ~Earlier(log[s], w, w)
        /\ s < t => Agree(log[s], log[t])

(* Writes end: between bursts of them there is none that a live server has *)
(* not answered, unless a handler waits on a connection that is not its    *)
(* own, or holds the mutex that the server its write waits at needs to get *)
(* its table.                                                              *)
Stray(s)    == mutex[s] # 0 /\ pc[s][mutex[s]] = "astray"
JoinLock(s) == before[s] # 0 /\ mutex[before[s]] # 0 /\ pc[s][mutex[before[s]]] = "received"
Held        == \E s \in Server : Stray(s) \/ JoinLock(s)

Idle == \A s \in Server, w \in Write : pc[s][w] \in {"none", "replied"}

WritesEnd == []<>(Idle \/ Held)

(* README: the chain is to "ensure data consistency and fault tolerance".  *)
(* When nothing goes on, every server of the chain has the same table.     *)
Quiet ==
    /\ \A s \in Server : Alive(s) => proc[s] = "serving" /\ s \in nodes
    /\ \A s \in Server : ~event[s] /\ aim[s] = 0 /\ (s \in nodes => Alive(s))
    /\ Idle

CopiesAgree == Quiet => \A s, t \in nodes : log[s] = log[t]
=============================================================================
