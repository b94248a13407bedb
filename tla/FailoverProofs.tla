--------------------------- MODULE FailoverProofs ---------------------------
(***************************************************************************)
(* Proofs about Failover, for every number of servers, writes and faults:  *)
(* the types, and that write_mutex has one owner at each server, however   *)
(* the links change; that acknowledged writes are kept, and that the       *)
(* tables agree, while servers die, leave and join.                        *)
(*                                                                         *)
(* The argument is the invariant ChainInv.  Structure says which servers a *)
(* link may lead to and which table a server may copy; Travel, where a     *)
(* write is and who waits for it; Repeats, that no write comes to a table  *)
(* that has it; Tables is what the theorems say, with what is in hand.     *)
(* Four kinds of step keep it: those that only take away (Wanes), a server *)
(* that joins (Register, ListChain, CopyTake), a write that advances (Ask, *)
(* Apply, Forward), and a handler that goes on with a write that its table *)
(* has (Moved).                                                            *)
(***************************************************************************)
EXTENDS Failover, Integers, FiniteSetTheorems, TLAPS

States == {NoLink, Closed, Freed} \cup {Open(t) : t \in Server}
Stage  == {"none", "received", "released", "replied"} \cup Section

(* The types of the variables, pc and mutex included.                      *)
ChainData ==
    /\ nodes \subseteq Server /\ heads \subseteq Server
    /\ faults \in 0 .. MaxFaults /\ asked \in 0 .. MaxWrites
    /\ lost \in [Server -> BOOLEAN] /\ event \in [Server -> BOOLEAN]
    /\ leaving \in [Server -> BOOLEAN]
    /\ acked \subseteq Write /\ unsent \subseteq Write /\ blank \subseteq Server

ServerData ==
    /\ proc \in [Server -> {"absent", "registered", "listed", "joining", "reading", "copied",
                         "serving", "dead"}]
    /\ before \in [Server -> Server \cup {0}]
    /\ log \in [Server -> Seq(Write)]
    /\ send \in [Server -> BOOLEAN] /\ dup \in [Server -> BOOLEAN]
    /\ relinked \in [Server -> BOOLEAN]
    /\ link \in [Server -> States]
    /\ aim \in [Server -> Server \cup {0}]
    /\ via \in [Server -> Server \cup {0}]
    /\ from \in [Server -> [Write -> Server \cup {0}]]
    /\ mutex \in [Server -> Write \cup {0}]
    /\ pc \in [Server -> [Write -> Stage]]

(* A server that copies copies from one.                                   *)
Sources == \A s \in Server : proc[s] \in {"listed", "joining", "reading", "copied"} => before[s] # 0

(* Links lead down the chain.                                              *)
Descends == \A s \in Server :
    /\ link[s].state = "open" => link[s].to > s
    /\ aim[s] # 0 => aim[s] > s

(* One owner of each mutex; handlers only in processes that live.          *)
Owned  == \A s \in Server, w \in Write : mutex[s] = w <=> pc[s][w] \in Section
Living == \A s \in Server, w \in Write : pc[s][w] # "none" => Alive(s)

(* A write that a server may still forward has not been further down.      *)
Frontier ==
    \A s, t \in Server, w \in Write :
        pc[s][w] \in {"received", "applied"} /\ t > s => pc[t][w] = "none"

Unasked == \A s \in Server, w \in Write : w > asked => pc[s][w] = "none"

Handlers == Owned /\ Living /\ Frontier /\ Unasked
TypeInv  == ChainData /\ ServerData /\ Sources /\ Descends /\ Handlers

LEMMA InvImpliesType == TypeInv => TypeOK
BY DEF TypeInv, ChainData, ServerData, Handlers, Owned, Living, TypeOK, States, Stage

LEMMA Numbers ==
    /\ \A s \in Server : s \in Nat /\ s # 0
    /\ \A w \in Write : w \in Nat /\ w # 0
    /\ 0 \notin Server /\ 0 \notin Write
BY FailoverAssumption DEF Server, Write

LEMMA LinkStates ==
    /\ NoLink \in States /\ Closed \in States /\ Freed \in States
    /\ NoLink.state # "open" /\ Closed.state # "open" /\ Freed.state # "open"
    /\ \A t \in Server : Open(t) \in States /\ Open(t).state = "open" /\ Open(t).to = t
    /\ \A l \in States : l.state = "open" => l.to \in Server
<1>1. /\ NoLink \in States /\ Closed \in States /\ Freed \in States
      /\ \A t \in Server : Open(t) \in States
  BY DEF States
<1>2. NoLink.state # "open" /\ Closed.state # "open" /\ Freed.state # "open"
  BY DEF NoLink, Closed, Freed
<1>3. \A t \in Server : Open(t).state = "open" /\ Open(t).to = t
  BY DEF Open
<1>4. ASSUME NEW l \in States, l.state = "open" PROVE l.to \in Server
  <2>1. l \notin {NoLink, Closed, Freed}
    BY <1>2, <1>4
  <2>2. PICK t \in Server : l = Open(t)
    BY <2>1 DEF States
  <2>3. QED
    BY <1>3, <2>2
<1>5. QED
  BY <1>1, <1>2, <1>3, <1>4
-----------------------------------------------------------------------------
(* Sets of servers have a lowest and a highest element: strict inclusion   *)
(* of the parts below, or above, an element is well founded.               *)
Below(i, L) == {j \in L : j < i}
Above(i, L) == {j \in L : j > i}

LEMMA WellFounded ==
    ASSUME NEW L \in SUBSET Server, L # {}
    PROVE  /\ \E i \in L : \A j \in L : ~ <<Below(j, L), Below(i, L)>> \in StrictSubsetOrdering(Server)
           /\ \E i \in L : \A j \in L : ~ <<Above(j, L), Above(i, L)>> \in StrictSubsetOrdering(Server)
<1>1. IsFiniteSet(Server)
  BY FailoverAssumption, FS_Interval DEF Server
<1>2. IsWellFoundedOn(StrictSubsetOrdering(Server), SUBSET Server)
  BY <1>1, FS_FiniteSubsetsOfFinite, FS_StrictSubsetOrderingWellFounded
<1>3. {Below(i, L) : i \in L} \subseteq SUBSET Server /\ {Below(i, L) : i \in L} # {}
  BY DEF Below
<1>4. {Above(i, L) : i \in L} \subseteq SUBSET Server /\ {Above(i, L) : i \in L} # {}
  BY DEF Above
<1>5. PICK P \in {Below(i, L) : i \in L} :
         \A Q \in {Below(i, L) : i \in L} : ~(<<Q, P>> \in StrictSubsetOrdering(Server))
  BY <1>2, <1>3, WFMin
<1>6. PICK P2 \in {Above(i, L) : i \in L} :
         \A Q \in {Above(i, L) : i \in L} : ~(<<Q, P2>> \in StrictSubsetOrdering(Server))
  BY <1>2, <1>4, WFMin
<1>7. QED
  BY <1>5, <1>6

LEMMA Extremes ==
    ASSUME NEW L \in SUBSET Server, L # {}
    PROVE  /\ Lowest(L) \in L /\ \A j \in L : Lowest(L) <= j
           /\ Highest(L) \in L /\ \A j \in L : Highest(L) >= j
<1>1. \A i, j \in L : i \in Int /\ j \in Int
  BY Numbers
<1>2. PICK i \in L : \A j \in L : ~ <<Below(j, L), Below(i, L)>> \in StrictSubsetOrdering(Server)
  BY WellFounded
<1>3. ASSUME NEW j \in L, j < i PROVE FALSE
  <2>1. Below(j, L) \subseteq Below(i, L) /\ Below(i, L) \in SUBSET Server
    BY <1>1, <1>3 DEF Below
  <2>2. j \in Below(i, L) /\ j \notin Below(j, L)
    BY <1>1, <1>3 DEF Below
  <2>3. QED
    BY <1>2, <2>1, <2>2 DEF StrictSubsetOrdering
<1>4. PICK k \in L : \A j \in L : ~ <<Above(j, L), Above(k, L)>> \in StrictSubsetOrdering(Server)
  BY WellFounded
<1>5. ASSUME NEW j \in L, j > k PROVE FALSE
  <2>1. Above(j, L) \subseteq Above(k, L) /\ Above(k, L) \in SUBSET Server
    BY <1>1, <1>5 DEF Above
  <2>2. j \in Above(k, L) /\ j \notin Above(j, L)
    BY <1>1, <1>5 DEF Above
  <2>3. QED
    BY <1>4, <2>1, <2>2 DEF StrictSubsetOrdering
<1>6. (\A j \in L : i <= j) /\ (\A j \in L : k >= j)
  BY <1>1, <1>3, <1>5
<1>7. QED
  BY <1>6 DEF Lowest, Highest

LEMMA SuccessorType ==
    ASSUME nodes \subseteq Server, NEW s \in Server
    PROVE  /\ Successor(s) \in Server \cup {0}
           /\ Successor(s) # 0 => Successor(s) > s /\ Successor(s) \in nodes
           /\ \A n \in nodes : n > s => Successor(s) <= n
<1> DEFINE L == {t \in nodes : t > s}
<1>1. CASE \E t \in nodes : t > s
  <2>1. L \in SUBSET Server /\ L # {} /\ Successor(s) = Lowest(L)
    BY <1>1 DEF Successor
  <2>2. Lowest(L) \in L /\ \A j \in L : Lowest(L) <= j
    BY <2>1, Extremes
  <2>3. QED
    BY <2>1, <2>2
<1>2. CASE ~ \E t \in nodes : t > s
  BY <1>2 DEF Successor
<1>3. QED
  BY <1>1, <1>2

LEMMA ChangeType ==
    ASSUME ChainData, NEW L \in SUBSET Server, Change(L)
    PROVE  nodes' \subseteq Server /\ heads' \subseteq Server /\ event' \in [Server -> BOOLEAN]
<1>1. L # {} => Lowest(L) \in Server
  BY Extremes
<1>2. QED
  BY <1>1 DEF Change, ChainData
-----------------------------------------------------------------------------
(* The handlers.  One of them moves from one stage to another.             *)
LEMMA Move ==
    ASSUME pc \in [Server -> [Write -> Stage]], NEW s \in Server, NEW w \in Write, NEW b \in Stage,
           pc' = [pc EXCEPT ![s][w] = b]
    PROVE  /\ pc' \in [Server -> [Write -> Stage]]
           /\ pc'[s][w] = b
           /\ \A r \in Server, v \in Write : r # s \/ v # w => pc'[r][v] = pc[r][v]
OBVIOUS

(* Whatever it does to the mutex, it does for this write.                  *)
LEMMA MoveKeeps ==
    ASSUME Handlers, ServerData, NEW s \in Server, NEW w \in Write, NEW b \in Stage,
           pc' = [pc EXCEPT ![s][w] = b], pc[s][w] # "none", b # "none",
           b \in {"received", "applied"} => pc[s][w] \in {"received", "applied"},
           UNCHANGED <<proc, asked>>,
           \A r \in Server \ {s} : mutex'[r] = mutex[r],
           \/ mutex'[s] = mutex[s] /\ (pc[s][w] \in Section <=> b \in Section)
           \/ mutex[s] = 0 /\ mutex'[s] = w /\ b \in Section
           \/ mutex'[s] = 0 /\ pc[s][w] \in Section /\ b \notin Section
    PROVE  Handlers'
<1> USE DEF Handlers
<1>1. /\ pc'[s][w] = b
      /\ \A r \in Server, v \in Write : r # s \/ v # w => pc'[r][v] = pc[r][v]
  BY Move DEF ServerData
<1>2. Owned'
  <2> SUFFICES ASSUME NEW r \in Server, NEW v \in Write
               PROVE  mutex'[r] = v <=> pc'[r][v] \in Section
    BY DEF Owned
  <2>1. CASE r # s
    BY <1>1, <2>1 DEF Owned
  <2>2. CASE r = s /\ v # w
    <3>1. mutex[s] = v <=> pc[s][v] \in Section
      BY DEF Owned
    <3>2. mutex[s] = w <=> pc[s][w] \in Section
      BY DEF Owned
    <3>3. pc'[s][v] = pc[s][v] /\ v # 0 /\ w # 0
      BY <1>1, <2>2, Numbers
    <3>4. QED
      BY <2>2, <3>1, <3>2, <3>3
  <2>3. CASE r = s /\ v = w
    <3>1. mutex[s] = w <=> pc[s][w] \in Section
      BY DEF Owned
    <3>2. QED
      BY <1>1, <2>3, <3>1, Numbers
  <2>4. QED
    BY <2>1, <2>2, <2>3
<1>3. Living'
  BY <1>1 DEF Living, Alive
<1>4. Frontier'
  <2> SUFFICES ASSUME NEW r \in Server, NEW t \in Server, NEW v \in Write,
                      pc'[r][v] \in {"received", "applied"}, t > r
               PROVE  pc'[t][v] = "none"
    BY DEF Frontier
  <2>1. pc[r][v] \in {"received", "applied"}
    BY <1>1
  <2>2. pc[t][v] = "none"
    BY <2>1 DEF Frontier
  <2>3. QED
    BY <1>1, <2>2
<1>5. Unasked'
  BY <1>1 DEF Unasked
<1>6. QED
  BY <1>2, <1>3, <1>4, <1>5

(* No handler moves, and no process that lives ends.                       *)
LEMMA StillKeeps ==
    ASSUME Handlers, UNCHANGED <<pc, mutex, asked>>, \A s \in Server : Alive(s) => Alive(s)'
    PROVE  Handlers'
BY DEF Handlers, Owned, Living, Frontier, Unasked

(* All of the invariant but ChainData.                                     *)
ServerInv == ServerData /\ Sources /\ Descends /\ Handlers

LEMMA DiesKeeps ==
    ASSUME TypeInv, NEW s \in Server, Dies(s), UNCHANGED asked
    PROVE  ServerInv' /\ event' \in [Server -> BOOLEAN] /\ leaving' \in [Server -> BOOLEAN]
<1> USE DEF TypeInv
<1>1. event' \in [Server -> BOOLEAN] /\ leaving' \in [Server -> BOOLEAN]
  BY DEF Dies, ChainData
<1>2. ServerData'
  <2>1. proc' \in [Server -> {"absent", "registered", "listed", "joining", "reading", "copied",
                         "serving", "dead"}]
    BY DEF Dies, ServerData
  <2>2. before' \in [Server -> Server \cup {0}] /\ log' \in [Server -> Seq(Write)]
    <3>1. <<>> \in Seq(Write)
      OBVIOUS
    <3>2. QED
      BY <3>1 DEF Dies, ServerData
  <2>3. send' \in [Server -> BOOLEAN] /\ dup' \in [Server -> BOOLEAN] /\ relinked' \in [Server -> BOOLEAN]
    BY DEF Dies, ServerData
  <2>4. link' \in [Server -> States]
    BY LinkStates DEF Dies, ServerData
  <2>5. aim' \in [Server -> Server \cup {0}] /\ via' \in [Server -> Server \cup {0}]
    BY DEF Dies, ServerData
  <2>6. from' \in [Server -> [Write -> Server \cup {0}]]
    BY DEF Dies, ServerData
  <2>7. mutex' \in [Server -> Write \cup {0}]
    BY DEF Dies, ServerData
  <2>8. pc' \in [Server -> [Write -> Stage]]
    BY DEF Dies, ServerData, Stage
  <2>9. QED
    BY <2>1, <2>2, <2>3, <2>4, <2>5, <2>6, <2>7, <2>8 DEF ServerData
<1>3. Sources'
  BY DEF Dies, ServerData, Sources
<1>4. Descends'
  BY LinkStates DEF Dies, ServerData, Descends
<1>5. Handlers'
  <2>1. /\ \A v \in Write : pc'[s][v] = "none"
        /\ \A r \in Server \ {s} : pc'[r] = pc[r] /\ mutex'[r] = mutex[r] /\ proc'[r] = proc[r]
        /\ mutex'[s] = 0
    BY DEF Dies, ServerData
  <2>2. Owned'
    BY <2>1, Numbers DEF Handlers, Owned, Section
  <2>3. Living'
    BY <2>1 DEF Handlers, Living, Alive
  <2>4. Frontier'
    BY <2>1 DEF Handlers, Frontier
  <2>5. Unasked'
    BY <2>1 DEF Handlers, Unasked
  <2>6. QED
    BY <2>2, <2>3, <2>4, <2>5 DEF Handlers
<1>6. QED
  BY <1>1, <1>2, <1>3, <1>4, <1>5 DEF ServerInv

(* Nothing changes that a server keeps for itself.                         *)
LEMMA ServerKept ==
    ASSUME ServerInv, UNCHANGED <<proc, before, log, nextlink, handler, asked>>
    PROVE  ServerInv'
BY DEF ServerInv, ServerData, Sources, Descends, Handlers, Owned, Living, Frontier, Unasked,
       Alive, nextlink, handler
-----------------------------------------------------------------------------
(* ZooKeeper and the faults.                                               *)
LEMMA FaultsKeep ==
    ASSUME TypeInv, NEW s \in Server, Crash(s) \/ Expire(s) \/ StartLeave(s) \/ EndLeave(s) \/ LoseSession(s)
    PROVE  TypeInv'
<1> USE DEF TypeInv
<1>1. CASE Crash(s)
  <2>1. ServerInv' /\ event' \in [Server -> BOOLEAN] /\ leaving' \in [Server -> BOOLEAN]
    BY <1>1, DiesKeeps DEF Crash
  <2>2. faults' \in 0 .. MaxFaults /\ UNCHANGED <<nodes, heads, lost, asked, history>>
    BY <1>1, FailoverAssumption DEF Crash, ChainData
  <2>3. QED
    BY <2>1, <2>2 DEF ServerInv, ChainData, history
<1>2. CASE Expire(s)
  <2>1. nodes' \subseteq Server /\ heads' \subseteq Server /\ event' \in [Server -> BOOLEAN]
    BY <1>2, ChangeType DEF Expire, ChainData
  <2>2. ServerInv'
    BY <1>2, ServerKept DEF Expire, process, ServerInv
  <2>3. UNCHANGED <<lost, faults, asked, leaving, history>>
    BY <1>2 DEF Expire, process
  <2>4. QED
    BY <2>1, <2>2, <2>3 DEF ServerInv, ChainData, history
<1>3. CASE StartLeave(s)
  <2>1. faults' \in 0 .. MaxFaults /\ leaving' \in [Server -> BOOLEAN]
    BY <1>3, FailoverAssumption DEF StartLeave, ChainData
  <2>2. UNCHANGED <<chain, asked, history, proc, before, log, aim, mutex, dup, via, pc, from>>
    BY <1>3 DEF StartLeave
  <2>3. send' \in [Server -> BOOLEAN] /\ relinked' \in [Server -> BOOLEAN] /\ link' \in [Server -> States]
    BY <1>3, LinkStates DEF StartLeave, ServerData
  <2>4. ServerData'
    BY <2>2, <2>3 DEF ServerData
  <2>5. Sources' /\ Handlers'
    BY <2>2, StillKeeps DEF Sources, Alive
  <2>6. Descends'
    BY <1>3, <2>2, LinkStates DEF StartLeave, Descends, ServerData
  <2>7. QED
    BY <2>1, <2>2, <2>4, <2>5, <2>6 DEF ChainData, chain, history
<1>4. ASSUME SessionEnds(s), faults' \in 0 .. MaxFaults PROVE TypeInv'
  <2>1. nodes \ {s} # {} => Lowest(nodes \ {s}) \in Server
    BY Extremes DEF ChainData
  <2>2. /\ nodes' \subseteq Server /\ heads' \subseteq Server
        /\ event' \in [Server -> BOOLEAN] /\ lost' \in [Server -> BOOLEAN]
    BY <1>4, <2>1 DEF SessionEnds, ChainData
  <2>3. ServerInv'
    BY <1>4, ServerKept DEF SessionEnds, process, ServerInv
  <2>4. UNCHANGED <<asked, leaving, history>>
    BY <1>4 DEF SessionEnds, process
  <2>5. QED
    BY <1>4, <2>2, <2>3, <2>4 DEF ServerInv, ChainData, history
<1>5. CASE EndLeave(s)
  <2>1. CASE SessionEnds(s) /\ UNCHANGED faults
    BY <1>4, <2>1 DEF ChainData
  <2>2. CASE Dies(s) /\ UNCHANGED <<nodes, heads, lost, faults, asked, history>>
    <3>1. ServerInv' /\ event' \in [Server -> BOOLEAN] /\ leaving' \in [Server -> BOOLEAN]
      BY <2>2, DiesKeeps
    <3>2. QED
      BY <2>2, <3>1 DEF ServerInv, ChainData, history
  <2>3. QED
    BY <1>5, <2>1, <2>2 DEF EndLeave
<1>6. CASE LoseSession(s)
  BY <1>4, <1>6, FailoverAssumption DEF LoseSession, ChainData
<1>7. QED
  BY <1>1, <1>2, <1>3, <1>5, <1>6

(* The process ends while nothing else happens.                            *)
LEMMA DeathKeeps ==
    ASSUME TypeInv, NEW s \in Server, Dies(s), UNCHANGED <<nodes, heads, lost, faults, asked, history>>
    PROVE  TypeInv'
<1>1. ServerInv' /\ event' \in [Server -> BOOLEAN] /\ leaving' \in [Server -> BOOLEAN]
  BY DiesKeeps
<1>2. QED
  BY <1>1 DEF TypeInv, ServerInv, ChainData, history

(* The ZooKeeper thread.                                                   *)
LEMMA WatcherKeeps == ASSUME TypeInv, NEW s \in Server, Watcher(s) PROVE TypeInv'
<1> USE DEF TypeInv
<1>1. CASE DropLink(s)
  <2>1. CASE link[s] = Freed /\ (Successor(s) # 0 \/ send[s]) /\ Dies(s)
    BY <1>1, <2>1, DeathKeeps DEF DropLink
  <2>2. CASE ~(link[s] = Freed /\ (Successor(s) # 0 \/ send[s]) /\ Dies(s))
    <3>1. /\ event' = [event EXCEPT ![s] = FALSE]
          /\ aim' = [aim EXCEPT ![s] = Successor(s)]
          /\ send' = [send EXCEPT ![s] = Successor(s) # 0]
          /\ link' = [link EXCEPT ![s] =
                        IF @ = NoLink \/ (Successor(s) = 0 /\ ~send[s]) THEN @ ELSE Freed]
          /\ relinked' = [relinked EXCEPT ![s] = via[s] # 0]
          /\ UNCHANGED <<process, mutex, dup, via, pc, from>>
      BY <1>1, <2>2 DEF DropLink
    <3>2. UNCHANGED <<nodes, heads, lost, faults, asked, history>>
      BY <1>1 DEF DropLink
    <3>3. Successor(s) \in Server \cup {0} /\ (Successor(s) # 0 => Successor(s) > s)
      BY SuccessorType DEF ChainData
    <3>4. ServerData'
      <4>1. link' \in [Server -> States] /\ aim' \in [Server -> Server \cup {0}]
        BY <3>1, <3>3, LinkStates DEF ServerData
      <4>2. send' \in [Server -> BOOLEAN] /\ relinked' \in [Server -> BOOLEAN]
        BY <3>1 DEF ServerData
      <4>3. QED
        BY <3>1, <4>1, <4>2 DEF ServerData, process
    <3>5. Sources' /\ Handlers'
      BY <3>1, <3>2, StillKeeps DEF Sources, Alive, process
    <3>6. Descends'
      BY <3>1, <3>3, LinkStates DEF Descends, ServerData
    <3>7. event' \in [Server -> BOOLEAN] /\ UNCHANGED leaving
      BY <3>1 DEF ChainData, process
    <3>8. QED
      BY <3>2, <3>4, <3>5, <3>6, <3>7 DEF ChainData, history
  <2>3. QED
    BY <2>1, <2>2
<1>2. CASE ConnectNext(s)
  <2>1. UNCHANGED <<chain, faults, asked, process, send, handler, history>>
    BY <1>2 DEF ConnectNext
  <2>2. /\ aim[s] \in Server /\ aim[s] > s
        /\ aim' = [aim EXCEPT ![s] = 0]
        /\ \E l \in {Open(aim[s]), Freed} : link' = [link EXCEPT ![s] = l]
    BY <1>2 DEF ConnectNext, ServerData, Descends
  <2>3. ServerData'
    <3>1. link' \in [Server -> States] /\ aim' \in [Server -> Server \cup {0}]
      BY <2>2, LinkStates DEF ServerData
    <3>2. QED
      BY <2>1, <3>1 DEF ServerData, process, handler
  <2>4. Sources' /\ Handlers'
    BY <2>1, StillKeeps DEF Sources, Alive, process, handler
  <2>5. Descends'
    BY <2>2, LinkStates DEF Descends, ServerData
  <2>6. QED
    BY <2>1, <2>3, <2>4, <2>5 DEF ChainData, chain, process, history
<1>3. QED
  BY <1>1, <1>2 DEF Watcher

(* main() of a server that joins.                                          *)
LEMMA RegisterKeeps == ASSUME TypeInv, NEW s \in Server, Register(s) PROVE TypeInv'
<1> USE DEF TypeInv
<1>1. UNCHANGED <<lost, faults, asked, before, log, leaving, nextlink, handler, history>>
  BY DEF Register
<1>2. nodes' \subseteq Server /\ heads' \subseteq Server /\ event' \in [Server -> BOOLEAN]
  BY ChangeType DEF Register, ChainData
<1>3. ServerData' /\ Sources' /\ \A t \in Server : Alive(t) => Alive(t)'
  BY <1>1 DEF Register, ServerData, Sources, Alive, nextlink, handler
<1>4. Handlers' /\ Descends'
  BY <1>1, <1>3, StillKeeps DEF nextlink, handler, Descends
<1>5. QED
  BY <1>1, <1>2, <1>3, <1>4 DEF ChainData, history

(* The servers before it in the list, of which it takes the last.          *)
LEMMA ListType ==
    ASSUME ChainData, NEW s \in Server, ListChain(s)
    PROVE  \/ /\ proc' = [proc EXCEPT ![s] = "serving"]
              /\ blank' = blank \cup {s} /\ before' = before
              /\ \A n \in nodes : ~(n < s)
           \/ /\ proc' = [proc EXCEPT ![s] = "listed"]
              /\ \E b \in nodes : /\ b \in Server /\ b < s /\ \A n \in nodes : n < s => n <= b
                                  /\ before' = [before EXCEPT ![s] = b]
              /\ blank' = blank
<1> DEFINE above == {t \in nodes : t < s}
<1>1. CASE above = {}
  BY <1>1 DEF ListChain
<1>2. CASE above # {}
  <2>1. above \subseteq Server /\ nodes \subseteq Server
    BY DEF ChainData
  <2>2. Highest(above) \in above /\ \A n \in above : Highest(above) >= n
    BY <1>2, <2>1, Extremes
  <2>3. PICK b : b = Highest(above)
    OBVIOUS
  <2>4. /\ proc' = [proc EXCEPT ![s] = "listed"]
        /\ before' = [before EXCEPT ![s] = b] /\ blank' = blank
    BY <1>2, <2>3 DEF ListChain
  <2>5. b \in nodes /\ b \in Server /\ b < s
    BY <2>1, <2>2, <2>3
  <2>6. \A n \in nodes : n < s => n <= b
    BY <2>1, <2>2, <2>3, <2>5, Numbers
  <2>7. QED
    BY <2>4, <2>5, <2>6
<1>3. QED
  BY <1>1, <1>2

LEMMA MainKeeps == ASSUME TypeInv, NEW s \in Server, Main(s) PROVE TypeInv'
<1> USE DEF TypeInv
<1>1. CASE CopyAsk(s)
  <2>1. UNCHANGED <<chain, faults, asked, before, log, leaving, nextlink, handler, history>>
    BY <1>1 DEF CopyAsk
  <2>2. ServerData' /\ Sources' /\ \A t \in Server : Alive(t) => Alive(t)'
    BY <1>1, <2>1 DEF CopyAsk, ServerData, Sources, Alive, nextlink, handler
  <2>3. Handlers' /\ Descends' /\ ChainData'
    BY <2>1, <2>2, StillKeeps DEF chain, nextlink, handler, history, Descends, ChainData
  <2>4. QED
    BY <2>2, <2>3
<1>2. CASE CopyTake(s)
  <2>1. UNCHANGED <<chain, faults, asked, before, leaving, nextlink, handler, acked, unsent>>
    BY <1>2 DEF CopyTake
  <2>2. before[s] \in Server
    BY <1>2 DEF CopyTake, ServerData, Sources
  <2>3. ServerData' /\ Sources' /\ \A t \in Server : Alive(t) => Alive(t)'
    BY <1>2, <2>1, <2>2 DEF CopyTake, ServerData, Sources, Alive, nextlink, handler
  <2>4. blank' \subseteq Server
    BY <1>2 DEF CopyTake, ChainData
  <2>5. Handlers' /\ Descends' /\ ChainData'
    BY <2>1, <2>3, <2>4, StillKeeps DEF chain, nextlink, handler, Descends, ChainData
  <2>6. QED
    BY <2>3, <2>5
<1>3. CASE CopyServe(s)
  <2>1. UNCHANGED <<chain, faults, asked, log, leaving, nextlink, handler, history>>
    BY <1>3 DEF CopyServe
  <2>2. ServerData' /\ Sources' /\ \A t \in Server : Alive(t) => Alive(t)'
    BY <1>3, <2>1 DEF CopyServe, ServerData, Sources, Alive, nextlink, handler
  <2>3. Handlers' /\ Descends' /\ ChainData'
    BY <2>1, <2>2, StillKeeps DEF chain, nextlink, handler, history, Descends, ChainData
  <2>4. QED
    BY <2>2, <2>3
<1>4. CASE CopyFails(s)
  <2>1. CASE Dies(s) /\ UNCHANGED history
    BY <1>4, <2>1, DeathKeeps DEF CopyFails
  <2>2. CASE ~(Dies(s) /\ UNCHANGED history)
    <3>1. /\ proc' = [proc EXCEPT ![s] = "serving"] /\ before' = [before EXCEPT ![s] = 0]
          /\ log' = [log EXCEPT ![s] = <<>>] /\ blank' = blank \cup {s}
          /\ UNCHANGED <<event, leaving, nextlink, handler, acked, unsent>>
          /\ UNCHANGED <<nodes, heads, lost, faults, asked>>
      BY <1>4, <2>2 DEF CopyFails
    <3>2. <<>> \in Seq(Write)
      OBVIOUS
    <3>3. ServerData' /\ Sources' /\ \A t \in Server : Alive(t) => Alive(t)'
      BY <3>1, <3>2 DEF ServerData, Sources, Alive, nextlink, handler
    <3>4. Handlers' /\ Descends' /\ ChainData'
      BY <3>1, <3>3, StillKeeps DEF nextlink, handler, Descends, ChainData
    <3>5. QED
      BY <3>3, <3>4
  <2>3. QED
    BY <2>1, <2>2
<1>5. CASE ListChain(s)
  <2>1. UNCHANGED <<chain, faults, asked, log, leaving, nextlink, handler, acked, unsent>>
    BY <1>5 DEF ListChain
  <2>2. /\ \E p \in {"serving", "listed"} : proc' = [proc EXCEPT ![s] = p]
        /\ before' \in [Server -> Server \cup {0}] /\ blank' \subseteq Server
        /\ Sources'
    <3>1. CASE proc' = [proc EXCEPT ![s] = "serving"] /\ blank' = blank \cup {s} /\ before' = before
      BY <3>1 DEF ServerData, ChainData, Sources
    <3>2. ASSUME NEW b \in Server, proc' = [proc EXCEPT ![s] = "listed"],
                 before' = [before EXCEPT ![s] = b], blank' = blank
          PROVE  /\ \E p \in {"serving", "listed"} : proc' = [proc EXCEPT ![s] = p]
                 /\ before' \in [Server -> Server \cup {0}] /\ blank' \subseteq Server
                 /\ Sources'
      BY <3>2, Numbers DEF ServerData, ChainData, Sources
    <3>3. QED
      BY <1>5, <3>1, <3>2, ListType
  <2>3. ServerData' /\ \A t \in Server : Alive(t) => Alive(t)'
    BY <1>5, <2>1, <2>2 DEF ServerData, Alive, nextlink, handler
  <2>4. Handlers' /\ Descends'
    BY <2>1, <2>3, StillKeeps DEF nextlink, handler, Descends
  <2>5. QED
    BY <2>1, <2>2, <2>3, <2>4 DEF ChainData, chain
<1>6. CASE ConnectBefore(s)
  <2>1. CASE Dies(s)
    BY <1>6, <2>1, DeathKeeps DEF ConnectBefore
  <2>2. CASE ~Dies(s)
    <3>1. /\ proc' = [proc EXCEPT ![s] = "joining"]
          /\ UNCHANGED <<event, before, log, leaving, nextlink, handler>>
          /\ UNCHANGED <<nodes, heads, lost, faults, asked, history>>
      BY <1>6, <2>2 DEF ConnectBefore
    <3>2. ServerData' /\ Sources' /\ \A t \in Server : Alive(t) => Alive(t)'
      BY <1>6, <3>1 DEF ConnectBefore, ServerData, Sources, Alive, nextlink, handler
    <3>3. Handlers' /\ Descends' /\ ChainData'
      BY <3>1, <3>2, StillKeeps DEF nextlink, handler, history, Descends, ChainData
    <3>4. QED
      BY <3>2, <3>3
  <2>3. QED
    BY <2>1, <2>2
<1>7. QED
  BY <1>1, <1>2, <1>3, <1>4, <1>5, <1>6 DEF Main

-----------------------------------------------------------------------------
(* A client asks: the write is new, and has been nowhere.                  *)
LEMMA AskKeeps == ASSUME TypeInv, NEW s \in Server, Ask(s) PROVE TypeInv'
<1> USE DEF TypeInv, Handlers
<1> DEFINE w == asked + 1
<1>1. /\ w \in Write /\ w > asked /\ asked' = w /\ asked' \in 0 .. MaxWrites
      /\ \A v \in Write : v > w => v > asked
  BY FailoverAssumption DEF Ask, ChainData, Write
<1>2. /\ pc' = [pc EXCEPT ![s][w] = "received"] /\ Alive(s)
      /\ UNCHANGED <<chain, faults, process, nextlink, mutex, dup, via, relinked, from, history>>
  BY <1>1 DEF Ask
<1> HIDE DEF w
<1>3. \A r \in Server : pc[r][w] = "none"
  BY <1>1 DEF Unasked
<1>4. /\ pc' \in [Server -> [Write -> Stage]] /\ pc'[s][w] = "received"
      /\ \A r \in Server, v \in Write : r # s \/ v # w => pc'[r][v] = pc[r][v]
  <2>1. "received" \in Stage
    BY DEF Stage
  <2>2. QED
    BY <1>1, <1>2, <2>1, Move DEF ServerData
<1>5. ChainData' /\ Sources' /\ Descends'
  BY <1>1, <1>2 DEF ChainData, Sources, Descends, chain, process, nextlink, history
<1>6. ServerData'
  BY <1>2, <1>4 DEF ServerData, process, nextlink
<1>7. Owned'
  BY <1>2, <1>3, <1>4 DEF Owned, Section
<1>8. Living'
  BY <1>2, <1>4 DEF Living, Alive, process
<1>9. Frontier'
  <2> SUFFICES ASSUME NEW r \in Server, NEW t \in Server, NEW v \in Write,
                      pc'[r][v] \in {"received", "applied"}, t > r
               PROVE  pc'[t][v] = "none"
    BY DEF Frontier
  <2>1. CASE v = w
    <3>1. r = s
      BY <1>3, <1>4, <2>1
    <3>2. t # s
      BY <3>1, Numbers
    <3>3. QED
      BY <1>3, <1>4, <2>1, <3>2
  <2>2. CASE v # w
    BY <1>4, <2>2 DEF Frontier
  <2>3. QED
    BY <2>1, <2>2
<1>10. Unasked'
  <2> SUFFICES ASSUME NEW r \in Server, NEW v \in Write, v > asked' PROVE pc'[r][v] = "none"
    BY DEF Unasked
  <2>1. v # w /\ v > asked
    BY <1>1, Numbers DEF ChainData
  <2>2. QED
    BY <1>4, <2>1 DEF Unasked
<1>11. QED
  BY <1>5, <1>6, <1>7, <1>8, <1>9, <1>10

(* The section ends: the mutex is given back, the link perhaps closed.     *)
LEMMA FinishesKeeps ==
    ASSUME TypeInv, NEW s \in Server, NEW w \in Write, pc[s][w] \in Section,
           Finishes(s, w), Steady, UNCHANGED <<faults, asked, acked, blank>>,
           unsent' \subseteq Write,
           link' = link \/ \E l \in {link[s], Closed} : link' = [link EXCEPT ![s] = l]
    PROVE  TypeInv'
<1> USE DEF TypeInv
<1>1. /\ pc' = [pc EXCEPT ![s][w] = "released"] /\ UNCHANGED <<process, from>>
      /\ mutex' = [mutex EXCEPT ![s] = 0] /\ dup' = [dup EXCEPT ![s] = FALSE]
      /\ via' = [via EXCEPT ![s] = 0] /\ relinked' = [relinked EXCEPT ![s] = FALSE]
  BY DEF Finishes, Moves, Unlocks
<1>2. UNCHANGED <<nodes, heads, lost, event, send, aim>>
  BY DEF Steady
<1>3. "released" \in Stage /\ "released" \notin Section /\ "none" \notin Section
  BY DEF Stage, Section
<1>4. Handlers'
  BY <1>1, <1>3, MoveKeeps DEF ServerData, process
<1>5. pc' \in [Server -> [Write -> Stage]]
  BY <1>1, <1>3, Move DEF ServerData
<1>6. link' \in [Server -> States] /\ \A r \in Server : link'[r] \in {link[r], Closed}
  <2>1. link \in [Server -> States]
    BY DEF ServerData
  <2>2. CASE link' = link
    BY <2>1, <2>2
  <2>3. CASE \E l \in {link[s], Closed} : link' = [link EXCEPT ![s] = l]
    BY <2>1, <2>3, LinkStates
  <2>4. QED
    BY <2>2, <2>3
<1>7. ServerData'
  BY <1>1, <1>2, <1>5, <1>6 DEF ServerData, process
<1>8. Descends'
  BY <1>2, <1>6, LinkStates DEF Descends
<1>9. Sources' /\ ChainData'
  BY <1>1, <1>2 DEF Sources, ChainData, process
<1>10. QED
  BY <1>4, <1>7, <1>8, <1>9

(* The handler goes on to wait, for an answer or on some other connection. *)
LEMMA WaitsKeeps ==
    ASSUME TypeInv, NEW s \in Server, NEW w \in Write, pc[s][w] \in Section,
           NEW b \in {"awaiting", "astray"}, NEW t \in Server \cup {0},
           Waits(s, w, b, t), UNCHANGED <<chain, faults, asked, nextlink, acked, blank>>,
           unsent' \subseteq Write
    PROVE  TypeInv'
<1> USE DEF TypeInv
<1>1. /\ pc' = [pc EXCEPT ![s][w] = b] /\ UNCHANGED <<process, from>>
      /\ via' = [via EXCEPT ![s] = t] /\ UNCHANGED <<mutex, dup, relinked>>
  BY DEF Waits, Moves
<1>2. b \in Stage /\ b \in Section /\ b \notin {"none", "received", "applied"} /\ "none" \notin Section
  BY DEF Stage, Section
<1>3. Handlers'
  BY <1>1, <1>2, MoveKeeps DEF ServerData, process
<1>4. pc' \in [Server -> [Write -> Stage]]
  BY <1>1, <1>2, Move DEF ServerData
<1>5. ServerData'
  BY <1>1, <1>4 DEF ServerData, process, nextlink
<1>6. Sources' /\ Descends' /\ ChainData'
  BY <1>1 DEF Sources, Descends, ChainData, process, chain, nextlink
<1>7. QED
  BY <1>3, <1>5, <1>6

LEMMA ApplyKeeps == ASSUME TypeInv, NEW s \in Server, NEW w \in Write, Apply(s, w) PROVE TypeInv'
<1> USE DEF TypeInv
<1>1. /\ pc[s][w] = "received" /\ mutex[s] = 0
      /\ mutex' = [mutex EXCEPT ![s] = w] /\ dup' = [dup EXCEPT ![s] = send[s]]
      /\ log' = [log EXCEPT ![s] = Append(@, w)]
      /\ pc' = [pc EXCEPT ![s][w] = "applied"]
      /\ UNCHANGED <<chain, faults, asked, proc, before, leaving, nextlink, via, relinked,
                     from, history>>
  BY DEF Apply, At
<1>2. "applied" \in Stage /\ "applied" \in Section
  BY DEF Stage, Section
<1>3. Handlers'
  BY <1>1, <1>2, MoveKeeps DEF ServerData
<1>4. pc' \in [Server -> [Write -> Stage]]
  BY <1>1, <1>2, Move DEF ServerData
<1>5. log' \in [Server -> Seq(Write)]
  BY <1>1 DEF ServerData
<1>6. mutex' \in [Server -> Write \cup {0}] /\ dup' \in [Server -> BOOLEAN]
  BY <1>1 DEF ServerData
<1>7. ServerData'
  BY <1>1, <1>4, <1>5, <1>6 DEF ServerData, nextlink
<1>8. Sources' /\ Descends' /\ ChainData'
  BY <1>1 DEF Sources, Descends, ChainData, chain, nextlink, history
<1>9. QED
  BY <1>3, <1>7, <1>8

(* The request goes to a server that it has not been to.                   *)
LEMMA ForwardKeeps == ASSUME TypeInv, NEW s \in Server, NEW w \in Write, Forward(s, w) PROVE TypeInv'
<1> USE DEF TypeInv, Handlers
<1> DEFINE t == link[s].to
<1>1. /\ pc[s][w] = "applied" /\ link[s].state = "open" /\ Alive(t)
      /\ pc' = [pc EXCEPT ![s][w] = "awaiting", ![t][w] = "received"]
      /\ from' = [from EXCEPT ![t][w] = s] /\ via' = [via EXCEPT ![s] = t]
      /\ UNCHANGED <<chain, faults, asked, process, nextlink, mutex, dup, relinked, history>>
  BY DEF Forward, At
<1>2. t \in Server /\ t > s /\ t # s
  BY <1>1, LinkStates, Numbers DEF ServerData, Descends
<1> HIDE DEF t
<1>3. /\ pc' \in [Server -> [Write -> Stage]]
      /\ pc'[s][w] = "awaiting" /\ pc'[t][w] = "received"
      /\ \A r \in Server, v \in Write : (r # s /\ r # t) \/ v # w => pc'[r][v] = pc[r][v]
  <2>1. "awaiting" \in Stage /\ "received" \in Stage
    BY DEF Stage, Section
  <2>2. QED
    BY <1>1, <1>2, <2>1 DEF ServerData
<1>4. pc[t][w] = "none"
  BY <1>1, <1>2 DEF Frontier
<1>5. ServerData'
  <2>1. from' \in [Server -> [Write -> Server \cup {0}]] /\ via' \in [Server -> Server \cup {0}]
    BY <1>1, <1>2 DEF ServerData
  <2>2. QED
    BY <1>1, <1>3, <2>1 DEF ServerData, process, nextlink
<1>6. Sources' /\ Descends' /\ ChainData'
  BY <1>1 DEF Sources, Descends, ChainData, process, nextlink, chain, history
<1>7. Owned'
  <2> SUFFICES ASSUME NEW r \in Server, NEW v \in Write
               PROVE  mutex'[r] = v <=> pc'[r][v] \in Section
    BY DEF Owned
  <2>1. mutex'[r] = v <=> pc[r][v] \in Section
    BY <1>1 DEF Owned
  <2>2. pc'[r][v] \in Section <=> pc[r][v] \in Section
    BY <1>1, <1>3, <1>4 DEF Section
  <2>3. QED
    BY <2>1, <2>2
<1>8. Living'
  BY <1>1, <1>3 DEF Living, Alive, process
<1>9. Frontier'
  <2> SUFFICES ASSUME NEW r \in Server, NEW u \in Server, NEW v \in Write,
                      pc'[r][v] \in {"received", "applied"}, u > r
               PROVE  pc'[u][v] = "none"
    BY DEF Frontier
  <2>1. CASE v # w
    BY <1>3, <2>1 DEF Frontier
  <2>2. CASE v = w /\ r = t
    <3>1. u > s /\ u # s /\ u # t
      BY <1>2, <2>2, Numbers
    <3>2. pc[u][w] = "none"
      BY <1>1, <3>1 DEF Frontier
    <3>3. QED
      BY <1>3, <2>2, <3>1, <3>2
  <2>3. CASE v = w /\ r # t
    <3>1. r # s /\ pc[r][w] \in {"received", "applied"}
      BY <1>3, <2>3
    <3>2. r > s
      <4>1. ~(s > r)
        BY <1>1, <3>1 DEF Frontier
      <4>2. QED
        BY <3>1, <4>1, Numbers
    <3>3. pc[r][w] = "none"
      BY <1>1, <3>2 DEF Frontier
    <3>4. QED
      BY <3>1, <3>3
  <2>4. QED
    BY <2>1, <2>2, <2>3
<1>10. Unasked'
  <2> SUFFICES ASSUME NEW r \in Server, NEW v \in Write, v > asked PROVE pc'[r][v] = "none"
    BY <1>1 DEF Unasked
  <2>1. pc[r][v] = "none" /\ pc[s][v] = "none"
    BY DEF Unasked
  <2>2. v # w
    BY <1>1, <2>1
  <2>3. QED
    BY <1>3, <2>1, <2>2
<1>11. QED
  BY <1>5, <1>6, <1>7, <1>8, <1>9, <1>10

LEMMA ReplyKeeps == ASSUME TypeInv, NEW s \in Server, NEW w \in Write, Reply(s, w) PROVE TypeInv'
<1> USE DEF TypeInv
<1>1. CASE Killed(s)
  BY <1>1, DeathKeeps DEF Killed
<1>2. CASE ~Killed(s)
  <2>1. /\ pc[s][w] = "released" /\ pc' = [pc EXCEPT ![s][w] = "replied"]
        /\ UNCHANGED <<process, from, chain, faults, asked, nextlink, mutex, dup, via, relinked,
                       unsent, blank>>
    BY <1>2 DEF Reply, At, Moves
  <2>2. acked' \subseteq Write
    BY <1>2 DEF Reply, ChainData
  <2>3. /\ "replied" \in Stage /\ "replied" \notin Section \cup {"none", "received", "applied"}
        /\ "released" \notin Section
    BY DEF Stage, Section
  <2>4. Handlers'
    BY <2>1, <2>3, MoveKeeps DEF ServerData, process
  <2>5. pc' \in [Server -> [Write -> Stage]]
    BY <2>1, <2>3, Move DEF ServerData
  <2>6. ServerData'
    BY <2>1, <2>5 DEF ServerData, process, nextlink
  <2>7. Sources' /\ Descends' /\ ChainData'
    BY <2>1, <2>2 DEF Sources, Descends, ChainData, process, chain, nextlink
  <2>8. QED
    BY <2>4, <2>6, <2>7
<1>3. QED
  BY <1>1, <1>2

(* send_next() ends, well or not, or goes on to wait.                      *)
LEMMA SendsKeep ==
    ASSUME TypeInv, NEW s \in Server, NEW w \in Write,
           \/ Skip(s, w) \/ ForwardToDead(s, w) \/ ForwardAmiss(s, w)
           \/ Answered(s, w) \/ EndOfFile(s, w) \/ Crossed(s, w) \/ StrayEnds(s, w)
    PROVE  TypeInv'
<1> USE DEF TypeInv
<1>1. pc[s][w] \in Section /\ unsent \subseteq Write
  <2>1. CASE Skip(s, w) \/ ForwardToDead(s, w) \/ ForwardAmiss(s, w)
    BY <2>1 DEF Skip, ForwardToDead, ForwardAmiss, At, Section, ChainData
  <2>2. CASE Answered(s, w) \/ EndOfFile(s, w) \/ Crossed(s, w) \/ StrayEnds(s, w)
    <3>1. pc[s][w] \in {"awaiting", "astray"}
      BY ONLY <2>2 DEF Answered, EndOfFile, Crossed, StrayEnds, At
    <3>2. QED
      BY <3>1 DEF Section, ChainData
  <2>3. QED
    BY <2>1, <2>2
<1>2. ASSUME NEW l \in {link[s], Closed}, Fails(s, w, {l}) PROVE TypeInv'
  <2>1. /\ Finishes(s, w) /\ Steady /\ link' = [link EXCEPT ![s] = l]
        /\ unsent' \subseteq Write /\ UNCHANGED <<faults, asked, acked, blank>>
    BY <1>1, <1>2 DEF Fails, Links
  <2>2. QED
    BY <1>1, <2>1, FinishesKeeps
<1>3. ASSUME Strays(s, w) PROVE TypeInv'
  <2>1. /\ Waits(s, w, "astray", 0) /\ UNCHANGED <<chain, faults, asked, nextlink, acked, blank>>
        /\ unsent' \subseteq Write
    BY <1>1, <1>3 DEF Strays, Steady, chain, nextlink
  <2>2. QED
    BY <1>1, <2>1, WaitsKeeps
<1>4. CASE Skip(s, w)
  <2>1. /\ Finishes(s, w) /\ Steady /\ link' = link
        /\ unsent' \subseteq Write /\ UNCHANGED <<faults, asked, acked, blank>>
    BY <1>1, <1>4 DEF Skip
  <2>2. QED
    BY <1>1, <2>1, FinishesKeeps
<1>5. CASE ForwardToDead(s, w)
  <2>1. CASE Fails(s, w, {Closed})
    BY <1>2, <2>1
  <2>2. CASE Killed(s)
    BY <2>2, DeathKeeps DEF Killed
  <2>3. CASE Waits(s, w, "awaiting", link[s].to) /\ UNCHANGED <<chain, faults, asked, nextlink, history>>
    <3>1. link[s].to \in Server
      BY <1>5, LinkStates DEF ForwardToDead, ServerData
    <3>2. QED
      BY <1>1, <2>3, <3>1, WaitsKeeps DEF history
  <2>4. QED
    BY <1>5, <2>1, <2>2, <2>3 DEF ForwardToDead
<1>6. CASE ForwardAmiss(s, w)
  <2>1. CASE Fails(s, w, {link[s]}) \/ Fails(s, w, {Closed})
    BY <1>2, <2>1
  <2>2. CASE Strays(s, w)
    BY <1>3, <2>2
  <2>3. CASE Killed(s)
    BY <2>3, DeathKeeps DEF Killed
  <2>4. QED
    BY <1>6, <2>1, <2>2, <2>3 DEF ForwardAmiss
<1>7. CASE Answered(s, w)
  <2>1. /\ Finishes(s, w) /\ Steady /\ link' = link
        /\ UNCHANGED <<faults, asked, acked, blank, unsent>>
    BY <1>7 DEF Answered, history
  <2>2. QED
    BY <1>1, <2>1, FinishesKeeps
<1>8. CASE EndOfFile(s, w)
  <2>1. PICK l \in {link[s], Closed} : Fails(s, w, {l})
    BY <1>8 DEF EndOfFile, Fails, Links
  <2>2. QED
    BY <1>2, <2>1
<1>9. CASE Crossed(s, w)
  <2>1. unsent' \subseteq Write /\ UNCHANGED <<faults, asked, acked, blank>> /\ Steady
    BY <1>1, <1>9 DEF Crossed
  <2>2. CASE Finishes(s, w) /\ \E l \in {link[s], Closed} : link' = [link EXCEPT ![s] = l]
    BY <1>1, <2>1, <2>2, FinishesKeeps
  <2>3. CASE Waits(s, w, "astray", 0) /\ UNCHANGED link
    BY <1>1, <2>1, <2>3, WaitsKeeps DEF Steady, chain, nextlink
  <2>4. QED
    BY <1>9, <2>2, <2>3 DEF Crossed, Links
<1>10. CASE StrayEnds(s, w)
  <2>1. Finishes(s, w) /\ Steady /\ UNCHANGED <<faults, asked, history>>
    BY <1>10 DEF StrayEnds
  <2>2. \E l \in {link[s], Closed} : link' = [link EXCEPT ![s] = l]
    BY <1>10 DEF StrayEnds, Links
  <2>3. QED
    BY <1>1, <2>1, <2>2, FinishesKeeps DEF history
<1>11. QED
  BY <1>4, <1>5, <1>6, <1>7, <1>8, <1>9, <1>10
-----------------------------------------------------------------------------
LEMMA TypeInit == Init => TypeInv
<1> SUFFICES ASSUME Init PROVE TypeInv
  OBVIOUS
<1> USE DEF Init
<1>1. 1 .. Formed \subseteq Server /\ 1 \in Server /\ 0 \in 0 .. MaxFaults /\ 0 \in 0 .. MaxWrites
  BY FailoverAssumption DEF Server
<1>2. \A s \in Server : s < Formed => s + 1 \in Server /\ s + 1 > s
  BY FailoverAssumption DEF Server
<1>3. <<>> \in Seq(Write) /\ "none" \in Stage /\ "none" \notin Section
  BY DEF Stage, Section
<1>4. link \in [Server -> States]
  BY <1>2, LinkStates
<1>5. ServerData
  BY <1>3, <1>4 DEF ServerData
<1>6. ChainData
  BY <1>1 DEF ChainData
<1>7. Descends
  <2> SUFFICES ASSUME NEW s \in Server, link[s].state = "open" PROVE link[s].to > s
    BY DEF Descends
  <2>1. s < Formed /\ link[s] = Open(s + 1)
    BY LinkStates
  <2>2. QED
    BY <1>2, <2>1, LinkStates
<1>8. Sources
  BY DEF Sources
<1>9. Handlers
  BY <1>3, Numbers DEF Handlers, Owned, Living, Frontier, Unasked
<1>10. QED
  BY <1>5, <1>6, <1>7, <1>8, <1>9 DEF TypeInv

LEMMA TypeStep == TypeInv /\ [Next]_vars => TypeInv'
<1> SUFFICES ASSUME TypeInv, [Next]_vars PROVE TypeInv'
  OBVIOUS
<1>1. ASSUME NEW s \in Server, Progress(s) \/ Environment(s) PROVE TypeInv'
  <2>1. CASE \E w \in Write : Handle(s, w) \/ StrayEnds(s, w)
    BY <2>1, ApplyKeeps, ForwardKeeps, ReplyKeeps, SendsKeep DEF Handle
  <2>2. CASE Main(s) \/ Register(s)
    BY <2>2, MainKeeps, RegisterKeeps
  <2>3. CASE Watcher(s) \/ Ask(s)
    BY <2>3, WatcherKeeps, AskKeeps
  <2>4. CASE Expire(s) \/ EndLeave(s) \/ Fault(s)
    BY <2>4, FaultsKeep DEF Fault
  <2>5. QED
    BY <1>1, <2>1, <2>2, <2>3, <2>4 DEF Progress, Environment
<1>2. CASE UNCHANGED vars
  BY <1>2 DEF vars, TypeInv, ChainData, ServerData, Sources, Descends, Handlers, Owned, Living,
              Frontier, Unasked, Alive, chain, process, nextlink, handler, history
<1>3. QED
  BY <1>1, <1>2 DEF Next

LEMMA TypeInvariant == Spec => []TypeInv
BY TypeInit, TypeStep, PTL DEF Spec

(* The types of the variables; and write_mutex is held exactly while the   *)
(* handler of a write is between taking it and giving it back, however     *)
(* links are dropped, made and lost under it.                              *)
THEOREM TypeCorrect == Spec => []TypeOK
BY TypeInvariant, InvImpliesType, PTL
-----------------------------------------------------------------------------
(* A server that joins; where the link of a server leads or will lead.     *)
Joiner(r)   == proc[r] \in {"listed", "joining", "reading", "copied"}
Entering(r) == proc[r] = "registered" \/ Joiner(r)
Leads(x, y) == aim[x] = y \/ via[x] = y \/ link[x] = Open(y)

(* The servers that are kept, with a table that did not begin empty.       *)
Keepers == {t \in Kept : proc[t] \in {"copied", "serving"} /\ t \notin blank}

(* Who is where in its life.                                               *)
Heard   == \A s \in Server : event[s] => s \in nodes /\ Alive(s)
Leaves  == \A s \in Server : leaving[s] => proc[s] = "serving"
Joined  == \A r \in Server :
    /\ Entering(r) => r \in nodes
    /\ Joiner(r) => before[r] \in Server /\ before[r] < r
    /\ ~Joiner(r) => before[r] = 0
    /\ proc[r] \in {"reading", "copied"} => proc[before[r]] \in {"serving", "dead"}
    /\ proc[r] \notin {"copied", "serving"} => log[r] = <<>>
Backlog == \A s \in Server, w \in Write : proc[s] # "serving" => pc[s][w] \in {"none", "received"}
Roles   == Heard /\ Leaves /\ Joined /\ Backlog

(* Servers come in the order of their numbers, and what a link leads to    *)
(* was next to its server in the chain: a link passes over no server of    *)
(* the chain, nor over one that a server between them copies from.         *)
Numbered == \A s \in Server : proc[s] = "absent" =>
    /\ s \notin nodes /\ s \notin heads /\ s # 1
    /\ \A x \in Server : ~Leads(x, s) /\ before[x] # s
    /\ \A t \in Server : t > s => proc[t] = "absent"
Youngest  == \A r, t \in Server : proc[r] = "registered" /\ t > r => proc[t] = "absent"
Onward    == \A x, y \in Server : Leads(x, y) => y > x
Adjacent  == \A x, y \in Server, n \in nodes : Leads(x, y) /\ x < n => y <= n
HeadFirst == \A h \in heads, n \in nodes : h <= n
NextTo    == \A r \in Server, n \in nodes \cup heads : Joiner(r) /\ before[r] < n => r <= n
Over      == \A r, x, y \in Server : Joiner(r) /\ Leads(x, y) /\ x < before[r] /\ before[r] < y => y >= r
Beside    == \A r, x, y \in Server : Joiner(r) /\ Leads(x, y) /\ before[r] < x /\ x < r => y <= r
Layout    == Numbered /\ Youngest /\ Onward /\ Adjacent /\ HeadFirst /\ NextTo /\ Over /\ Beside

(* What serves below a server that joins began without a table.            *)
LateBlank == \A r, t \in Server : Joiner(r) /\ t > r /\ proc[t] \in {"copied", "serving"} => t \in blank

Structure == Roles /\ Layout /\ LateBlank
-----------------------------------------------------------------------------
(* Most steps only take away: servers end, leave the chain, drop links,    *)
(* and start to serve.                                                     *)
Follows(x, y) == x \in nodes /\ y \in nodes /\ y > x /\ \A n \in nodes : n > x => y <= n

Ends(r) ==
    /\ Alive(r) /\ proc'[r] = "dead" /\ before'[r] = 0 /\ log'[r] = <<>> /\ mutex'[r] = 0
    /\ \A w \in Write : pc'[r][w] = "none"

Same(r) == proc'[r] = proc[r] /\ before'[r] = before[r] /\ log'[r] = log[r]

Serves(r) ==
    /\ Entering(r) /\ proc'[r] = "serving" /\ before'[r] = 0
    /\ \/ proc[r] = "copied" /\ log'[r] = log[r] /\ ~Dead(before[r]) /\ mutex[before[r]] = 0
       \/ log'[r] = <<>> /\ r \in blank'

Asks(r) ==
    /\ \/ proc[r] = "listed" /\ proc'[r] = "joining"
       \/ proc[r] = "joining" /\ proc'[r] = "reading" /\ proc[before[r]] = "serving"
    /\ before'[r] = before[r] /\ log'[r] = log[r]

Goes(r) ==
    /\ mutex'[r] = mutex[r] /\ via'[r] = via[r] /\ pc'[r] = pc[r] /\ from'[r] = from[r]
    /\ Same(r) \/ Serves(r) \/ Asks(r)

Wanes ==
    /\ UNCHANGED <<asked, acked, unsent>> /\ blank \subseteq blank'
    /\ nodes' \subseteq nodes /\ heads \subseteq heads'
    /\ \A h \in heads' \ heads : h \in nodes /\ \A n \in nodes' : h <= n
    /\ \A x, y \in Server : Leads(x, y)' => Leads(x, y) \/ Follows(x, y)
    /\ \A r \in Server :
          /\ event'[r] => r \in nodes' /\ Alive(r)'
          /\ leaving'[r] => proc'[r] = "serving"
          /\ Entering(r)' => r \in nodes'
          /\ Ends(r) \/ Goes(r)

LEMMA OpenLinks ==
    /\ \A t \in Server : Open(t) \notin {NoLink, Closed, Freed}
    /\ \A t, u \in Server : Open(t) = Open(u) => t = u
    /\ \A l \in States : l.state = "open" => l = Open(l.to)
<1>1. \A t \in Server : Open(t) \notin {NoLink, Closed, Freed}
  BY LinkStates
<1>2. \A t, u \in Server : Open(t) = Open(u) => t = u
  BY LinkStates
<1>3. ASSUME NEW l \in States, l.state = "open" PROVE l = Open(l.to)
  <2>1. PICK t \in Server : l = Open(t)
    BY <1>3, LinkStates DEF States
  <2>2. QED
    BY <2>1, LinkStates
<1>4. QED
  BY <1>1, <1>2, <1>3

(* The process of s ends and nothing else changes.                         *)
LEMMA DiesEffect ==
    ASSUME TypeInv, NEW s \in Server, Dies(s)
    PROVE  /\ proc'[s] = "dead" /\ before'[s] = 0 /\ log'[s] = <<>> /\ mutex'[s] = 0
           /\ leaving'[s] = FALSE /\ event'[s] = FALSE
           /\ \A w \in Write : pc'[s][w] = "none"
           /\ \A y \in Server : ~Leads(s, y)'
           /\ \A r \in Server : r # s =>
                 /\ Same(r) /\ leaving'[r] = leaving[r] /\ event'[r] = event[r]
                 /\ mutex'[r] = mutex[r] /\ via'[r] = via[r] /\ pc'[r] = pc[r] /\ from'[r] = from[r]
                 /\ \A y \in Server : Leads(r, y)' <=> Leads(r, y)
<1>1. /\ proc'[s] = "dead" /\ before'[s] = 0 /\ log'[s] = <<>> /\ mutex'[s] = 0
      /\ leaving'[s] = FALSE /\ event'[s] = FALSE
      /\ \A w \in Write : pc'[s][w] = "none"
  BY DEF Dies, TypeInv, ServerData, ChainData
<1>2. \A r \in Server : r # s =>
         /\ Same(r) /\ leaving'[r] = leaving[r] /\ event'[r] = event[r]
         /\ mutex'[r] = mutex[r] /\ via'[r] = via[r] /\ pc'[r] = pc[r] /\ from'[r] = from[r]
         /\ aim'[r] = aim[r] /\ link'[r] = link[r]
  BY DEF Dies, TypeInv, ServerData, ChainData, Same
<1>3. aim'[s] = 0 /\ via'[s] = 0 /\ link'[s] = NoLink
  BY DEF Dies, TypeInv, ServerData
<1>4. \A y \in Server : ~Leads(s, y)'
  BY <1>3, Numbers, LinkStates DEF Leads
<1>5. \A r \in Server : r # s => \A y \in Server : Leads(r, y)' <=> Leads(r, y)
  BY <1>2 DEF Leads
<1>6. QED
  BY <1>1, <1>2, <1>4, <1>5

LEMMA DeathWanes ==
    ASSUME TypeInv, Roles, NEW s \in Server, Alive(s), Dies(s), UNCHANGED <<nodes, heads, asked, history>>
    PROVE  Wanes
<1>1. UNCHANGED <<asked, acked, unsent, blank>>
  BY DEF history
<1>2. \A x, y \in Server : Leads(x, y)' => Leads(x, y)
  BY DiesEffect
<1>3. ASSUME NEW r \in Server, r # s
      PROVE  /\ event'[r] => r \in nodes' /\ Alive(r)'
             /\ leaving'[r] => proc'[r] = "serving"
             /\ Entering(r)' => r \in nodes'
             /\ Goes(r)
  <2>1. /\ Same(r) /\ leaving'[r] = leaving[r] /\ event'[r] = event[r]
        /\ mutex'[r] = mutex[r] /\ via'[r] = via[r] /\ pc'[r] = pc[r] /\ from'[r] = from[r]
    BY <1>3, DiesEffect
  <2>2. QED
    BY <2>1 DEF Goes, Same, Roles, Heard, Leaves, Joined, Alive, Entering, Joiner
<1>4. /\ event'[s] = FALSE /\ leaving'[s] = FALSE
      /\ ~Entering(s)' /\ Ends(s)
  BY DiesEffect DEF Ends, Entering, Joiner
<1>5. QED
  BY <1>1, <1>2, <1>3, <1>4 DEF Wanes

(* What nothing but the links, the chain and its events may change.        *)
LEMMA OutsideWanes ==
    ASSUME Roles, UNCHANGED <<proc, before, log, mutex, via, pc, from, asked, history>>,
           nodes' \subseteq nodes, heads \subseteq heads',
           \A h \in heads' \ heads : h \in nodes /\ \A n \in nodes' : h <= n,
           \A x, y \in Server : Leads(x, y)' => Leads(x, y) \/ Follows(x, y),
           \A r \in Server : /\ event'[r] => r \in nodes' /\ Alive(r)
                             /\ leaving'[r] => proc[r] = "serving"
                             /\ Entering(r) => r \in nodes'
    PROVE  Wanes
<1>1. UNCHANGED <<asked, acked, unsent, blank>>
  BY DEF history
<1>2. \A r \in Server : /\ Alive(r)' <=> Alive(r)
                        /\ Entering(r)' <=> Entering(r)
                        /\ Goes(r)
  BY DEF Alive, Entering, Joiner, Goes, Same
<1>3. \A r \in Server : /\ event'[r] => r \in nodes' /\ Alive(r)'
                        /\ leaving'[r] => proc'[r] = "serving"
                        /\ Entering(r)' => r \in nodes'
  BY <1>2
<1>4. QED
  BY <1>1, <1>2, <1>3 DEF Wanes

LEMMA LeaveWanes ==
    ASSUME TypeInv, Roles, NEW s \in Server, Expire(s) \/ (SessionEnds(s) /\ proc[s] = "serving")
    PROVE  Wanes
<1> USE DEF TypeInv
<1>1. UNCHANGED <<asked, process, nextlink, handler, history>> /\ nodes' = nodes \ {s}
  BY DEF Expire, SessionEnds, Change
<1>2. heads' = IF nodes \ {s} = {} THEN heads ELSE heads \cup {Lowest(nodes \ {s})}
  <2>1. s \in nodes
    BY DEF Expire, SessionEnds
  <2>2. CASE Expire(s)
    BY <2>2 DEF Expire, Change
  <2>3. CASE SessionEnds(s)
    <3>1. nodes = {s} <=> nodes \ {s} = {}
      BY <2>1
    <3>2. QED
      BY <2>3, <3>1 DEF SessionEnds
  <2>4. QED
    BY <2>2, <2>3
<1>3. \A h \in heads' \ heads : h \in nodes /\ \A n \in nodes' : h <= n
  <2>1. nodes \ {s} \in SUBSET Server
    BY DEF ChainData
  <2>2. QED
    BY <1>1, <1>2, <2>1, Extremes
<1>4. \A x, y \in Server : Leads(x, y)' => Leads(x, y)
  BY <1>1 DEF nextlink, handler, Leads
<1>5. proc[s] \in {"dead", "serving"}
  BY DEF Expire, Dead
<1>6. ASSUME NEW r \in Server
      PROVE  /\ event'[r] => r \in nodes' /\ Alive(r)
             /\ leaving'[r] => proc[r] = "serving"
             /\ Entering(r) => r \in nodes'
  <2>1. event'[r] => r \in nodes' /\ Alive(r)
    <3>1. CASE Expire(s)
      <4>1. event'[r] => event[r] \/ (Alive(r) /\ r \in nodes)
        BY <3>1 DEF Expire, Change, Watching
      <4>2. ~Alive(s)
        BY <3>1 DEF Expire, Dead, Alive
      <4>3. QED
        BY <1>1, <4>1, <4>2 DEF Roles, Heard
    <3>2. CASE SessionEnds(s)
      <4>1. event'[r] => r # s /\ (event[r] \/ (Alive(r) /\ r \in nodes))
        BY <3>2 DEF SessionEnds, Watching
      <4>2. QED
        BY <1>1, <4>1 DEF Roles, Heard
    <3>3. QED
      BY <3>1, <3>2
  <2>2. QED
    BY <1>1, <1>5, <2>1 DEF Roles, Leaves, Joined, Entering, Joiner, process
<1>7. UNCHANGED <<proc, before, log, mutex, via, pc, from>> /\ heads \subseteq heads'
  BY <1>1, <1>2 DEF process, handler
<1>8. QED
  BY <1>1, <1>3, <1>4, <1>6, <1>7, OutsideWanes

LEMMA StartLeaveWanes == ASSUME TypeInv, Roles, NEW s \in Server, StartLeave(s) PROVE Wanes
<1> USE DEF TypeInv
<1>1. UNCHANGED <<chain, asked, proc, before, log, aim, mutex, via, pc, from, history>>
  BY DEF StartLeave
<1>2. \A x \in Server : link'[x] \in {link[x], Freed}
  BY DEF StartLeave, ServerData
<1>3. \A x, y \in Server : Leads(x, y)' => Leads(x, y)
  BY <1>1, <1>2, LinkStates DEF Leads
<1>4. \A r \in Server : leaving'[r] => proc[r] = "serving"
  BY DEF StartLeave, Roles, Leaves, ChainData
<1>5. UNCHANGED <<nodes, heads, event>>
  BY <1>1 DEF chain
<1>6. \A r \in Server : /\ event'[r] => r \in nodes' /\ Alive(r)
                        /\ Entering(r) => r \in nodes'
  BY <1>5 DEF Roles, Heard, Joined, Entering
<1>7. QED
  BY <1>1, <1>3, <1>4, <1>5, <1>6, OutsideWanes

LEMMA WatcherWanes == ASSUME TypeInv, Roles, NEW s \in Server, Watcher(s) PROVE Wanes
<1> USE DEF TypeInv
<1>1. CASE DropLink(s) /\ Dies(s)
  <2>1. UNCHANGED <<nodes, heads, asked, history>> /\ Alive(s)
    BY <1>1 DEF DropLink, Roles, Heard
  <2>2. QED
    BY <1>1, <2>1, DeathWanes
<1>2. CASE DropLink(s) /\ ~Dies(s)
  <2>1. /\ event[s] /\ event' = [event EXCEPT ![s] = FALSE]
        /\ aim' = [aim EXCEPT ![s] = Successor(s)]
        /\ link' = [link EXCEPT ![s] =
                      IF @ = NoLink \/ (Successor(s) = 0 /\ ~send[s]) THEN @ ELSE Freed]
        /\ UNCHANGED <<process, mutex, dup, via, pc, from>>
        /\ UNCHANGED <<nodes, heads, lost, faults, asked, history>>
    BY <1>2 DEF DropLink
  <2>2. \A x \in Server : link'[x] \in {link[x], Freed}
    BY <2>1 DEF ServerData
  <2>3. s \in nodes
    BY <2>1 DEF Roles, Heard
  <2>4. ASSUME NEW x \in Server, NEW y \in Server, Leads(x, y)' PROVE Leads(x, y) \/ Follows(x, y)
    <3>1. CASE aim'[x] = y /\ x = s
      <4>1. y = Successor(s) /\ y # 0
        BY <2>1, <3>1, Numbers DEF ServerData
      <4>2. QED
        BY <2>3, <3>1, <4>1, SuccessorType DEF Follows, ChainData
    <3>2. CASE ~(aim'[x] = y /\ x = s)
      <4>1. aim'[x] = y => aim[x] = y
        BY <2>1, <3>2 DEF ServerData
      <4>2. link'[x] = Open(y) => link[x] = Open(y)
        BY <2>2, LinkStates
      <4>3. QED
        BY <2>1, <2>4, <4>1, <4>2 DEF Leads
    <3>3. QED
      BY <3>1, <3>2
  <2>5. \A r \in Server : /\ event'[r] => r \in nodes' /\ Alive(r)
                          /\ leaving'[r] => proc[r] = "serving"
                          /\ Entering(r) => r \in nodes'
    BY <2>1 DEF Roles, Heard, Leaves, Joined, Entering, ChainData, process
  <2>6. UNCHANGED <<proc, before, log>>
    BY <2>1 DEF process
  <2>7. QED
    BY <2>1, <2>4, <2>5, <2>6, OutsideWanes
<1>3. CASE ConnectNext(s)
  <2>1. UNCHANGED <<chain, faults, asked, process, send, handler, history>>
    BY <1>3 DEF ConnectNext
  <2>2. /\ aim[s] \in Server /\ aim' = [aim EXCEPT ![s] = 0]
        /\ \E l \in {Open(aim[s]), Freed} : link' = [link EXCEPT ![s] = l]
    BY <1>3 DEF ConnectNext, ServerData
  <2>3. ASSUME NEW x \in Server, NEW y \in Server, Leads(x, y)' PROVE Leads(x, y)
    <3>1. aim'[x] = y => aim[x] = y
      BY <2>2, Numbers DEF ServerData
    <3>2. link'[x] = Open(y) => link[x] = Open(y) \/ aim[x] = y
      <4>1. link'[x] = link[x] \/ (x = s /\ link'[x] \in {Open(aim[s]), Freed})
        BY <2>2 DEF ServerData
      <4>2. QED
        BY <2>2, <4>1, OpenLinks
    <3>3. QED
      BY <2>1, <2>3, <3>1, <3>2 DEF Leads, handler
  <2>4. UNCHANGED <<nodes, heads, event, proc, before, log, leaving, mutex, via, pc, from>>
    BY <2>1 DEF chain, process, handler
  <2>5. \A r \in Server : /\ event'[r] => r \in nodes' /\ Alive(r)
                          /\ leaving'[r] => proc[r] = "serving"
                          /\ Entering(r) => r \in nodes'
    BY <2>4 DEF Roles, Heard, Leaves, Joined, Entering
  <2>6. QED
    BY <2>1, <2>3, <2>4, <2>5, OutsideWanes
<1>4. QED
  BY <1>1, <1>2, <1>3 DEF Watcher

LEMMA CopyWanes ==
    ASSUME TypeInv, Roles, NEW s \in Server,
           \/ ConnectBefore(s) \/ CopyAsk(s) \/ CopyServe(s) \/ CopyFails(s)
           \/ ListChain(s) /\ proc'[s] = "serving"
    PROVE  Wanes
<1> USE DEF TypeInv
<1>1. CASE Dies(s) /\ UNCHANGED <<nodes, heads, asked, history>> /\ Alive(s)
  BY <1>1, DeathWanes
<1>2. CASE ~(Dies(s) /\ UNCHANGED <<nodes, heads, asked, history>> /\ Alive(s))
  <2>1. /\ UNCHANGED <<nodes, heads, event, asked, leaving, nextlink, handler, acked, unsent>>
        /\ blank \subseteq blank'
        /\ Entering(s) /\ proc'[s] \in {"joining", "reading", "serving"} /\ \A r \in Server : r # s => Same(r)
        /\ Serves(s) \/ Asks(s)
    <3>1. CASE CopyAsk(s)
      BY <3>1 DEF CopyAsk, chain, history, Same, ServerData, Asks, Entering, Joiner
    <3>2. CASE CopyServe(s)
      BY <3>2 DEF CopyServe, chain, history, Same, ServerData, Serves, Entering, Joiner
    <3>3. CASE CopyFails(s)
      <4>1. ~(proc[s] = "joining" /\ Dies(s) /\ UNCHANGED history)
        BY <1>2, <3>3 DEF CopyFails, Alive
      <4>2. QED
        BY <3>3, <4>1 DEF CopyFails, Same, ServerData, Serves, Entering, Joiner
    <3>4. CASE ConnectBefore(s)
      <4>1. ~Dies(s)
        BY <1>2, <3>4 DEF ConnectBefore, Alive
      <4>2. QED
        BY <3>4, <4>1 DEF ConnectBefore, history, Same, ServerData, Asks, Entering, Joiner
    <3>5. CASE ListChain(s) /\ proc'[s] = "serving"
      <4>1. /\ proc[s] = "registered" /\ before' = before /\ blank' = blank \cup {s}
            /\ proc' = [proc EXCEPT ![s] = "serving"]
            /\ UNCHANGED <<chain, asked, log, leaving, nextlink, handler, acked, unsent>>
        <5>1. proc' # [proc EXCEPT ![s] = "listed"]
          BY <3>5 DEF ServerData
        <5>2. proc[s] = "registered" /\ UNCHANGED <<chain, asked, log, leaving, nextlink, handler, acked, unsent>>
          BY <3>5 DEF ListChain
        <5>3. QED
          BY <3>5, <5>1, <5>2, ListType
      <4>2. before[s] = 0 /\ log[s] = <<>>
        BY <4>1 DEF Roles, Joined, Joiner
      <4>3. QED
        BY <4>1, <4>2 DEF chain, Same, ServerData, Serves, Entering
    <3>6. QED
      BY <3>1, <3>2, <3>3, <3>4, <3>5
  <2>2. \A r \in Server : Goes(r)
    BY <2>1 DEF Goes, handler
  <2>3. \A x, y \in Server : Leads(x, y)' => Leads(x, y)
    BY <2>1 DEF Leads, nextlink, handler
  <2>4. ASSUME NEW r \in Server
        PROVE  /\ event'[r] => r \in nodes' /\ Alive(r)'
               /\ leaving'[r] => proc'[r] = "serving"
               /\ Entering(r)' => r \in nodes'
    <3>1. CASE r = s
      BY <2>1, <3>1 DEF Roles, Heard, Leaves, Joined, Alive, Entering, Joiner
    <3>2. CASE r # s
      BY <2>1, <3>2 DEF Roles, Heard, Leaves, Joined, Alive, Entering, Joiner, Same
    <3>3. QED
      BY <3>1, <3>2
  <2>5. QED
    BY <2>1, <2>2, <2>3, <2>4 DEF Wanes
<1>3. QED
  BY <1>1, <1>2
-----------------------------------------------------------------------------
(* What these steps keep.                                                  *)
LEMMA WanesRoles == ASSUME TypeInv, Roles, Wanes PROVE Roles'
<1> USE DEF TypeInv
<1>1. Heard' /\ Leaves'
  BY DEF Wanes, Heard, Leaves
<1>2. Joined'
  <2> SUFFICES ASSUME NEW r \in Server
               PROVE  /\ Entering(r)' => r \in nodes'
                      /\ Joiner(r)' => before'[r] \in Server /\ before'[r] < r
                      /\ ~Joiner(r)' => before'[r] = 0
                      /\ proc'[r] \in {"reading", "copied"} => proc'[before'[r]] \in {"serving", "dead"}
                      /\ proc'[r] \notin {"copied", "serving"} => log'[r] = <<>>
    BY DEF Joined
  <2>1. /\ Joiner(r)' => Joiner(r) /\ before'[r] = before[r]
        /\ Entering(r)' => r \in nodes'
    BY DEF Wanes, Ends, Goes, Same, Serves, Asks, Joiner
  <2>2. ~Joiner(r)' => before'[r] = 0
    BY DEF Wanes, Ends, Goes, Same, Serves, Asks, Entering, Joiner, Roles, Joined
  <2>3. proc'[r] \in {"reading", "copied"} => proc'[before'[r]] \in {"serving", "dead"}
    <3> SUFFICES ASSUME proc'[r] \in {"reading", "copied"} PROVE proc'[before[r]] \in {"serving", "dead"}
      BY <2>1 DEF Joiner
    <3>1. before[r] \in Server
      BY <2>1 DEF Joiner, Roles, Joined
    <3>2. proc[before[r]] \in {"serving", "dead"}
      BY DEF Wanes, Ends, Goes, Same, Serves, Asks, Roles, Joined
    <3>3. QED
      BY <3>1, <3>2 DEF Wanes, Ends, Goes, Same, Serves, Asks, Entering, Joiner
  <2>4. proc'[r] \notin {"copied", "serving"} => log'[r] = <<>>
    BY DEF Wanes, Ends, Goes, Same, Serves, Asks, Roles, Joined
  <2>5. QED
    BY <2>1, <2>2, <2>3, <2>4 DEF Roles, Joined
<1>3. Backlog'
  BY DEF Wanes, Ends, Goes, Same, Serves, Asks, Entering, Joiner, Roles, Backlog
<1>4. QED
  BY <1>1, <1>2, <1>3 DEF Roles

LEMMA WanesLayout == ASSUME TypeInv, Roles, Layout, Wanes PROVE Layout'
<1> USE DEF TypeInv, Layout
<1>1. nodes \subseteq Server /\ heads \subseteq Server /\ nodes' \subseteq nodes
  BY DEF ChainData, Wanes
<1>2. \A x, y \in Server : Leads(x, y)' => Leads(x, y) \/ Follows(x, y)
  BY DEF Wanes
<1>3. \A h \in heads' : h \in heads \cup nodes /\ \A n \in nodes' : h <= n
  BY <1>1 DEF Wanes, HeadFirst
<1>4. \A r \in Server : Joiner(r)' => Joiner(r) /\ before'[r] = before[r] /\ before[r] \in Server
  BY DEF Wanes, Ends, Goes, Same, Serves, Asks, Joiner, Roles, Joined
<1>5. \A s \in Server : /\ proc'[s] = "absent" <=> proc[s] = "absent"
                        /\ proc'[s] = "registered" => proc[s] = "registered"
                        /\ before'[s] = before[s] \/ before'[s] = 0
  BY DEF Wanes, Ends, Goes, Same, Serves, Asks, Entering, Joiner, Alive
<1>6. Numbered'
  <2> SUFFICES ASSUME NEW s \in Server, proc'[s] = "absent"
               PROVE  /\ s \notin nodes' /\ s \notin heads' /\ s # 1
                      /\ \A x \in Server : ~Leads(x, s)' /\ before'[x] # s
                      /\ \A t \in Server : t > s => proc'[t] = "absent"
    BY DEF Numbered
  <2>1. proc[s] = "absent"
    BY <1>5
  <2>2. s \notin nodes' /\ s \notin heads' /\ s # 1
    BY <1>1, <1>3, <2>1 DEF Numbered
  <2>3. \A x \in Server : ~Leads(x, s)'
    BY <1>2, <2>1 DEF Numbered, Follows
  <2>4. \A x \in Server : before'[x] # s
    BY <1>5, <2>1, Numbers DEF Numbered
  <2>5. \A t \in Server : t > s => proc'[t] = "absent"
    BY <1>5, <2>1 DEF Numbered
  <2>6. QED
    BY <2>2, <2>3, <2>4, <2>5
<1>7. Onward'
  BY <1>2 DEF Onward, Follows
<1>8. Adjacent'
  BY <1>1, <1>2 DEF Adjacent, Follows
<1>9. HeadFirst'
  BY <1>3 DEF HeadFirst
<1>10. NextTo'
  BY <1>1, <1>3, <1>4 DEF NextTo
<1>11. Over'
  <2> SUFFICES ASSUME NEW r \in Server, NEW x \in Server, NEW y \in Server,
                      Joiner(r)', Leads(x, y)', x < before'[r], before'[r] < y
               PROVE  y >= r
    BY DEF Over
  <2>1. Joiner(r) /\ x < before[r] /\ before[r] < y
    BY <1>4
  <2>2. CASE Leads(x, y)
    BY <2>1, <2>2 DEF Over
  <2>3. CASE Follows(x, y)
    BY <2>1, <2>3, Numbers DEF Follows, NextTo
  <2>4. QED
    BY <1>2, <2>2, <2>3
<1>12. Beside'
  <2> SUFFICES ASSUME NEW r \in Server, NEW x \in Server, NEW y \in Server,
                      Joiner(r)', Leads(x, y)', before'[r] < x, x < r
               PROVE  y <= r
    BY DEF Beside
  <2>1. Joiner(r) /\ before[r] < x
    BY <1>4
  <2>2. CASE Leads(x, y)
    BY <2>1, <2>2 DEF Beside
  <2>3. CASE Follows(x, y)
    BY <2>1, <2>3, Numbers DEF Follows, NextTo
  <2>4. QED
    BY <1>2, <2>2, <2>3
<1>13. Youngest'
  BY <1>5 DEF Youngest
<1>14. QED
  BY <1>6, <1>7, <1>8, <1>9, <1>10, <1>11, <1>12, <1>13

LEMMA WanesLateBlank == ASSUME LateBlank, Wanes PROVE LateBlank'
<1> SUFFICES ASSUME NEW r \in Server, NEW t \in Server,
                    Joiner(r)', t > r, proc'[t] \in {"copied", "serving"}
             PROVE  t \in blank'
  BY DEF LateBlank
<1>1. Joiner(r) /\ blank \subseteq blank'
  BY DEF Wanes, Ends, Goes, Same, Serves, Asks, Joiner
<1>2. proc[t] \in {"copied", "serving"} \/ t \in blank'
  BY DEF Wanes, Ends, Goes, Same, Serves, Asks, Joiner
<1>3. QED
  BY <1>1, <1>2 DEF LateBlank
-----------------------------------------------------------------------------
(* A new server has the highest number.                                    *)
LEMMA RegisterEffect ==
    ASSUME TypeInv, Roles, Layout, NEW s \in Server, Register(s)
    PROVE  /\ UNCHANGED <<asked, before, log, leaving, acked, unsent, blank, mutex, via, pc, from>>
           /\ \A x, y \in Server : Leads(x, y)' <=> Leads(x, y)
           /\ nodes' = nodes \cup {s} /\ heads \subseteq heads'
           /\ \A h \in heads' : h \in heads \/ (h \in nodes' /\ \A n \in nodes' : h <= n)
           /\ \A r \in Server : event'[r] => r \in nodes' /\ Alive(r)'
           /\ \A r \in Server : r # s => proc'[r] = proc[r] /\ proc[r] # "registered"
           /\ proc[s] = "absent" /\ proc'[s] = "registered"
           /\ \A r \in Server : proc[r] # "absent" => r < s
<1> USE DEF TypeInv, Layout
<1>1. /\ UNCHANGED <<lost, asked, before, log, leaving, nextlink, handler, acked, unsent, blank>>
      /\ proc[s] = "absent" /\ proc[s - 1] \notin {"absent", "registered"}
  BY DEF Register, history
<1>2. UNCHANGED <<mutex, via, pc, from>> /\ \A x, y \in Server : Leads(x, y)' <=> Leads(x, y)
  BY <1>1 DEF nextlink, handler, Leads
<1>3. /\ nodes' = nodes \cup {s} /\ heads' = heads \cup {Lowest(nodes \cup {s})}
      /\ \A r \in Server : event'[r] => event[r] \/ (Alive(r) /\ r \in nodes)
  BY DEF Register, Change, Watching
<1>4. \A h \in heads' : h \in heads \/ (h \in nodes' /\ \A n \in nodes' : h <= n)
  <2>1. nodes \cup {s} \in SUBSET Server /\ nodes \cup {s} # {}
    BY DEF ChainData
  <2>2. QED
    BY <1>3, <2>1, Extremes
<1>5. proc'[s] = "registered" /\ \A r \in Server : r # s => proc'[r] = proc[r]
  BY DEF Register, ServerData
<1>6. \A r \in Server : event'[r] => r \in nodes' /\ Alive(r)'
  <2>1. \A r \in Server : event'[r] => r \in nodes /\ Alive(r)
    BY <1>3 DEF Roles, Heard
  <2>2. QED
    BY <1>3, <1>5, <2>1 DEF Alive
<1>7. \A r \in Server : proc[r] # "absent" => r < s
  <2> SUFFICES ASSUME NEW r \in Server, proc[r] # "absent" PROVE r < s
    OBVIOUS
  <2>1. r # s /\ ~(r > s)
    BY <1>1 DEF Numbered
  <2>2. QED
    BY <2>1, Numbers
<1>8. \A r \in Server : r # s => proc[r] # "registered"
  <2> SUFFICES ASSUME NEW r \in Server, proc[r] = "registered" PROVE FALSE
    BY <1>1
  <2>1. r < s /\ s - 1 \in Server
    BY <1>1, <1>7, FailoverAssumption DEF Server, Numbered
  <2>2. r # s - 1 /\ ~(s - 1 > r)
    BY <1>1, <2>1 DEF Youngest
  <2>3. QED
    BY <2>1, <2>2, Numbers
<1>9. QED
  BY <1>1, <1>2, <1>3, <1>4, <1>5, <1>6, <1>7, <1>8

LEMMA RegisterStructure ==
    ASSUME TypeInv, Structure, NEW s \in Server, Register(s)
    PROVE  Structure'
<1> USE DEF TypeInv, Structure, Layout
<1>1. /\ UNCHANGED <<asked, before, log, leaving, acked, unsent, blank, mutex, via, pc, from>>
      /\ \A x, y \in Server : Leads(x, y)' <=> Leads(x, y)
      /\ nodes' = nodes \cup {s} /\ heads \subseteq heads'
      /\ \A h \in heads' : h \in heads \/ (h \in nodes' /\ \A n \in nodes' : h <= n)
      /\ \A r \in Server : event'[r] => r \in nodes' /\ Alive(r)'
  BY RegisterEffect
<1>2. /\ \A r \in Server : r # s => proc'[r] = proc[r] /\ proc[r] # "registered"
      /\ proc[s] = "absent" /\ proc'[s] = "registered"
      /\ \A r \in Server : proc[r] # "absent" => r < s
  BY RegisterEffect
<1>3. nodes \subseteq Server /\ heads \subseteq Server
  BY DEF ChainData
<1>4. \A n \in nodes \cup heads : n < s
  BY <1>2, <1>3 DEF Numbered
<1>5. \A x, y \in Server : Leads(x, y) => y < s
  BY <1>2 DEF Numbered
<1>6. \A r \in Server : Joiner(r)' <=> Joiner(r)
  BY <1>2 DEF Joiner
<1>7. \A r \in Server : Joiner(r) => r < s /\ before[r] \in Server
  BY <1>2 DEF Joiner, Roles, Joined
<1>8. Roles'
  <2>1. Heard'
    BY <1>1 DEF Heard
  <2>2. Leaves' /\ Backlog'
    BY <1>1, <1>2 DEF Roles, Leaves, Backlog
  <2>3. Joined'
    <3> SUFFICES ASSUME NEW r \in Server
                 PROVE  /\ Entering(r)' => r \in nodes'
                        /\ Joiner(r)' => before'[r] \in Server /\ before'[r] < r
                        /\ ~Joiner(r)' => before'[r] = 0
                        /\ proc'[r] \in {"reading", "copied"} => proc'[before'[r]] \in {"serving", "dead"}
                        /\ proc'[r] \notin {"copied", "serving"} => log'[r] = <<>>
      BY DEF Joined
    <3>1. Entering(r)' => r \in nodes'
      BY <1>1, <1>2 DEF Roles, Joined, Entering, Joiner
    <3>2. /\ Joiner(r)' => before'[r] \in Server /\ before'[r] < r
          /\ ~Joiner(r)' => before'[r] = 0
      BY <1>1, <1>6 DEF Roles, Joined
    <3>3. proc'[r] \in {"reading", "copied"} => proc'[before'[r]] \in {"serving", "dead"}
      <4>1. proc'[r] \in {"reading", "copied"} => proc[r] \in {"reading", "copied"} /\ before[r] \in Server
        BY <1>2 DEF Roles, Joined, Joiner
      <4>2. QED
        BY <1>1, <1>2, <4>1 DEF Roles, Joined
    <3>4. proc'[r] \notin {"copied", "serving"} => log'[r] = <<>>
      BY <1>1, <1>2 DEF Roles, Joined
    <3>5. QED
      BY <3>1, <3>2, <3>3, <3>4
  <2>4. QED
    BY <2>1, <2>2, <2>3 DEF Roles
<1>9. Numbered'
  <2> SUFFICES ASSUME NEW a \in Server, proc'[a] = "absent"
               PROVE  /\ a \notin nodes' /\ a \notin heads' /\ a # 1
                      /\ \A x \in Server : ~Leads(x, a)' /\ before'[x] # a
                      /\ \A t \in Server : t > a => proc'[t] = "absent"
    BY DEF Numbered
  <2>1. proc[a] = "absent" /\ a # s
    BY <1>2
  <2>2. a \notin nodes' /\ a \notin heads' /\ a # 1
    BY <1>1, <2>1 DEF Numbered
  <2>3. \A x \in Server : ~Leads(x, a)' /\ before'[x] # a
    BY <1>1, <2>1 DEF Numbered
  <2>4. s < a
    <3>1. s - 1 \in Server /\ proc[s - 1] # "absent"
      BY <1>2, FailoverAssumption DEF Register, Numbered, Server
    <3>2. ~(s - 1 > a) /\ s - 1 # a
      BY <2>1, <3>1 DEF Numbered
    <3>3. QED
      BY <2>1, <3>1, <3>2, Numbers
  <2>5. \A t \in Server : t > a => proc'[t] = "absent"
    BY <1>2, <2>1, <2>4, Numbers DEF Numbered
  <2>6. QED
    BY <2>2, <2>3, <2>5
<1>10. Youngest'
  BY <1>2, Numbers DEF Youngest, Numbered
<1>11. Onward'
  BY <1>1 DEF Onward
<1>12. Adjacent'
  BY <1>1, <1>3, <1>5, Numbers DEF Adjacent
<1>13. HeadFirst'
  BY <1>1, <1>3, <1>4, Numbers DEF HeadFirst
<1>14. NextTo'
  <2> SUFFICES ASSUME NEW r \in Server, NEW n \in nodes' \cup heads', Joiner(r), before[r] < n
               PROVE  r <= n
    BY <1>1, <1>6 DEF NextTo
  <2>1. n \in nodes \cup heads \cup {s}
    BY <1>1
  <2>2. r < s
    BY <1>7
  <2>3. QED
    BY <2>1, <2>2, Numbers DEF NextTo
<1>15. Over' /\ Beside'
  BY <1>1, <1>6 DEF Over, Beside
<1>16. LateBlank'
  BY <1>1, <1>2, <1>6 DEF LateBlank
<1>17. QED
  BY <1>8, <1>9, <1>10, <1>11, <1>12, <1>13, <1>14, <1>15, <1>16

(* It copies from the last server before it that its list names.           *)
LEMMA ListEffect ==
    ASSUME TypeInv, Roles, NEW s \in Server, ListChain(s), proc'[s] # "serving"
    PROVE  /\ UNCHANGED <<nodes, heads, event, leaving, log, asked, acked, unsent, blank, mutex, via, pc, from>>
           /\ \A x, y \in Server : Leads(x, y)' <=> Leads(x, y)
           /\ proc[s] = "registered" /\ proc'[s] = "listed" /\ s \in nodes
           /\ before'[s] \in Server /\ before'[s] \in nodes /\ before'[s] < s
           /\ \A n \in nodes : n < s => n <= before'[s]
           /\ \A r \in Server : r # s => proc'[r] = proc[r] /\ before'[r] = before[r]
<1> USE DEF TypeInv
<1>1. /\ UNCHANGED <<chain, faults, asked, log, leaving, nextlink, handler, acked, unsent>>
      /\ proc[s] = "registered"
  BY DEF ListChain
<1>2. UNCHANGED <<nodes, heads, event, leaving, log, asked, acked, unsent, mutex, via, pc, from>>
  BY <1>1 DEF chain, handler
<1>3. \A x, y \in Server : Leads(x, y)' <=> Leads(x, y)
  BY <1>1 DEF nextlink, handler, Leads
<1>4. s \in nodes
  BY <1>1 DEF Roles, Joined, Entering
<1>5. /\ proc' = [proc EXCEPT ![s] = "listed"] /\ blank' = blank
      /\ \E b \in nodes : /\ b \in Server /\ b < s /\ \A n \in nodes : n < s => n <= b
                          /\ before' = [before EXCEPT ![s] = b]
  <2>1. proc' # [proc EXCEPT ![s] = "serving"]
    BY DEF ServerData
  <2>2. QED
    BY <2>1, ListType
<1>6. /\ proc'[s] = "listed"
      /\ \A r \in Server : r # s => proc'[r] = proc[r] /\ before'[r] = before[r]
      /\ before'[s] \in Server /\ before'[s] \in nodes /\ before'[s] < s
      /\ \A n \in nodes : n < s => n <= before'[s]
  BY <1>5 DEF ServerData
<1>7. QED
  BY <1>1, <1>2, <1>3, <1>4, <1>5, <1>6

LEMMA ListStructure ==
    ASSUME TypeInv, Structure, NEW s \in Server, ListChain(s), proc'[s] # "serving"
    PROVE  Structure'
<1> USE DEF TypeInv, Structure, Layout
<1>1. /\ UNCHANGED <<nodes, heads, event, leaving, log, blank, pc>>
      /\ \A x, y \in Server : Leads(x, y)' <=> Leads(x, y)
      /\ proc[s] = "registered" /\ proc'[s] = "listed" /\ s \in nodes
      /\ before'[s] \in Server /\ before'[s] \in nodes /\ before'[s] < s
      /\ \A n \in nodes : n < s => n <= before'[s]
      /\ \A r \in Server : r # s => proc'[r] = proc[r] /\ before'[r] = before[r]
  BY ListEffect
<1>2. \A r \in Server : /\ Joiner(r)' <=> Joiner(r) \/ r = s
                        /\ Entering(r)' <=> Entering(r)
                        /\ Alive(r)' <=> Alive(r)
  BY <1>1 DEF Entering, Joiner, Alive
<1>3. nodes \subseteq Server /\ heads \subseteq Server
  BY DEF ChainData
<1>4. Heard' /\ Leaves' /\ Backlog'
  BY <1>1, <1>2 DEF Roles, Heard, Leaves, Backlog
<1>5. Joined'
  <2> SUFFICES ASSUME NEW r \in Server
               PROVE  /\ Entering(r)' => r \in nodes'
                      /\ Joiner(r)' => before'[r] \in Server /\ before'[r] < r
                      /\ ~Joiner(r)' => before'[r] = 0
                      /\ proc'[r] \in {"reading", "copied"} => proc'[before'[r]] \in {"serving", "dead"}
                      /\ proc'[r] \notin {"copied", "serving"} => log'[r] = <<>>
    BY DEF Joined
  <2>1. Entering(r)' => r \in nodes'
    BY <1>1, <1>2 DEF Roles, Joined
  <2>2. Joiner(r)' => before'[r] \in Server /\ before'[r] < r
    BY <1>1, <1>2 DEF Roles, Joined
  <2>3. ~Joiner(r)' => before'[r] = 0
    BY <1>1, <1>2 DEF Roles, Joined
  <2>4. proc'[r] \in {"reading", "copied"} => proc'[before'[r]] \in {"serving", "dead"}
    <3> SUFFICES ASSUME proc'[r] \in {"reading", "copied"} PROVE proc'[before'[r]] \in {"serving", "dead"}
      OBVIOUS
    <3>1. r # s /\ proc[r] \in {"reading", "copied"}
      BY <1>1
    <3>2. before[r] \in Server /\ proc[before[r]] \in {"serving", "dead"}
      BY <3>1 DEF Roles, Joined, Joiner
    <3>3. QED
      BY <1>1, <3>1, <3>2
  <2>5. proc'[r] \notin {"copied", "serving"} => log'[r] = <<>>
    BY <1>1 DEF Roles, Joined
  <2>6. QED
    BY <2>1, <2>2, <2>3, <2>4, <2>5
<1>6. Numbered'
  <2> SUFFICES ASSUME NEW a \in Server, proc'[a] = "absent"
               PROVE  /\ a \notin nodes' /\ a \notin heads' /\ a # 1
                      /\ \A x \in Server : ~Leads(x, a)' /\ before'[x] # a
                      /\ \A t \in Server : t > a => proc'[t] = "absent"
    BY DEF Numbered
  <2>1. proc[a] = "absent" /\ a \notin nodes
    BY <1>1 DEF Numbered
  <2>2. \A x \in Server : before'[x] # a
    BY <1>1, <2>1 DEF Numbered
  <2>3. \A t \in Server : t > a => proc'[t] = "absent"
    BY <1>1, <2>1 DEF Numbered
  <2>4. QED
    BY <1>1, <2>1, <2>2, <2>3 DEF Numbered
<1>7. Youngest'
  BY <1>1 DEF Youngest
<1>8. Onward' /\ Adjacent' /\ HeadFirst'
  BY <1>1 DEF Onward, Adjacent, HeadFirst
<1>9. NextTo'
  <2> SUFFICES ASSUME NEW r \in Server, NEW n \in nodes \cup heads, Joiner(r)', before'[r] < n
               PROVE  r <= n
    BY <1>1 DEF NextTo
  <2>1. CASE r # s
    BY <1>1, <1>2, <2>1 DEF NextTo
  <2>2. CASE r = s
    <3>1. n \in Server
      BY <1>3
    <3>2. n \in heads => n <= before'[s]
      BY <1>1 DEF HeadFirst
    <3>3. n \in nodes /\ ~(n < s)
      BY <1>1, <2>2, <3>1, <3>2, Numbers
    <3>4. QED
      BY <2>2, <3>1, <3>3, Numbers
  <2>3. QED
    BY <2>1, <2>2
<1>10. Over'
  <2> SUFFICES ASSUME NEW r \in Server, NEW x \in Server, NEW y \in Server,
                      Joiner(r)', Leads(x, y), x < before'[r], before'[r] < y
               PROVE  y >= r
    BY <1>1 DEF Over
  <2>1. CASE r # s
    BY <1>1, <1>2, <2>1 DEF Over
  <2>2. CASE r = s
    <3>1. y <= before'[s]
      BY <1>1, <2>2 DEF Adjacent
    <3>2. QED
      BY <1>1, <2>2, <3>1, Numbers
  <2>3. QED
    BY <2>1, <2>2
<1>11. Beside'
  <2> SUFFICES ASSUME NEW r \in Server, NEW x \in Server, NEW y \in Server,
                      Joiner(r)', Leads(x, y), before'[r] < x, x < r
               PROVE  y <= r
    BY <1>1 DEF Beside
  <2>1. CASE r # s
    BY <1>1, <1>2, <2>1 DEF Beside
  <2>2. CASE r = s
    BY <1>1, <2>2 DEF Adjacent
  <2>3. QED
    BY <2>1, <2>2
<1>12. LateBlank'
  <2> SUFFICES ASSUME NEW r \in Server, NEW t \in Server, Joiner(r)', t > r, proc'[t] \in {"copied", "serving"}
               PROVE  t \in blank
    BY <1>1 DEF LateBlank
  <2>1. proc[t] \in {"copied", "serving"}
    BY <1>1
  <2>2. r # s
    BY <1>1, <2>1 DEF Youngest
  <2>3. QED
    BY <1>2, <2>1, <2>2 DEF LateBlank
<1>13. QED
  BY <1>4, <1>5, <1>6, <1>7, <1>8, <1>9, <1>10, <1>11, <1>12 DEF Roles
-----------------------------------------------------------------------------
(* A server takes the table of a server that serves.                       *)
LEMMA CopyTakeEffect ==
    ASSUME TypeInv, Roles, NEW s \in Server, CopyTake(s)
    PROVE  /\ UNCHANGED <<nodes, heads, event, leaving, asked, acked, unsent, before, mutex, via, pc, from>>
           /\ \A x, y \in Server : Leads(x, y)' <=> Leads(x, y)
           /\ proc[s] = "reading" /\ proc'[s] = "copied"
           /\ before[s] \in Server /\ before[s] < s /\ proc[before[s]] = "serving"
           /\ log'[s] = log[before[s]] /\ before[s] \in Kept
           /\ \A r \in Server : r # s => proc'[r] = proc[r] /\ log'[r] = log[r]
           /\ blank' = IF before[s] \in blank THEN blank \cup {s} ELSE blank
<1> USE DEF TypeInv
<1>1. /\ UNCHANGED <<chain, asked, before, leaving, nextlink, handler, acked, unsent>>
      /\ proc[s] = "reading" /\ ~Dead(before[s])
      /\ blank' = IF before[s] \in blank THEN blank \cup {s} ELSE blank
  BY DEF CopyTake
<1>2. UNCHANGED <<nodes, heads, event, leaving, asked, acked, unsent, before, mutex, via, pc, from>>
  BY <1>1 DEF chain, handler
<1>3. \A x, y \in Server : Leads(x, y)' <=> Leads(x, y)
  BY <1>1 DEF nextlink, handler, Leads
<1>4. before[s] \in Server /\ before[s] < s /\ proc[before[s]] \in {"serving", "dead"} /\ s \in nodes
  BY <1>1 DEF Roles, Joined, Entering, Joiner
<1>5. proc[before[s]] = "serving"
  BY <1>1, <1>4, Numbers DEF Dead
<1>6. before[s] \in Kept
  BY <1>1, <1>4 DEF Kept, Copying
<1>7. /\ proc'[s] = "copied" /\ log'[s] = log[before[s]]
      /\ \A r \in Server : r # s => proc'[r] = proc[r] /\ log'[r] = log[r]
  BY DEF CopyTake, ServerData
<1>8. QED
  BY <1>1, <1>2, <1>3, <1>4, <1>5, <1>6, <1>7

LEMMA CopyTakeStructure == ASSUME TypeInv, Structure, NEW s \in Server, CopyTake(s) PROVE Structure'
<1> USE DEF TypeInv, Structure
<1>1. /\ UNCHANGED <<nodes, heads, event, leaving, asked, acked, unsent, before, mutex, via, pc, from>>
      /\ \A x, y \in Server : Leads(x, y)' <=> Leads(x, y)
      /\ proc[s] = "reading" /\ proc'[s] = "copied"
      /\ before[s] \in Server /\ before[s] < s /\ proc[before[s]] = "serving"
      /\ \A r \in Server : r # s => proc'[r] = proc[r] /\ log'[r] = log[r]
      /\ blank' = IF before[s] \in blank THEN blank \cup {s} ELSE blank
  BY CopyTakeEffect
<1>2. \A r \in Server : /\ Joiner(r)' <=> Joiner(r)
                        /\ Entering(r)' <=> Entering(r)
                        /\ Alive(r)' <=> Alive(r)
                        /\ proc'[r] = "absent" <=> proc[r] = "absent"
                        /\ proc'[r] = "serving" <=> proc[r] = "serving"
                        /\ proc'[r] = "dead" <=> proc[r] = "dead"
  BY <1>1 DEF Joiner, Entering, Alive
<1>3. Heard' /\ Leaves' /\ Backlog'
  BY <1>1, <1>2 DEF Roles, Heard, Leaves, Backlog
<1>4. Joined'
  <2> SUFFICES ASSUME NEW r \in Server
               PROVE  /\ Entering(r)' => r \in nodes'
                      /\ Joiner(r)' => before'[r] \in Server /\ before'[r] < r
                      /\ ~Joiner(r)' => before'[r] = 0
                      /\ proc'[r] \in {"reading", "copied"} => proc'[before'[r]] \in {"serving", "dead"}
                      /\ proc'[r] \notin {"copied", "serving"} => log'[r] = <<>>
    BY DEF Joined
  <2>1. /\ Entering(r)' => r \in nodes'
        /\ Joiner(r)' => before'[r] \in Server /\ before'[r] < r
        /\ ~Joiner(r)' => before'[r] = 0
    BY <1>1, <1>2 DEF Roles, Joined
  <2>2. proc'[r] \in {"reading", "copied"} => proc'[before'[r]] \in {"serving", "dead"}
    <3>1. CASE r = s
      BY <1>1, <1>2, <3>1
    <3>2. CASE r # s
      BY <1>1, <1>2, <3>2 DEF Roles, Joined, Joiner
    <3>3. QED
      BY <3>1, <3>2
  <2>3. proc'[r] \notin {"copied", "serving"} => log'[r] = <<>>
    BY <1>1 DEF Roles, Joined
  <2>4. QED
    BY <2>1, <2>2, <2>3
<1>5. Layout'
  BY <1>1, <1>2 DEF Layout, Numbered, Youngest, Onward, Adjacent, HeadFirst, NextTo, Over, Beside
<1>6. LateBlank'
  <2> SUFFICES ASSUME NEW r \in Server, NEW t \in Server,
                      Joiner(r)', t > r, proc'[t] \in {"copied", "serving"}
               PROVE  t \in blank'
    BY DEF LateBlank
  <2>1. CASE t # s
    BY <1>1, <1>2, <2>1 DEF LateBlank
  <2>2. CASE t = s
    <3>1. Joiner(r) /\ Joiner(s) /\ r \in nodes
      BY <1>1, <1>2 DEF Entering, Joiner, Roles, Joined
    <3>2. ~(before[s] < r)
      BY <2>2, <3>1, Numbers DEF Layout, NextTo
    <3>3. before[s] # r
      BY <1>1, <3>1 DEF Joiner
    <3>4. before[s] \in blank
      BY <1>1, <3>1, <3>2, <3>3, Numbers DEF LateBlank
    <3>5. QED
      BY <1>1, <2>2, <3>4
  <2>3. QED
    BY <2>1, <2>2
<1>7. QED
  BY <1>3, <1>4, <1>5, <1>6 DEF Roles
-----------------------------------------------------------------------------
(* The handlers change no more than their server's table and where writes  *)
(* are; links they only drop.                                              *)
Within ==
    /\ UNCHANGED <<nodes, heads, event, leaving, proc, before, blank>>
    /\ \A x, y \in Server : Leads(x, y)' => Leads(x, y)
    /\ \A r \in Server : proc[r] # "serving" =>
          log'[r] = log[r] /\ \A w \in Write : pc'[r][w] \in {pc[r][w], "received"}

LEMMA WithinStructure == ASSUME Structure, Within PROVE Structure'
<1> USE DEF Structure
<1>1. UNCHANGED <<nodes, heads, event, leaving, proc, before, blank>>
  BY DEF Within
<1>2. \A r \in Server : (Joiner(r)' <=> Joiner(r)) /\ (Entering(r)' <=> Entering(r)) /\ (Alive(r)' <=> Alive(r))
  BY <1>1 DEF Joiner, Entering, Alive
<1>3. Heard' /\ Leaves'
  BY <1>1, <1>2 DEF Roles, Heard, Leaves
<1>4. Joined'
  BY <1>1, <1>2 DEF Roles, Joined, Within
<1>5. Backlog'
  BY <1>1 DEF Roles, Backlog, Within
<1>6. Layout'
  BY <1>1, <1>2 DEF Layout, Numbered, Youngest, Onward, Adjacent, HeadFirst, NextTo, Over, Beside, Within
<1>7. LateBlank'
  BY <1>1, <1>2 DEF LateBlank
<1>8. QED
  BY <1>3, <1>4, <1>5, <1>6, <1>7 DEF Roles
-----------------------------------------------------------------------------
(* Where a table may come from, and what a link may pass over.             *)
LEMMA KeptServers ==
    ASSUME TypeInv, Structure
    PROVE  nodes \subseteq Server /\ nodes \subseteq Kept /\ Kept \subseteq Server
<1>1. nodes \subseteq Server
  BY DEF TypeInv, ChainData
<1>2. \A q \in nodes : Copying(q) => before[q] \in Server
  BY <1>1 DEF Structure, Roles, Joined, Copying, Joiner
<1>3. QED
  BY <1>1, <1>2 DEF Kept

LEMMA KeptGap ==
    ASSUME TypeInv, Structure, NEW r \in Server, Joiner(r), NEW t \in Kept, before[r] < t
    PROVE  t >= r
<1> USE DEF TypeInv, Structure
<1>1. r \in nodes /\ before[r] \in Server /\ nodes \subseteq Server
  BY DEF Roles, Joined, Entering, ChainData
<1>2. CASE t \in nodes
  BY <1>1, <1>2, Numbers DEF Layout, NextTo
<1>3. CASE t \notin nodes
  <2>1. PICK q \in nodes : Copying(q) /\ t = before[q]
    BY <1>3 DEF Kept
  <2>2. Joiner(q) /\ before[q] \in Server /\ before[q] < q /\ q \in Server
    BY <1>1, <2>1 DEF Copying, Joiner, Roles, Joined
  <2>3. q >= r
    BY <1>1, <2>1, <2>2, Numbers DEF Layout, NextTo
  <2>4. CASE t < r
    <3>1. q <= r
      BY <1>1, <2>1, <2>2, <2>4 DEF Layout, NextTo
    <3>2. q = r
      BY <2>2, <2>3, <3>1, Numbers
    <3>3. QED
      BY <1>1, <2>1, <3>2, Numbers
  <2>5. QED
    BY <1>1, <2>1, <2>2, <2>4, Numbers
<1>4. QED
  BY <1>2, <1>3

LEMMA KeptJump ==
    ASSUME TypeInv, Structure, NEW s \in Server, NEW y \in Server, Leads(s, y),
           NEW t \in Kept, s < t, t < y
    PROVE  Copying(y) /\ before[y] = t
<1> USE DEF TypeInv, Structure
<1>1. nodes \subseteq Server
  BY DEF ChainData
<1>2. t \notin nodes
  BY <1>1, Numbers DEF Layout, Adjacent
<1>3. PICK q \in nodes : Copying(q) /\ t = before[q]
  BY <1>2 DEF Kept
<1>4. Joiner(q) /\ before[q] \in Server /\ before[q] < q /\ q \in Server
  BY <1>1, <1>3 DEF Copying, Joiner, Roles, Joined
<1>5. y >= q
  BY <1>3, <1>4 DEF Layout, Over
<1>6. y <= q
  BY <1>3, <1>4, Numbers DEF Layout, Adjacent
<1>7. y = q
  BY <1>4, <1>5, <1>6, Numbers
<1>8. QED
  BY <1>3, <1>7
-----------------------------------------------------------------------------
(* Where the writes are.  A server that is upstream of another one had     *)
(* what the other one has got.                                             *)
Upstream(n, s) == Alive(n) /\ n < s /\ (n \in nodes \/ \E r \in Server : Joiner(r) /\ before[r] = n /\ s < r)
Passing == \A n, s \in Server, w \in Write : Upstream(n, s) /\ pc[s][w] # "none" => pc[n][w] # "none"
Logged  == \A s \in Server, w \in Write : pc[s][w] \in Section \cup {"released", "replied"} => Contains(log[s], w)
Asked   == \A s \in Server, w \in Write : Contains(log[s], w) => w <= asked
AtHead  == \A s \in Server, w \in Write : from[s][w] = 0 /\ pc[s][w] # "none" => s \in heads
Called  == \A s \in Server, w \in Write : pc[s][w] = "awaiting" => via[s] \in Server

(* A write that is passed on goes down server by server, each of them      *)
(* waiting for the next one, and for none that it has passed over.         *)
InTurn == \A x, y \in Server, w \in Write \ unsent :
    /\ x < y /\ pc[x][w] # "none" /\ pc[y][w] \in {"received", "applied", "awaiting"}
    => pc[x][w] = "awaiting"
Between == \A x, y \in Server, w \in Write :
    pc[x][w] = "awaiting" /\ x < y /\ y < via[x] => pc[y][w] = "none"
Travel  == Passing /\ Logged /\ Asked /\ AtHead /\ Called /\ InTurn /\ Between

(* A server is cast off: its links lead to servers that are out of the     *)
(* chain like itself, below r all of them.                                 *)
Off(x, r) ==
    /\ x < r /\ proc[r] # "absent"
    /\ \A y \in Server : x <= y /\ y < r => y \notin Kept /\ \A z \in Server : Leads(y, z) => z < r
CastOff(x) == \E r \in Server : Off(x, r)

(* A write that came with a copied table comes once more only while the    *)
(* server that the table was copied from keeps its mutex for that write,   *)
(* and so does not answer the one that copied: that one serves no write.   *)
Holds(u, w) == Dead(u) \/ pc[u][w] \in {"applied", "awaiting"}
Copied(t, w) == proc[t] = "copied" /\ Holds(before[t], w)
Overtaken == \A t \in Kept, x \in Server, w \in Write \ unsent :
    /\ Alive(t) /\ Contains(log[t], w) /\ pc[t][w] = "none"
    /\ x < t /\ pc[x][w] \in {"received", "applied"}
    => CastOff(x) \/ (Copied(t, w) /\ before[t] <= x)
Again == \A y \in Kept, w \in Write \ unsent :
    Alive(y) /\ pc[y][w] = "received" /\ Contains(log[y], w) => Copied(y, w)
Soon == \A y \in Server, w \in Write \ unsent :
    /\ Copying(y) /\ pc[y][w] = "received" /\ Alive(before[y]) /\ Contains(log[before[y]], w)
    => pc[before[y]][w] = "awaiting"
Repeats == Overtaken /\ Again /\ Soon

(* The tables that are kept: each write is in them once and in one order,  *)
(* and a server lacks nothing of those before it but what they still hold. *)
Once    == \A s \in Keepers, w \in Write \ unsent : ~Earlier(log[s], w, w)
Newest  == \A s \in Server : mutex[s] # 0 => Len(log[s]) # 0 /\ log[s][Len(log[s])] = mutex[s]
Ordered == \A s, t \in Keepers : s < t => Agree(log[s], log[t])
InHand  == \A s, t \in Keepers, w \in Write \ unsent :
    s < t /\ Contains(log[s], w) /\ ~Contains(log[t], w) => mutex[s] = w
Covered(s, w) == \A t \in Keepers : t >= s => Contains(log[t], w)
Reached == \A s \in Server, w \in Write \ unsent :
    pc[s][w] \in {"astray", "released", "replied"} => Covered(s, w)
AckKept == \A w \in acked \ unsent, t \in Keepers : Contains(log[t], w)
Tables  == Once /\ Newest /\ Ordered /\ InHand /\ Reached /\ AckKept

ChainInv == TypeInv /\ Structure /\ Travel /\ Repeats /\ Tables
-----------------------------------------------------------------------------
(* Sequences of writes.                                                    *)
LEMMA Appended ==
    ASSUME NEW l \in Seq(Write), NEW w \in Write
    PROVE  /\ \A v \in Write : Contains(Append(l, w), v) <=> Contains(l, v) \/ v = w
           /\ \A u, v \in Write : Earlier(Append(l, w), u, v) <=> Earlier(l, u, v) \/ (v = w /\ Contains(l, u))
           /\ Len(Append(l, w)) # 0 /\ Append(l, w)[Len(Append(l, w))] = w
<1>1. /\ Len(l) \in Nat /\ Len(Append(l, w)) = Len(l) + 1
      /\ \A i \in 1 .. Len(l) : Append(l, w)[i] = l[i]
      /\ Append(l, w)[Len(l) + 1] = w
  OBVIOUS
<1>2. \A i : i \in 1 .. Len(Append(l, w)) <=> i \in 1 .. Len(l) \/ i = Len(l) + 1
  BY <1>1
<1>3. \A v \in Write : Contains(Append(l, w), v) <=> Contains(l, v) \/ v = w
  BY <1>1, <1>2 DEF Contains
<1>4. ASSUME NEW u \in Write, NEW v \in Write, Earlier(Append(l, w), u, v)
      PROVE  Earlier(l, u, v) \/ (v = w /\ Contains(l, u))
  <2>1. PICK i, j \in 1 .. Len(Append(l, w)) : i < j /\ Append(l, w)[i] = u /\ Append(l, w)[j] = v
    BY <1>4 DEF Earlier
  <2>2. i \in 1 .. Len(l) /\ l[i] = u
    BY <1>1, <1>2, <2>1
  <2>3. CASE j \in 1 .. Len(l)
    BY <1>1, <2>1, <2>2, <2>3 DEF Earlier
  <2>4. CASE j = Len(l) + 1
    BY <1>1, <2>1, <2>2, <2>4 DEF Contains
  <2>5. QED
    BY <1>2, <2>1, <2>3, <2>4
<1>5. ASSUME NEW u \in Write, NEW v \in Write, Earlier(l, u, v) PROVE Earlier(Append(l, w), u, v)
  BY <1>1, <1>2, <1>5 DEF Earlier
<1>6. ASSUME NEW u \in Write, Contains(l, u) PROVE Earlier(Append(l, w), u, w)
  <2>1. PICK i \in 1 .. Len(l) : l[i] = u
    BY <1>6 DEF Contains
  <2>2. i < Len(l) + 1 /\ Append(l, w)[i] = u
    BY <1>1, <2>1
  <2>3. QED
    BY <1>1, <1>2, <2>1, <2>2 DEF Earlier
<1>7. QED
  BY <1>1, <1>3, <1>4, <1>5, <1>6

LEMMA EmptyTable == \A v, w \in Write : ~Contains(<<>>, v) /\ ~Earlier(<<>>, v, w)
BY DEF Contains, Earlier

LEMMA EarlierContains ==
    ASSUME NEW l \in Seq(Write), NEW v \in Write, NEW w \in Write
    PROVE  /\ Earlier(l, v, w) => Contains(l, v) /\ Contains(l, w)
           /\ Len(l) # 0 /\ l[Len(l)] = w /\ Contains(l, v) /\ v # w => Earlier(l, v, w)
<1>1. Earlier(l, v, w) => Contains(l, v) /\ Contains(l, w)
  BY DEF Earlier, Contains
<1>2. ASSUME Len(l) # 0, l[Len(l)] = w, Contains(l, v), v # w PROVE Earlier(l, v, w)
  <2>1. PICK i \in 1 .. Len(l) : l[i] = v
    BY <1>2 DEF Contains
  <2>2. i < Len(l) /\ Len(l) \in 1 .. Len(l)
    BY <1>2, <2>1
  <2>3. QED
    BY <1>2, <2>1, <2>2 DEF Earlier
<1>3. QED
  BY <1>1, <1>2
-----------------------------------------------------------------------------
(* A server that is cast off stays so: it hears no more of the chain.      *)
LEMMA CastOffStays ==
    ASSUME Kept' \subseteq Kept, nodes \subseteq Kept,
           \A x, y \in Server : Leads(x, y)' => Leads(x, y) \/ x \in nodes,
           \A r \in Server : proc[r] # "absent" => proc'[r] # "absent",
           NEW x \in Server, CastOff(x)
    PROVE  CastOff(x)'
<1>1. PICK r \in Server : Off(x, r)
  BY DEF CastOff
<1>2. /\ x < r /\ proc[r] # "absent"
      /\ \A y \in Server : x <= y /\ y < r => y \notin Kept /\ \A z \in Server : Leads(y, z) => z < r
  BY <1>1 DEF Off
<1>3. ASSUME NEW y \in Server, x <= y, y < r
      PROVE  y \notin Kept' /\ \A z \in Server : Leads(y, z)' => z < r
  BY <1>2, <1>3
<1>4. Off(x, r)'
  BY <1>2, <1>3 DEF Off
<1>5. QED
  BY <1>4 DEF CastOff

(* What a step that only takes away leaves of a server.                    *)
LEMMA WanesServer ==
    ASSUME Wanes, NEW r \in Server
    PROVE  /\ Alive(r)' => Alive(r)
           /\ Joiner(r)' => Joiner(r) /\ before'[r] = before[r]
           /\ Copying(r)' => Copying(r)
           /\ \A w \in Write : pc'[r][w] = pc[r][w] \/ (pc'[r][w] = "none" /\ ~Alive(r)')
           /\ Alive(r)' => pc'[r] = pc[r] /\ via'[r] = via[r] /\ mutex'[r] = mutex[r]
           /\ log'[r] = log[r] \/ log'[r] = <<>>
           /\ mutex'[r] = mutex[r] \/ mutex'[r] = 0
<1>1. Ends(r) \/ Goes(r)
  BY DEF Wanes
<1>2. CASE Ends(r)
  BY <1>2 DEF Ends, Alive, Joiner, Copying
<1>3. CASE Goes(r)
  <2>1. Same(r) \/ Serves(r) \/ Asks(r)
    BY <1>3 DEF Goes
  <2>2. /\ Alive(r)' => Alive(r)
        /\ Joiner(r)' => Joiner(r) /\ before'[r] = before[r]
        /\ Copying(r)' => Copying(r)
        /\ log'[r] = log[r] \/ log'[r] = <<>>
    BY <2>1 DEF Same, Serves, Asks, Entering, Alive, Joiner, Copying
  <2>3. QED
    BY <1>3, <2>2 DEF Goes
<1>4. QED
  BY <1>1, <1>2, <1>3

LEMMA WanesKept ==
    ASSUME TypeInv, Structure, Wanes
    PROVE  Kept' \subseteq Kept /\ Keepers' \subseteq Keepers
<1>1. nodes' \subseteq nodes /\ nodes' \subseteq Server
  BY KeptServers DEF Wanes
<1>2. \A q \in nodes' : Copying(q)' => Copying(q) /\ before'[q] = before[q]
  BY <1>1, WanesServer DEF Copying, Joiner
<1>3. Kept' \subseteq Kept
  BY <1>1, <1>2 DEF Kept
<1>4. \A t \in Server : proc'[t] \in {"copied", "serving"} /\ t \notin blank' =>
                         proc[t] \in {"copied", "serving"} /\ t \notin blank
  BY DEF Wanes, Ends, Goes, Same, Serves, Asks
<1>5. Kept \subseteq Server
  BY KeptServers
<1>6. QED
  BY <1>3, <1>4, <1>5 DEF Keepers

LEMMA WanesTravel == ASSUME TypeInv, Roles, Travel, Wanes PROVE Travel'
<1> USE DEF TypeInv, Travel
<1>1. Passing'
  <2> SUFFICES ASSUME NEW n \in Server, NEW s \in Server, NEW w \in Write, Upstream(n, s)', pc'[s][w] # "none"
               PROVE  pc'[n][w] # "none"
    BY DEF Passing
  <2>1. Alive(n)' /\ Alive(n) /\ pc'[n] = pc[n]
    BY WanesServer DEF Upstream
  <2>2. Upstream(n, s)
    BY <2>1, WanesServer DEF Upstream, Wanes
  <2>3. pc[s][w] # "none"
    BY WanesServer
  <2>4. QED
    BY <2>1, <2>2, <2>3 DEF Passing
<1>2. Logged'
  <2> SUFFICES ASSUME NEW s \in Server, NEW w \in Write, pc'[s][w] \in Section \cup {"released", "replied"}
               PROVE  Contains(log'[s], w)
    BY DEF Logged
  <2>1. pc[s][w] = pc'[s][w] /\ pc[s][w] \notin {"none", "received"}
    BY WanesServer DEF Section
  <2>2. proc[s] = "serving" /\ Contains(log[s], w)
    BY <2>1 DEF Logged, Roles, Backlog
  <2>3. ~Ends(s) /\ ~Serves(s)
    BY <2>1, <2>2 DEF Ends, Serves, Entering, Joiner
  <2>4. log'[s] = log[s]
    BY <2>3 DEF Wanes, Goes, Same, Asks
  <2>5. QED
    BY <2>2, <2>4
<1>3. Asked'
  <2> SUFFICES ASSUME NEW s \in Server, NEW w \in Write, Contains(log'[s], w) PROVE w <= asked'
    BY DEF Asked
  <2>1. log'[s] = log[s] /\ asked' = asked
    BY WanesServer, EmptyTable DEF Wanes
  <2>2. QED
    BY <2>1 DEF Asked
<1>4. AtHead'
  <2> SUFFICES ASSUME NEW s \in Server, NEW w \in Write, from'[s][w] = 0, pc'[s][w] # "none" PROVE s \in heads'
    BY DEF AtHead
  <2>1. ~Ends(s)
    BY DEF Ends
  <2>2. from'[s] = from[s] /\ pc'[s] = pc[s]
    BY <2>1 DEF Wanes, Goes
  <2>3. QED
    BY <2>2 DEF AtHead, Wanes
<1>5. Called'
  <2> SUFFICES ASSUME NEW s \in Server, NEW w \in Write, pc'[s][w] = "awaiting" PROVE via'[s] \in Server
    BY DEF Called
  <2>1. ~Ends(s)
    BY DEF Ends
  <2>2. via'[s] = via[s] /\ pc'[s] = pc[s]
    BY <2>1 DEF Wanes, Goes
  <2>3. QED
    BY <2>2 DEF Called
<1>6. \A r \in Server, w \in Write : pc'[r][w] # "none" => pc'[r][w] = pc[r][w]
  BY WanesServer
<1>7. InTurn'
  <2>1. unsent' = unsent
    BY DEF Wanes
  <2>2. QED
    BY <1>6, <2>1 DEF InTurn
<1>8. Between'
  <2> SUFFICES ASSUME NEW x \in Server, NEW y \in Server, NEW w \in Write,
                      pc'[x][w] = "awaiting", x < y, y < via'[x]
               PROVE  pc'[y][w] = "none"
    BY DEF Between
  <2>1. ~Ends(x)
    BY DEF Ends
  <2>2. via'[x] = via[x] /\ pc'[x] = pc[x]
    BY <2>1 DEF Wanes, Goes
  <2>3. pc[y][w] = "none"
    BY <2>2 DEF Between
  <2>4. QED
    BY <1>6, <2>3
<1>9. QED
  BY <1>1, <1>2, <1>3, <1>4, <1>5, <1>7, <1>8

(* A server that has copied is not answered, nor forgotten, while the one  *)
(* that it copied from holds the write.                                    *)
LEMMA WanesCopied ==
    ASSUME TypeInv, Structure, Wanes, NEW t \in Server, NEW w \in Write, Copied(t, w),
           Alive(t)', Contains(log'[t], w)
    PROVE  Copied(t, w)' /\ before'[t] = before[t]
<1> USE DEF TypeInv
<1>1. proc[t] = "copied" /\ Holds(before[t], w)
  BY DEF Copied
<1>2. PICK u \in Server : u = before[t] /\ u # 0 /\ proc[u] \in {"serving", "dead"}
  BY <1>1, Numbers DEF Structure, Roles, Joined, Joiner
<1>3. pc[u][w] \in {"applied", "awaiting"} => mutex[u] # 0
  BY <1>2, Numbers DEF Handlers, Owned, Section
<1>4. ~Ends(t) /\ ~Serves(t)
  BY <1>1, <1>2, <1>3, EmptyTable DEF Ends, Serves, Alive, Holds
<1>5. Same(t)
  BY <1>1, <1>4 DEF Wanes, Goes, Asks
<1>6. Holds(u, w)'
  <2>1. CASE Alive(u)'
    <3>1. Alive(u) /\ pc'[u] = pc[u]
      BY <2>1, WanesServer
    <3>2. QED
      BY <1>1, <1>2, <3>1 DEF Holds, Dead, Alive
  <2>2. CASE ~Alive(u)'
    <3>1. proc'[u] # "absent"
      BY <1>2 DEF Wanes, Ends, Goes, Same, Serves, Asks
    <3>2. QED
      BY <1>2, <2>2, <3>1 DEF Holds, Dead, Alive
  <2>3. QED
    BY <2>1, <2>2
<1>7. QED
  BY <1>1, <1>2, <1>5, <1>6 DEF Same, Copied

LEMMA WanesRepeats ==
    ASSUME TypeInv, Structure, Repeats, Wanes, Kept' \subseteq Kept
    PROVE  Repeats'
<1> USE DEF TypeInv, Repeats
<1>1. ASSUME NEW x \in Server, CastOff(x) PROVE CastOff(x)'
  <2>1. \A r \in Server : proc[r] # "absent" => proc'[r] # "absent"
    BY DEF Wanes, Ends, Goes, Same, Serves, Asks
  <2>2. \A a, b \in Server : Leads(a, b)' => Leads(a, b) \/ a \in nodes
    BY DEF Wanes, Follows
  <2>3. nodes \subseteq Kept
    BY DEF Kept
  <2>4. QED
    BY <1>1, <2>1, <2>2, <2>3, CastOffStays
<1>2. unsent' = unsent
  BY DEF Wanes
<1>3. Overtaken'
  <2> SUFFICES ASSUME NEW t \in Kept', NEW x \in Server, NEW w \in Write \ unsent,
                      Alive(t)', Contains(log'[t], w), pc'[t][w] = "none",
                      x < t, pc'[x][w] \in {"received", "applied"}
               PROVE  CastOff(x)' \/ (Copied(t, w)' /\ before'[t] <= x)
    BY <1>2 DEF Overtaken
  <2>1. t \in Server /\ t \in Kept
    BY KeptServers
  <2>2. Alive(t) /\ pc'[t] = pc[t] /\ log'[t] = log[t]
    BY <2>1, WanesServer, EmptyTable
  <2>3. pc'[x][w] = pc[x][w]
    BY WanesServer
  <2>4. CASE CastOff(x)
    BY <1>1, <2>4
  <2>5. CASE Copied(t, w) /\ before[t] <= x
    BY <2>1, <2>5, WanesCopied
  <2>6. QED
    BY <2>1, <2>2, <2>3, <2>4, <2>5 DEF Overtaken
<1>4. Again'
  <2> SUFFICES ASSUME NEW y \in Kept', NEW w \in Write \ unsent,
                      Alive(y)', pc'[y][w] = "received", Contains(log'[y], w)
               PROVE  Copied(y, w)'
    BY <1>2 DEF Again
  <2>1. y \in Server /\ y \in Kept
    BY KeptServers
  <2>2. Alive(y) /\ pc[y][w] = "received" /\ log'[y] = log[y]
    BY <2>1, WanesServer, EmptyTable
  <2>3. Copied(y, w)
    BY <2>1, <2>2 DEF Again
  <2>4. QED
    BY <2>1, <2>3, WanesCopied
<1>5. Soon'
  <2> SUFFICES ASSUME NEW y \in Server, NEW w \in Write \ unsent, Copying(y)', pc'[y][w] = "received",
                      Alive(before[y])', Contains(log'[before'[y]], w)
               PROVE  pc'[before'[y]][w] = "awaiting"
    BY <1>2 DEF Soon
  <2>1. Copying(y) /\ Joiner(y) /\ before'[y] = before[y]
    BY WanesServer DEF Copying, Joiner
  <2>2. PICK u \in Server : u = before[y]
    BY <2>1 DEF Structure, Roles, Joined
  <2>3. Alive(u)' /\ Contains(log'[u], w)
    BY <2>1, <2>2 DEF Alive
  <2>4. Alive(u) /\ pc'[u] = pc[u] /\ log'[u] = log[u]
    BY <2>3, WanesServer, EmptyTable
  <2>5. pc[y][w] = "received"
    BY WanesServer
  <2>6. QED
    BY <2>1, <2>2, <2>3, <2>4, <2>5 DEF Soon, Alive
<1>6. QED
  BY <1>3, <1>4, <1>5

LEMMA WanesTables ==
    ASSUME TypeInv, Structure, Tables, Wanes, Kept' \subseteq Kept, Keepers' \subseteq Keepers
    PROVE  Tables'
<1> USE DEF TypeInv, Tables
<1>1. Kept \subseteq Server
  BY KeptServers
<1>2. \A t \in Keepers' : t \in Server /\ t \in Keepers /\ t \in Kept
  BY <1>1 DEF Keepers
<1>3. \A t \in Keepers' : log'[t] = log[t]
  <2> SUFFICES ASSUME NEW t \in Keepers' PROVE log'[t] = log[t]
    OBVIOUS
  <2>1. t \in Server /\ proc'[t] \in {"copied", "serving"} /\ t \notin blank'
    BY <1>2 DEF Keepers
  <2>2. QED
    BY <2>1 DEF Wanes, Ends, Goes, Same, Serves, Asks
<1>4. unsent' = unsent /\ acked' = acked
  BY DEF Wanes
<1>5. Once'
  BY <1>2, <1>3, <1>4 DEF Once
<1>6. Newest'
  <2> SUFFICES ASSUME NEW s \in Server, mutex'[s] # 0
               PROVE  Len(log'[s]) # 0 /\ log'[s][Len(log'[s])] = mutex'[s]
    BY DEF Newest
  <2>1. ~Ends(s) /\ mutex'[s] = mutex[s]
    BY DEF Ends, Wanes, Goes
  <2>2. mutex[s] \in Write /\ pc[s][mutex[s]] \in Section
    BY <2>1 DEF ServerData, Handlers, Owned
  <2>3. proc[s] = "serving"
    BY <2>2 DEF Structure, Roles, Backlog, Section
  <2>4. log'[s] = log[s]
    BY <2>1, <2>3 DEF Wanes, Goes, Same, Serves, Asks, Entering, Joiner
  <2>5. QED
    BY <2>1, <2>4 DEF Newest
<1>7. Ordered'
  BY <1>2, <1>3, <1>4 DEF Ordered, Agree
<1>8. InHand'
  <2> SUFFICES ASSUME NEW s \in Keepers', NEW t \in Keepers', NEW w \in Write \ unsent',
                      s < t, Contains(log'[s], w), ~Contains(log'[t], w)
               PROVE  mutex'[s] = w
    BY DEF InHand
  <2>1. mutex[s] = w
    BY <1>2, <1>3, <1>4 DEF InHand
  <2>2. proc'[s] # "dead" /\ s \in Server
    BY <1>2 DEF Keepers
  <2>3. QED
    BY <2>1, <2>2 DEF Wanes, Ends, Goes
<1>9. Reached'
  <2> SUFFICES ASSUME NEW s \in Server, NEW w \in Write \ unsent', pc'[s][w] \in {"astray", "released", "replied"},
                      NEW t \in Keepers', t >= s
               PROVE  Contains(log'[t], w)
    BY DEF Reached, Covered
  <2>1. pc[s][w] \in {"astray", "released", "replied"}
    BY WanesServer
  <2>2. QED
    BY <1>2, <1>3, <1>4, <2>1 DEF Reached, Covered
<1>10. AckKept'
  BY <1>2, <1>3, <1>4 DEF AckKept
<1>11. QED
  BY <1>5, <1>6, <1>7, <1>8, <1>9, <1>10

LEMMA WanesKeeps == ASSUME ChainInv, TypeInv', Wanes PROVE ChainInv'
<1>1. Structure'
  BY WanesRoles, WanesLayout, WanesLateBlank DEF ChainInv, Structure
<1>2. Travel'
  BY WanesTravel DEF ChainInv, Structure
<1>3. Repeats' /\ Tables'
  BY WanesKept, WanesRepeats, WanesTables DEF ChainInv
<1>4. QED
  BY <1>1, <1>2, <1>3 DEF ChainInv
-----------------------------------------------------------------------------
(* A new server has no write.                                              *)
LEMMA RegisterKept ==
    ASSUME TypeInv, Structure, NEW s \in Server, Register(s)
    PROVE  /\ log[s] = <<>> /\ \A w \in Write : pc[s][w] = "none"
           /\ Kept' \subseteq Kept \cup {s} /\ Keepers' \subseteq Keepers
           /\ \A r \in Server : Alive(r)' /\ r # s => Alive(r)
           /\ \A r \in Server : (Copying(r)' <=> Copying(r)) /\ (Joiner(r)' <=> Joiner(r))
<1> USE DEF Structure
<1>1. /\ proc[s] = "absent" /\ proc'[s] = "registered" /\ UNCHANGED <<before, blank>>
      /\ nodes' = nodes \cup {s} /\ \A r \in Server : r # s => proc'[r] = proc[r]
  BY RegisterEffect
<1>2. log[s] = <<>> /\ \A w \in Write : pc[s][w] = "none"
  BY <1>1 DEF Roles, Joined, TypeInv, Handlers, Living, Alive
<1>3. \A r \in Server : /\ Copying(r)' <=> Copying(r)
                        /\ Joiner(r)' <=> Joiner(r)
                        /\ r # s => (Alive(r)' <=> Alive(r))
  BY <1>1 DEF Copying, Joiner, Alive
<1>4. nodes \subseteq Server /\ Kept \subseteq Server
  BY KeptServers
<1>5. Kept' \subseteq Kept \cup {s}
  BY <1>1, <1>3, <1>4 DEF Kept, Copying
<1>6. Keepers' \subseteq Keepers
  BY <1>1, <1>4, <1>5 DEF Keepers
<1>7. QED
  BY <1>2, <1>3, <1>5, <1>6

LEMMA RegisterTravel ==
    ASSUME TypeInv, Structure, Travel, NEW s \in Server, Register(s)
    PROVE  Travel'
<1> USE DEF Travel
<1>1. /\ UNCHANGED <<asked, before, log, unsent, via, pc, from>> /\ heads \subseteq heads'
      /\ nodes' = nodes \cup {s}
      /\ \A r \in Server : proc[r] # "absent" => r < s
  BY RegisterEffect DEF Structure
<1>2. Logged' /\ Asked' /\ AtHead' /\ Called' /\ InTurn' /\ Between'
  BY <1>1 DEF Logged, Asked, AtHead, Called, InTurn, Between
<1>3. Passing'
  <2> SUFFICES ASSUME NEW n \in Server, NEW t \in Server, NEW w \in Write, Upstream(n, t)', pc[t][w] # "none"
               PROVE  pc[n][w] # "none"
    BY <1>1 DEF Passing
  <2>1. Alive(t) /\ t < s /\ n < t /\ n # s
    BY <1>1, Numbers DEF TypeInv, Handlers, Living, Alive, Upstream
  <2>2. Upstream(n, t)
    BY <1>1, <2>1, RegisterKept DEF Upstream
  <2>3. QED
    BY <2>2 DEF Passing
<1>4. QED
  BY <1>2, <1>3

LEMMA RegisterRepeats ==
    ASSUME TypeInv, Structure, Repeats, NEW s \in Server, Register(s)
    PROVE  Repeats'
<1> USE DEF Repeats
<1>1. /\ UNCHANGED <<before, log, unsent, pc>>
      /\ \A x, y \in Server : Leads(x, y)' <=> Leads(x, y)
      /\ \A r \in Server : r # s => proc'[r] = proc[r]
      /\ proc[s] = "absent" /\ proc'[s] = "registered" /\ \A r \in Server : proc[r] # "absent" => r < s
  BY RegisterEffect DEF Structure
<1>2. /\ log[s] = <<>> /\ Kept' \subseteq Kept \cup {s} /\ Kept \subseteq Server
      /\ \A r \in Server : Alive(r)' /\ r # s => Alive(r)
      /\ \A r \in Server : Copying(r)' <=> Copying(r)
  BY RegisterKept, KeptServers
<1>3. ASSUME NEW x \in Server, CastOff(x) PROVE CastOff(x)'
  <2>1. PICK r \in Server : Off(x, r)
    BY <1>3 DEF CastOff
  <2>2. r < s
    BY <1>1, <2>1 DEF Off
  <2>3. \A y \in Server : y < r => y # s
    BY <2>2, Numbers
  <2>4. Off(x, r)'
    BY <1>1, <1>2, <2>1, <2>2, <2>3, Numbers DEF Off
  <2>5. QED
    BY <2>4 DEF CastOff
<1>4. \A t \in Kept', w \in Write : Contains(log'[t], w) => t # s /\ t \in Kept /\ t \in Server
  BY <1>1, <1>2, EmptyTable
<1>5. \A t \in Server, w \in Write : Copied(t, w) => Copied(t, w)'
  <2> SUFFICES ASSUME NEW t \in Server, NEW w \in Write, Copied(t, w) PROVE Copied(t, w)'
    OBVIOUS
  <2>1. proc[t] = "copied" /\ Holds(before[t], w)
    BY DEF Copied
  <2>2. before[t] \in Server
    BY <2>1 DEF Structure, Roles, Joined, Joiner
  <2>3. QED
    BY <1>1, <2>1, <2>2 DEF Copied, Holds, Dead
<1>6. Overtaken' /\ Again'
  BY <1>1, <1>2, <1>3, <1>4, <1>5 DEF Overtaken, Again
<1>7. Soon'
  <2> SUFFICES ASSUME NEW y \in Server, NEW w \in Write \ unsent, Copying(y), pc[y][w] = "received",
                      Alive(before[y])', Contains(log[before[y]], w)
               PROVE  pc[before[y]][w] = "awaiting"
    BY <1>1, <1>2 DEF Soon
  <2>1. before[y] \in Server
    BY DEF Structure, Roles, Joined, Joiner, Copying
  <2>2. before[y] # s
    BY <1>2, EmptyTable
  <2>3. Alive(before[y])
    BY <1>1, <2>1, <2>2 DEF Alive
  <2>4. QED
    BY <2>3 DEF Soon
<1>8. QED
  BY <1>6, <1>7

LEMMA RegisterTables ==
    ASSUME TypeInv, Structure, Tables, NEW s \in Server, Register(s)
    PROVE  Tables'
<1> USE DEF Tables
<1>1. UNCHANGED <<log, pc, mutex, acked, unsent>>
  BY RegisterEffect DEF Structure
<1>2. Keepers' \subseteq Keepers
  BY RegisterKept
<1>3. Once' /\ Newest' /\ InHand' /\ AckKept'
  BY <1>1, <1>2 DEF Once, Newest, InHand, AckKept
<1>4. Ordered'
  BY <1>1, <1>2 DEF Ordered, Agree
<1>5. Reached'
  BY <1>1, <1>2 DEF Reached, Covered
<1>6. QED
  BY <1>3, <1>4, <1>5

LEMMA RegisterKeepsChain ==
    ASSUME ChainInv, TypeInv', NEW s \in Server, Register(s)
    PROVE  ChainInv'
BY RegisterStructure, RegisterTravel, RegisterRepeats, RegisterTables DEF ChainInv
-----------------------------------------------------------------------------
(* Nor has it one that the server before it has not, when it has chosen    *)
(* that one.                                                               *)
LEMMA ListKeepsChain ==
    ASSUME ChainInv, TypeInv', NEW s \in Server, ListChain(s), proc'[s] # "serving"
    PROVE  ChainInv'
<1> USE DEF ChainInv
<1> DEFINE u == before'[s]
<1>1. /\ UNCHANGED <<nodes, heads, log, asked, acked, unsent, blank, mutex, via, pc, from>>
      /\ \A x, y \in Server : Leads(x, y)' <=> Leads(x, y)
      /\ proc[s] = "registered" /\ proc'[s] = "listed" /\ s \in nodes
      /\ u \in Server /\ u \in nodes /\ u < s
      /\ \A r \in Server : r # s => proc'[r] = proc[r] /\ before'[r] = before[r]
  BY ListEffect DEF Structure
<1>2. before'[s] = u
  OBVIOUS
<1> HIDE DEF u
<1>3. \A r \in Server : /\ Alive(r)' <=> Alive(r)
                        /\ r # s => (Joiner(r)' <=> Joiner(r)) /\ (Copying(r)' <=> Copying(r))
  BY <1>1 DEF Alive, Joiner, Copying
<1>4. nodes \subseteq Server /\ nodes \subseteq Kept /\ Kept \subseteq Server
  BY KeptServers
<1>5. Kept' \subseteq Kept
  <2> SUFFICES ASSUME NEW k \in Kept', k \notin nodes PROVE k \in Kept
    BY <1>4
  <2>1. PICK q \in nodes : Copying(q)' /\ k = before'[q]
    BY <1>1 DEF Kept
  <2>2. q # s
    BY <1>1, <1>2, <2>1
  <2>3. QED
    BY <1>1, <1>3, <1>4, <2>1, <2>2 DEF Kept
<1>6. Keepers' \subseteq Keepers
  BY <1>1, <1>4, <1>5 DEF Keepers
<1>7. Structure'
  BY ListStructure
<1>8. Travel'
  <2>1. \A n, t \in Server : Upstream(n, t)' => Upstream(n, t)
    BY <1>1, <1>2, <1>3 DEF Upstream
  <2>2. QED
    BY <1>1, <2>1 DEF Travel, Passing, Logged, Asked, AtHead, Called, InTurn, Between
<1>9. \A x \in Server : CastOff(x) => CastOff(x)'
  <2>1. \A r \in Server : proc[r] # "absent" => proc'[r] # "absent"
    BY <1>1
  <2>2. QED
    BY <1>1, <1>4, <1>5, <2>1, CastOffStays
<1>10. \A t \in Server, w \in Write : Copied(t, w) => Copied(t, w)' /\ before'[t] = before[t]
  <2> SUFFICES ASSUME NEW t \in Server, NEW w \in Write, Copied(t, w)
               PROVE  Copied(t, w)' /\ before'[t] = before[t]
    OBVIOUS
  <2>1. proc[t] = "copied" /\ Holds(before[t], w)
    BY DEF Copied
  <2>2. before[t] \in Server
    BY <2>1 DEF Structure, Roles, Joined, Joiner
  <2>3. QED
    BY <1>1, <2>1, <2>2 DEF Copied, Holds, Dead
<1>11. Overtaken' /\ Again'
  BY <1>1, <1>3, <1>4, <1>5, <1>9, <1>10 DEF Repeats, Overtaken, Again
<1>12. Soon'
  <2> SUFFICES ASSUME NEW y \in Server, NEW w \in Write \ unsent, Copying(y)', pc[y][w] = "received",
                      Alive(before[y])', Contains(log[before'[y]], w)
               PROVE  pc[before'[y]][w] = "awaiting"
    BY <1>1 DEF Soon
  <2>1. CASE y = s
    <3>1. Upstream(u, s)
      BY <1>1, <1>2, <1>3, <2>1 DEF Upstream, Alive
    <3>2. pc[u][w] # "none"
      BY <1>1, <2>1, <3>1 DEF Travel, Passing
    <3>3. QED
      BY <1>1, <1>2, <2>1, <3>2 DEF Travel, InTurn
  <2>2. CASE y # s
    <3>1. Copying(y) /\ before'[y] = before[y] /\ before[y] \in Server
      BY <1>1, <1>3, <2>2 DEF Structure, Roles, Joined, Joiner, Copying
    <3>2. Alive(before[y])
      BY <1>3, <3>1 DEF Alive
    <3>3. QED
      BY <3>1, <3>2 DEF Repeats, Soon
  <2>3. QED
    BY <2>1, <2>2
<1>13. Tables'
  <2>1. Once' /\ Newest' /\ InHand' /\ AckKept'
    BY <1>1, <1>6 DEF Tables, Once, Newest, InHand, AckKept
  <2>2. Ordered' /\ Reached'
    BY <1>1, <1>6 DEF Tables, Ordered, Agree, Reached, Covered
  <2>3. QED
    BY <2>1, <2>2 DEF Tables
<1>14. QED
  BY <1>7, <1>8, <1>11, <1>12, <1>13 DEF Repeats
-----------------------------------------------------------------------------
(* A server takes the table of the one before it.                          *)
LEMMA CopyTakeKept ==
    ASSUME TypeInv, Structure, NEW s \in Server, CopyTake(s)
    PROVE  /\ Kept' \subseteq Kept
           /\ \A t \in Keepers' : t = s \/ t \in Keepers
           /\ s \in Keepers' => before[s] \in Keepers
           /\ \A r \in Server : (Joiner(r)' <=> Joiner(r)) /\ (Alive(r)' <=> Alive(r)) /\ (Copying(r)' => Copying(r))
<1>1. /\ UNCHANGED <<nodes, before>>
      /\ proc[s] = "reading" /\ proc'[s] = "copied" /\ before[s] \in Kept /\ proc[before[s]] = "serving"
      /\ \A r \in Server : r # s => proc'[r] = proc[r]
      /\ blank' = IF before[s] \in blank THEN blank \cup {s} ELSE blank
  BY CopyTakeEffect DEF Structure
<1>2. \A r \in Server : (Joiner(r)' <=> Joiner(r)) /\ (Alive(r)' <=> Alive(r)) /\ (Copying(r)' => Copying(r))
  BY <1>1 DEF Joiner, Alive, Copying
<1>3. nodes \subseteq Server /\ Kept \subseteq Server
  BY KeptServers
<1>4. Kept' \subseteq Kept
  BY <1>1, <1>2, <1>3 DEF Kept
<1>5. \A t \in Keepers' : t = s \/ t \in Keepers
  BY <1>1, <1>3, <1>4 DEF Keepers
<1>6. s \in Keepers' => before[s] \in Keepers
  BY <1>1 DEF Keepers
<1>7. QED
  BY <1>2, <1>4, <1>5, <1>6

LEMMA CopyTakeTravel ==
    ASSUME TypeInv, Structure, Travel, NEW s \in Server, CopyTake(s)
    PROVE  Travel'
<1> USE DEF Travel
<1>1. /\ UNCHANGED <<nodes, heads, asked, before, unsent, via, pc, from>>
      /\ proc[s] = "reading" /\ before[s] \in Server /\ log'[s] = log[before[s]]
      /\ \A r \in Server : r # s => proc'[r] = proc[r] /\ log'[r] = log[r]
  BY CopyTakeEffect DEF Structure
<1>2. \A r \in Server : (Joiner(r)' <=> Joiner(r)) /\ (Alive(r)' <=> Alive(r))
  BY CopyTakeKept
<1>3. \A n, t \in Server : Upstream(n, t)' => Upstream(n, t)
  BY <1>1, <1>2 DEF Upstream
<1>4. Passing' /\ AtHead' /\ Called'
  BY <1>1, <1>3 DEF Passing, AtHead, Called
<1>5. Asked'
  BY <1>1 DEF Asked
<1>6. \A w \in Write : pc[s][w] \in {"none", "received"}
  BY <1>1 DEF Structure, Roles, Backlog
<1>7. Logged'
  BY <1>1, <1>6 DEF Logged, Section
<1>8. InTurn' /\ Between'
  BY <1>1 DEF InTurn, Between
<1>9. QED
  BY <1>4, <1>5, <1>7, <1>8

LEMMA CopyTakeRepeats ==
    ASSUME TypeInv, Structure, Travel, Repeats, NEW s \in Server, CopyTake(s)
    PROVE  Repeats'
<1> USE DEF Repeats
<1> DEFINE u == before[s]
<1>1. /\ UNCHANGED <<nodes, before, unsent, pc>>
      /\ proc[s] = "reading" /\ proc'[s] = "copied" /\ log'[s] = log[u]
      /\ u \in Server /\ u < s /\ proc[u] = "serving" /\ u \in Kept
      /\ \A r \in Server : r # s => proc'[r] = proc[r] /\ log'[r] = log[r]
      /\ \A x, y \in Server : Leads(x, y)' <=> Leads(x, y)
  BY CopyTakeEffect DEF Structure
<1>2. /\ Kept' \subseteq Kept /\ Kept \subseteq Server /\ nodes \subseteq Kept
      /\ \A r \in Server : (Joiner(r)' <=> Joiner(r)) /\ (Alive(r)' <=> Alive(r)) /\ (Copying(r)' => Copying(r))
  BY CopyTakeKept, KeptServers
<1>3. Alive(u) /\ Joiner(s) /\ Copying(s) /\ s \in nodes
  BY <1>1 DEF Alive, Joiner, Entering, Copying, Structure, Roles, Joined
<1> HIDE DEF u
<1>4. before[s] = u
  BY DEF u
<1>5. ASSUME NEW x \in Server, CastOff(x) PROVE CastOff(x)'
  <2>1. \A r \in Server : proc[r] # "absent" => proc'[r] # "absent"
    BY <1>1
  <2>2. \A a, b \in Server : Leads(a, b)' => Leads(a, b) \/ a \in nodes
    BY <1>1
  <2>3. QED
    BY <1>2, <1>5, <2>1, <2>2, CastOffStays
<1>6. \A t \in Server, w \in Write : Copied(t, w) => Copied(t, w)'
  <2> SUFFICES ASSUME NEW t \in Server, NEW w \in Write, Copied(t, w) PROVE Copied(t, w)'
    OBVIOUS
  <2>1. proc[t] = "copied" /\ Holds(before[t], w)
    BY DEF Copied
  <2>2. before[t] \in Server
    BY <2>1 DEF Structure, Roles, Joined, Joiner
  <2>3. QED
    BY <1>1, <2>1, <2>2 DEF Copied, Holds, Dead
<1>7. Overtaken'
  <2> SUFFICES ASSUME NEW t \in Kept', NEW x \in Server, NEW w \in Write \ unsent,
                      Alive(t)', Contains(log'[t], w), pc[t][w] = "none",
                      x < t, pc[x][w] \in {"received", "applied"}
               PROVE  CastOff(x)' \/ (Copied(t, w)' /\ before[t] <= x)
    BY <1>1 DEF Overtaken
  <2>1. t \in Kept /\ t \in Server /\ Alive(t)
    BY <1>2
  <2>2. CASE t # s
    BY <1>1, <1>5, <1>6, <2>1, <2>2 DEF Overtaken
  <2>3. CASE t = s
    <3>1. Contains(log[u], w)
      BY <1>1, <2>3
    <3>2. CASE x < u
      <4>1. pc[u][w] = "none"
        BY <1>1, <3>2, Numbers DEF TypeInv, Handlers, Frontier
      <4>2. ~Copied(u, w)
        BY <1>1 DEF Copied
      <4>3. CastOff(x)
        BY <1>1, <1>3, <3>1, <3>2, <4>1, <4>2 DEF Overtaken
      <4>4. QED
        BY <1>5, <4>3
    <3>3. CASE x = u
      <4>1. pc[u][w] # "received"
        BY <1>1, <1>3, <3>1 DEF Again, Copied
      <4>2. Copied(s, w)'
        BY <1>1, <1>4, <3>3, <4>1 DEF Copied, Holds
      <4>3. u <= u
        BY <1>1, Numbers
      <4>4. QED
        BY <1>4, <2>3, <3>3, <4>2, <4>3
    <3>4. CASE u < x
      <4>1. Upstream(u, x)
        BY <1>1, <1>3, <1>4, <2>3, <3>4 DEF Upstream
      <4>2. pc[u][w] = "awaiting"
        BY <1>1, <3>4, <4>1 DEF Travel, Passing, InTurn
      <4>3. Copied(s, w)'
        BY <1>1, <1>4, <4>2 DEF Copied, Holds
      <4>4. u <= x
        BY <1>1, <3>4, Numbers
      <4>5. QED
        BY <1>4, <2>3, <4>3, <4>4
    <3>5. QED
      BY <1>1, <3>2, <3>3, <3>4, Numbers
  <2>4. QED
    BY <2>2, <2>3
<1>8. Again'
  <2> SUFFICES ASSUME NEW y \in Kept', NEW w \in Write \ unsent,
                      Alive(y)', pc[y][w] = "received", Contains(log'[y], w)
               PROVE  Copied(y, w)'
    BY <1>1 DEF Again
  <2>1. y \in Kept /\ y \in Server /\ Alive(y)
    BY <1>2
  <2>2. CASE y # s
    BY <1>1, <1>6, <2>1, <2>2 DEF Again
  <2>3. CASE y = s
    <3>1. pc[u][w] = "awaiting"
      BY <1>1, <1>3, <1>4, <2>3 DEF Soon
    <3>2. QED
      BY <1>1, <1>4, <2>3, <3>1 DEF Copied, Holds
  <2>4. QED
    BY <2>2, <2>3
<1>9. Soon'
  <2> SUFFICES ASSUME NEW y \in Server, NEW w \in Write \ unsent, Copying(y)', pc[y][w] = "received",
                      Alive(before[y])', Contains(log'[before[y]], w)
               PROVE  pc[before[y]][w] = "awaiting"
    BY <1>1 DEF Soon
  <2>1. Copying(y) /\ Joiner(y)
    BY <1>2 DEF Copying, Joiner
  <2>2. PICK v \in Server : v = before[y] /\ v < y
    BY <2>1 DEF Structure, Roles, Joined
  <2>3. Alive(v) /\ Contains(log'[v], w)
    BY <1>1, <1>2, <2>2 DEF Alive
  <2>4. CASE v # s
    BY <1>1, <2>1, <2>2, <2>3, <2>4 DEF Soon
  <2>5. CASE v = s
    <3>1. Upstream(s, y)
      BY <1>3, <2>2, <2>3, <2>5 DEF Upstream
    <3>2. pc[s][w] \in {"received"}
      BY <1>1, <3>1 DEF Travel, Passing, Structure, Roles, Backlog
    <3>3. pc[y][w] = "none"
      BY <2>2, <2>5, <3>2, Numbers DEF TypeInv, Handlers, Frontier
    <3>4. QED
      BY <3>3
  <2>6. QED
    BY <2>4, <2>5
<1>10. QED
  BY <1>7, <1>8, <1>9

LEMMA CopyTakeTables ==
    ASSUME TypeInv, Structure, Travel, Tables, NEW s \in Server, CopyTake(s)
    PROVE  Tables'
<1> USE DEF Tables
<1> DEFINE u == before[s]
<1>1. /\ UNCHANGED <<acked, unsent, before, mutex, pc>>
      /\ proc[s] = "reading" /\ log'[s] = log[u]
      /\ u \in Server /\ u < s /\ proc[u] = "serving" /\ u \in Kept
      /\ \A r \in Server : r # s => log'[r] = log[r]
      /\ blank \subseteq blank'
  BY CopyTakeEffect DEF Structure
<1>2. /\ \A t \in Keepers' : t = s \/ t \in Keepers
      /\ s \in Keepers' => u \in Keepers
      /\ Kept \subseteq Server /\ Kept' \subseteq Kept
  BY CopyTakeKept, KeptServers
<1>3. Joiner(s) /\ s \in nodes /\ before[s] = u
  BY <1>1 DEF Joiner, Entering, Structure, Roles, Joined
<1> HIDE DEF u
<1>4. \A t \in Keepers' : t # s => t \in Keepers /\ log'[t] = log[t] /\ t \in Server
  BY <1>1, <1>2 DEF Keepers
(* Whatever is kept below s, or between it and its source, is blank.       *)
<1>5. \A t \in Keepers' : t # s => t <= u
  <2> SUFFICES ASSUME NEW t \in Keepers', t # s PROVE t <= u
    OBVIOUS
  <2>1. t \in Server /\ t \in Kept /\ proc[t] \in {"copied", "serving"} /\ t \notin blank
    BY <1>4 DEF Keepers
  <2>2. ~(t > s)
    BY <1>3, <2>1 DEF Structure, LateBlank
  <2>3. ~(u < t)
    BY <1>3, <2>1, <2>2, KeptGap, Numbers
  <2>4. QED
    BY <1>1, <2>1, <2>3, Numbers
<1>6. Once'
  BY <1>1, <1>2, <1>4 DEF Once
<1>7. Newest'
  <2>1. mutex[s] = 0
    <3>1. \A w \in Write : pc[s][w] \notin Section
      BY <1>1 DEF Structure, Roles, Backlog, Section
    <3>2. QED
      BY <3>1 DEF TypeInv, ServerData, Handlers, Owned
  <2>2. QED
    BY <1>1, <2>1 DEF Newest
<1>8. Ordered'
  <2> SUFFICES ASSUME NEW a \in Keepers', NEW b \in Keepers', a < b PROVE Agree(log'[a], log'[b])
    BY <1>1 DEF Ordered, Agree
  <2>1. CASE b # s
    <3>1. a # s
      BY <1>1, <1>4, <1>5, <2>1, Numbers
    <3>2. QED
      BY <1>4, <2>1, <3>1 DEF Ordered
  <2>2. CASE b = s
    <3>1. a # s /\ a \in Keepers /\ a <= u /\ log'[a] = log[a] /\ a \in Server /\ u \in Keepers
      BY <1>2, <1>4, <1>5, <2>2, Numbers
    <3>2. a = u => Agree(log[a], log[u])
      BY DEF Agree
    <3>3. a < u => Agree(log[a], log[u])
      BY <3>1 DEF Ordered
    <3>4. QED
      BY <1>1, <2>2, <3>1, <3>2, <3>3, Numbers
  <2>3. QED
    BY <2>1, <2>2
<1>9. InHand'
  <2> SUFFICES ASSUME NEW a \in Keepers', NEW b \in Keepers', NEW w \in Write \ unsent,
                      a < b, Contains(log'[a], w), ~Contains(log'[b], w)
               PROVE  mutex[a] = w
    BY <1>1 DEF InHand
  <2>1. CASE b # s
    <3>1. a # s
      BY <1>1, <1>4, <1>5, <2>1, Numbers
    <3>2. QED
      BY <1>4, <2>1, <3>1 DEF InHand
  <2>2. CASE b = s
    <3>1. a # s /\ a \in Keepers /\ a <= u /\ log'[a] = log[a] /\ a \in Server /\ u \in Keepers
      BY <1>2, <1>4, <1>5, <2>2, Numbers
    <3>2. Contains(log[a], w) /\ ~Contains(log[u], w)
      BY <1>1, <2>2, <3>1
    <3>3. a < u
      BY <1>1, <3>1, <3>2, Numbers
    <3>4. QED
      BY <3>1, <3>2, <3>3 DEF InHand
  <2>3. QED
    BY <2>1, <2>2
<1>10. Reached'
  <2> SUFFICES ASSUME NEW a \in Server, NEW w \in Write \ unsent, pc[a][w] \in {"astray", "released", "replied"},
                      NEW t \in Keepers', t >= a
               PROVE  Contains(log'[t], w)
    BY <1>1 DEF Reached, Covered
  <2>1. CASE t # s
    BY <1>4, <2>1 DEF Reached, Covered
  <2>2. CASE t = s /\ a <= u
    <3>1. u \in Keepers /\ u >= a
      BY <1>1, <1>2, <2>2, Numbers
    <3>2. QED
      BY <1>1, <2>2, <3>1 DEF Reached, Covered
  <2>3. CASE t = s /\ u < a
    <3>1. a # s
      BY <1>1 DEF Structure, Roles, Backlog
    <3>2. Upstream(u, a)
      BY <1>1, <1>3, <2>3, <3>1, Numbers DEF Upstream, Alive
    <3>3. pc[u][w] # "none"
      BY <1>1, <3>2 DEF Travel, Passing
    <3>4. pc[u][w] \notin {"received", "applied"}
      BY <1>1, <2>3, Numbers DEF TypeInv, Handlers, Frontier
    <3>5. pc[u][w] \in Section \cup {"released", "replied"}
      BY <1>1, <3>3, <3>4 DEF TypeInv, ServerData, Stage
    <3>6. QED
      BY <1>1, <2>3, <3>5 DEF Travel, Logged
  <2>4. QED
    BY <1>1, <2>1, <2>2, <2>3, Numbers
<1>11. AckKept'
  BY <1>1, <1>2, <1>4 DEF AckKept
<1>12. QED
  BY <1>6, <1>7, <1>8, <1>9, <1>10, <1>11
-----------------------------------------------------------------------------
(* A client asks the head for a write that nobody has.                     *)
LEMMA AskKeepsChain == ASSUME ChainInv, TypeInv', NEW s \in Server, Ask(s) PROVE ChainInv'
<1> USE DEF ChainInv
<1> DEFINE w == asked + 1
<1>1. /\ w \in Write /\ w > asked /\ asked' = w /\ pc' = [pc EXCEPT ![s][w] = "received"]
      /\ s \in heads /\ Alive(s)
      /\ UNCHANGED <<chain, faults, process, nextlink, mutex, dup, via, relinked, from, history>>
  BY FailoverAssumption DEF Ask, TypeInv, ChainData, Write
<1>2. UNCHANGED <<nodes, heads, event, leaving, proc, before, log, mutex, via, from, acked, unsent, blank>>
  BY <1>1 DEF chain, process, history
<1> HIDE DEF w
<1>3. /\ pc'[s][w] = "received"
      /\ \A r \in Server, v \in Write : r # s \/ v # w => pc'[r][v] = pc[r][v]
  BY <1>1, Move DEF TypeInv, ServerData, Stage
<1>4. /\ \A r \in Server : pc[r][w] = "none"
      /\ \A r \in Server : ~Contains(log[r], w)
  <2>1. ~(w <= asked)
    BY <1>1, Numbers DEF TypeInv, ChainData
  <2>2. QED
    BY <1>1, <2>1 DEF TypeInv, Handlers, Unasked, Travel, Asked
<1>5. /\ \A x, y \in Server : Leads(x, y)' <=> Leads(x, y)
      /\ \A r \in Server : (Alive(r)' <=> Alive(r)) /\ (Joiner(r)' <=> Joiner(r)) /\ (Copying(r)' <=> Copying(r))
      /\ Kept' = Kept /\ Keepers' = Keepers
  BY <1>1, <1>2 DEF Leads, nextlink, Alive, Joiner, Copying, Kept, Keepers
<1>6. Structure'
  <2>1. Within
    BY <1>2, <1>3, <1>5 DEF Within
  <2>2. QED
    BY <2>1, WithinStructure
<1>7. Travel'
  <2>1. Passing'
    <3> SUFFICES ASSUME NEW n \in Server, NEW t \in Server, NEW v \in Write, Upstream(n, t)', pc'[t][v] # "none"
                 PROVE  pc'[n][v] # "none"
      BY DEF Passing
    <3>1. Upstream(n, t) /\ n < t /\ Alive(n)
      BY <1>2, <1>5 DEF Upstream
    <3>2. CASE v # w
      BY <1>3, <3>1, <3>2 DEF Travel, Passing
    <3>3. CASE v = w
      <4>1. t = s
        BY <1>3, <1>4, <3>3
      <4>2. n \notin nodes
        <5>1. ~(s <= n)
          BY <3>1, <4>1, Numbers
        <5>2. QED
          BY <1>1, <5>1 DEF Structure, Layout, HeadFirst
      <4>3. PICK r \in Server : Joiner(r) /\ before[r] = n /\ s < r
        BY <3>1, <4>1, <4>2 DEF Upstream
      <4>4. r <= s
        BY <1>1, <3>1, <4>1, <4>3 DEF Structure, Layout, NextTo
      <4>5. QED
        BY <4>3, <4>4, Numbers
    <3>4. QED
      BY <3>2, <3>3
  <2>2. Logged'
    BY <1>2, <1>3 DEF Travel, Logged, Section
  <2>3. Asked'
    BY <1>1, <1>2, Numbers DEF Travel, Asked, TypeInv, ChainData
  <2>4. AtHead' /\ Called'
    BY <1>1, <1>2, <1>3 DEF Travel, AtHead, Called
  <2>5. InTurn'
    <3> SUFFICES ASSUME NEW x \in Server, NEW y \in Server, NEW v \in Write \ unsent, x < y,
                        pc'[x][v] # "none", pc'[y][v] \in {"received", "applied", "awaiting"}
                 PROVE  pc'[x][v] = "awaiting"
      BY <1>2 DEF InTurn
    <3>1. v # w
      BY <1>3, <1>4, Numbers
    <3>2. QED
      BY <1>3, <3>1 DEF Travel, InTurn
  <2>6. Between'
    <3> SUFFICES ASSUME NEW x \in Server, NEW y \in Server, NEW v \in Write,
                        pc'[x][v] = "awaiting", x < y, y < via[x]
                 PROVE  pc'[y][v] = "none"
      BY <1>2 DEF Between
    <3>1. v # w
      BY <1>3, <1>4
    <3>2. QED
      BY <1>3, <3>1 DEF Travel, Between
  <2>7. QED
    BY <2>1, <2>2, <2>3, <2>4, <2>5, <2>6 DEF Travel
<1>8. Repeats'
  <2>1. \A x \in Server : CastOff(x)' <=> CastOff(x)
    BY <1>2, <1>5 DEF CastOff, Off
  <2>2. \A k \in Server, v \in Write : v # w /\ Copied(k, v) => Copied(k, v)'
    <3> SUFFICES ASSUME NEW k \in Server, NEW v \in Write, v # w, Copied(k, v) PROVE Copied(k, v)'
      OBVIOUS
    <3>1. proc[k] = "copied" /\ Holds(before[k], v)
      BY DEF Copied
    <3>2. before[k] \in Server
      BY <3>1 DEF Structure, Roles, Joined, Joiner
    <3>3. QED
      BY <1>2, <1>3, <3>1, <3>2 DEF Copied, Holds, Dead
  <2>3. Overtaken'
    <3> SUFFICES ASSUME NEW t \in Kept, NEW x \in Server, NEW v \in Write \ unsent,
                        Alive(t), Contains(log[t], v), pc'[t][v] = "none",
                        x < t, pc'[x][v] \in {"received", "applied"}
                 PROVE  CastOff(x) \/ (Copied(t, v)' /\ before[t] <= x)
      BY <1>2, <1>5, <2>1, KeptServers DEF Overtaken
    <3>1. t \in Server
      BY KeptServers
    <3>2. v # w
      BY <1>4, <3>1
    <3>3. QED
      BY <1>3, <2>2, <3>1, <3>2 DEF Repeats, Overtaken
  <2>4. Again'
    <3> SUFFICES ASSUME NEW y \in Kept, NEW v \in Write \ unsent,
                        Alive(y), pc'[y][v] = "received", Contains(log[y], v)
                 PROVE  Copied(y, v)'
      BY <1>2, <1>5, KeptServers DEF Again
    <3>1. y \in Server
      BY KeptServers
    <3>2. v # w
      BY <1>4, <3>1
    <3>3. QED
      BY <1>3, <2>2, <3>1, <3>2 DEF Repeats, Again
  <2>5. Soon'
    <3> SUFFICES ASSUME NEW y \in Server, NEW v \in Write \ unsent, Copying(y), pc'[y][v] = "received",
                        Alive(before[y])', Contains(log[before[y]], v)
                 PROVE  pc'[before[y]][v] = "awaiting"
      BY <1>2, <1>5 DEF Soon
    <3>1. before[y] \in Server
      BY DEF Structure, Roles, Joined, Joiner, Copying
    <3>2. v # w
      BY <1>4, <3>1
    <3>3. pc[y][v] = "received" /\ Alive(before[y])
      BY <1>2, <1>3, <3>1, <3>2 DEF Alive
    <3>4. pc[before[y]][v] = "awaiting"
      BY <3>3 DEF Repeats, Soon
    <3>5. QED
      BY <1>3, <3>1, <3>2, <3>4
  <2>6. QED
    BY <2>3, <2>4, <2>5 DEF Repeats
<1>9. Tables'
  <2>1. Once' /\ Newest' /\ InHand' /\ AckKept'
    BY <1>2, <1>5 DEF Tables, Once, Newest, InHand, AckKept
  <2>2. Ordered'
    BY <1>2, <1>5 DEF Tables, Ordered, Agree
  <2>3. Reached'
    BY <1>2, <1>3, <1>5 DEF Tables, Reached, Covered
  <2>4. QED
    BY <2>1, <2>2, <2>3 DEF Tables
<1>10. QED
  BY <1>6, <1>7, <1>8, <1>9
-----------------------------------------------------------------------------
(* A server has got a write and not taken it yet: all those before it that *)
(* are kept wait for its answer.                                           *)
LEMMA UpstreamWaits ==
    ASSUME ChainInv, NEW s \in Keepers, NEW x \in Keepers, NEW w \in Write \ unsent,
           proc[s] = "serving", pc[s][w] = "received", x < s
    PROVE  pc[x][w] = "awaiting"
<1> USE DEF ChainInv
<1>1. s \in Server /\ x \in Server /\ x \in Kept /\ s \in Kept /\ s \notin blank /\ nodes \subseteq Server
  BY KeptServers DEF Keepers
<1>2. Alive(x) /\ Alive(s) /\ proc[x] \in {"copied", "serving"}
  BY DEF Keepers, Alive
<1>3. Upstream(x, s)
  <2>1. CASE x \in nodes
    BY <1>2, <2>1 DEF Upstream
  <2>2. CASE x \notin nodes
    <3>1. PICK r \in nodes : Copying(r) /\ x = before[r]
      BY <1>1, <2>2 DEF Kept
    <3>2. r \in Server /\ Joiner(r) /\ r # s
      BY <1>1, <3>1 DEF Copying, Joiner
    <3>3. ~(s > r)
      BY <1>1, <3>2 DEF Structure, LateBlank
    <3>4. s < r
      BY <1>1, <3>2, <3>3, Numbers
    <3>5. QED
      BY <1>2, <3>1, <3>2, <3>4 DEF Upstream
  <2>3. QED
    BY <2>1, <2>2
<1>4. pc[x][w] # "none"
  BY <1>1, <1>3 DEF Travel, Passing
<1>5. QED
  BY <1>1, <1>4 DEF Travel, InTurn

(* invoke() takes the mutex and changes the table.                         *)
LEMMA ApplyEffect ==
    ASSUME TypeInv, NEW s \in Server, NEW w \in Write, Apply(s, w)
    PROVE  /\ UNCHANGED <<nodes, heads, event, leaving, proc, before, blank, asked, acked, unsent, via, from>>
           /\ proc[s] = "serving" /\ pc[s][w] = "received" /\ mutex[s] = 0
           /\ mutex'[s] = w /\ log'[s] = Append(log[s], w) /\ pc'[s][w] = "applied"
           /\ \A r \in Server, v \in Write : r # s \/ v # w => pc'[r][v] = pc[r][v]
           /\ \A r \in Server : r # s => mutex'[r] = mutex[r] /\ log'[r] = log[r]
           /\ \A x, y \in Server : Leads(x, y)' <=> Leads(x, y)
           /\ Kept' = Kept /\ Keepers' = Keepers
<1>1. /\ proc[s] = "serving" /\ pc[s][w] = "received" /\ mutex[s] = 0
      /\ mutex' = [mutex EXCEPT ![s] = w]
      /\ log' = [log EXCEPT ![s] = Append(@, w)]
      /\ pc' = [pc EXCEPT ![s][w] = "applied"]
      /\ UNCHANGED <<chain, faults, asked, proc, before, leaving, nextlink, via, relinked, from, history>>
  BY DEF Apply, At
<1>2. UNCHANGED <<nodes, heads, event, leaving, proc, before, blank, asked, acked, unsent, via, from>>
  BY <1>1 DEF chain, history
<1>3. /\ pc'[s][w] = "applied"
      /\ \A r \in Server, v \in Write : r # s \/ v # w => pc'[r][v] = pc[r][v]
  BY <1>1, Move DEF TypeInv, ServerData, Stage, Section
<1>4. /\ mutex'[s] = w /\ log'[s] = Append(log[s], w)
      /\ \A r \in Server : r # s => mutex'[r] = mutex[r] /\ log'[r] = log[r]
  BY <1>1 DEF TypeInv, ServerData
<1>5. \A x, y \in Server : Leads(x, y)' <=> Leads(x, y)
  BY <1>1 DEF nextlink, Leads
<1>6. Kept' = Kept /\ Keepers' = Keepers
  BY <1>2 DEF Kept, Keepers, Copying
<1>7. QED
  BY <1>1, <1>2, <1>3, <1>4, <1>5, <1>6

LEMMA ApplyTables ==
    ASSUME ChainInv, NEW s \in Server, NEW w \in Write, Apply(s, w)
    PROVE  Tables'
<1> USE DEF ChainInv
<1>1. /\ UNCHANGED <<acked, unsent>>
      /\ proc[s] = "serving" /\ pc[s][w] = "received" /\ mutex[s] = 0
      /\ mutex'[s] = w /\ log'[s] = Append(log[s], w) /\ pc'[s][w] = "applied"
      /\ \A r \in Server, v \in Write : r # s \/ v # w => pc'[r][v] = pc[r][v]
      /\ \A r \in Server : r # s => mutex'[r] = mutex[r] /\ log'[r] = log[r]
      /\ Keepers' = Keepers
  BY ApplyEffect
<1>2. Keepers \subseteq Kept /\ Kept \subseteq Server
  BY KeptServers DEF Keepers
<1>3. \A r \in Server : log[r] \in Seq(Write)
  BY DEF TypeInv, ServerData
<1>4. /\ \A v \in Write : Contains(log'[s], v) <=> Contains(log[s], v) \/ v = w
      /\ \A u, v \in Write : Earlier(log'[s], u, v) <=> Earlier(log[s], u, v) \/ (v = w /\ Contains(log[s], u))
      /\ Len(log'[s]) # 0 /\ log'[s][Len(log'[s])] = w
  BY <1>1, <1>3, Appended
<1>5. Alive(s)
  BY <1>1 DEF Alive
(* Neither it nor a server below it has the write already.                 *)
<1>6. s \in Keepers /\ w \notin unsent => ~Contains(log[s], w)
  BY <1>1, <1>2, <1>5 DEF Repeats, Again, Copied
<1>7. ASSUME s \in Keepers, NEW t \in Keepers, s < t, w \notin unsent PROVE ~Contains(log[t], w)
  <2>1. SUFFICES ASSUME Contains(log[t], w) PROVE FALSE
    OBVIOUS
  <2>2. t \in Kept /\ Alive(t) /\ t \in Server /\ pc[t][w] = "none"
    BY <1>1, <1>2, <1>7, Numbers DEF Keepers, Alive, TypeInv, Handlers, Frontier
  <2>3. ~CastOff(s)
    BY <1>2, <1>7, Numbers DEF CastOff, Off
  <2>4. Copied(t, w) /\ before[t] <= s
    BY <1>1, <1>7, <2>1, <2>2, <2>3 DEF Repeats, Overtaken
  <2>5. Joiner(t) /\ before[t] \in Server
    BY <2>2, <2>4 DEF Copied, Joiner, Structure, Roles, Joined
  <2>6. before[t] # s
    BY <1>1, <2>4 DEF Copied, Holds, Dead
  <2>7. before[t] < s
    BY <2>4, <2>5, <2>6, Numbers
  <2>8. s >= t
    BY <1>2, <1>7, <2>2, <2>5, <2>7, KeptGap
  <2>9. QED
    BY <1>7, <2>2, <2>8, Numbers
<1>8. Once'
  <2> SUFFICES ASSUME NEW t \in Keepers, NEW v \in Write \ unsent PROVE ~Earlier(log'[t], v, v)
    BY <1>1 DEF Once
  <2>1. ~Earlier(log[t], v, v)
    BY DEF Tables, Once
  <2>2. QED
    BY <1>1, <1>2, <1>4, <1>6, <2>1
<1>9. Newest'
  BY <1>1, <1>4 DEF Tables, Newest
<1>10. Ordered'
  <2> SUFFICES ASSUME NEW a \in Keepers, NEW b \in Keepers, a < b, NEW v \in Write \ unsent, Contains(log'[b], v)
               PROVE  /\ Contains(log'[a], v)
                      /\ \A u \in Write \ unsent : Earlier(log'[a], u, v) <=> Earlier(log'[b], u, v)
    BY <1>1 DEF Ordered, Agree
  <2>1. Agree(log[a], log[b]) /\ a \in Server /\ b \in Server
    BY <1>2 DEF Tables, Ordered
  <2>2. CASE b # s
    <3>1. log'[b] = log[b]
      BY <1>1, <2>1, <2>2
    <3>2. a = s => v # w
      BY <1>7, <2>2, <3>1
    <3>3. /\ Contains(log'[a], v) <=> Contains(log[a], v)
          /\ \A u \in Write : Earlier(log'[a], u, v) <=> Earlier(log[a], u, v)
      BY <1>1, <1>4, <2>1, <3>2
    <3>4. QED
      BY <2>1, <3>1, <3>3 DEF Agree
  <2>3. CASE b = s
    <3>1. log'[a] = log[a]
      BY <1>1, <2>1, <2>3, Numbers
    <3>2. CASE v # w
      BY <1>4, <2>1, <2>3, <3>1, <3>2 DEF Agree
    <3>3. CASE v = w
      <4>1. pc[a][w] = "awaiting" /\ w \notin unsent
        BY <1>1, <2>3, <3>3, UpstreamWaits
      <4>2. mutex[a] = w /\ Contains(log[a], w) /\ w # 0
        BY <2>1, <4>1, Numbers DEF TypeInv, Handlers, Owned, Section, Travel, Logged
      <4>3. Len(log[a]) # 0 /\ log[a][Len(log[a])] = w
        BY <2>1, <4>2 DEF Tables, Newest
      <4>4. \A u \in Write : Contains(log[a], u) /\ u # w => Earlier(log[a], u, w)
        BY <1>3, <2>1, <4>3, EarlierContains
      <4>5. \A u \in Write : Earlier(log[a], u, w) => Contains(log[a], u) /\ u # w
        BY <1>3, <2>1, <4>1, EarlierContains DEF Tables, Once
      <4>6. \A u \in Write \ unsent : Contains(log[a], u) /\ u # w => Contains(log[s], u)
        BY <2>3, <4>2 DEF Tables, InHand
      <4>7. \A u \in Write \ unsent : Contains(log[s], u) => Contains(log[a], u)
        BY <2>1, <2>3 DEF Agree
      <4>8. \A u \in Write : Contains(log[s], u) => u # w
        BY <1>6, <2>3, <4>1
      <4>9. \A u \in Write : Earlier(log'[s], u, w) <=> Contains(log[s], u)
        <5>1. \A u \in Write : Earlier(log[s], u, w) => Contains(log[s], u)
          BY <1>3, EarlierContains
        <5>2. QED
          BY <1>4, <5>1
      <4>10. QED
        BY <2>3, <3>1, <3>3, <4>2, <4>4, <4>5, <4>6, <4>7, <4>8, <4>9
    <3>4. QED
      BY <3>2, <3>3
  <2>4. QED
    BY <2>2, <2>3
<1>11. InHand'
  <2> SUFFICES ASSUME NEW a \in Keepers, NEW b \in Keepers, NEW v \in Write \ unsent,
                      a < b, Contains(log'[a], v), ~Contains(log'[b], v)
               PROVE  mutex'[a] = v
    BY <1>1 DEF InHand
  <2>1. ~Contains(log[b], v) /\ a \in Server /\ b \in Server /\ v # 0
    BY <1>1, <1>2, <1>4, Numbers
  <2>2. CASE a # s
    BY <1>1, <2>1, <2>2 DEF Tables, InHand
  <2>3. CASE a = s
    <3>1. Contains(log[s], v) => mutex[s] = v
      BY <2>1, <2>3 DEF Tables, InHand
    <3>2. QED
      BY <1>1, <1>4, <2>1, <2>3, <3>1
  <2>4. QED
    BY <2>2, <2>3
<1>12. \A t \in Keepers, v \in Write : Contains(log[t], v) => Contains(log'[t], v)
  BY <1>1, <1>2, <1>4
<1>13. Reached'
  <2>1. \A a \in Server, v \in Write : pc'[a][v] \in {"astray", "released", "replied"} => pc'[a][v] = pc[a][v]
    BY <1>1
  <2>2. QED
    BY <1>1, <1>12, <2>1 DEF Tables, Reached, Covered
<1>14. AckKept'
  <2>1. acked \subseteq Write
    BY DEF TypeInv, ChainData
  <2>2. QED
    BY <1>1, <1>12, <2>1 DEF Tables, AckKept
<1>15. QED
  BY <1>8, <1>9, <1>10, <1>11, <1>13, <1>14 DEF Tables

LEMMA ApplyKeepsChain ==
    ASSUME ChainInv, TypeInv', NEW s \in Server, NEW w \in Write, Apply(s, w)
    PROVE  ChainInv'
<1> USE DEF ChainInv
<1>1. /\ UNCHANGED <<nodes, heads, event, leaving, proc, before, blank, asked, unsent, via, from>>
      /\ proc[s] = "serving" /\ pc[s][w] = "received"
      /\ log'[s] = Append(log[s], w) /\ pc'[s][w] = "applied"
      /\ \A r \in Server, v \in Write : r # s \/ v # w => pc'[r][v] = pc[r][v]
      /\ \A r \in Server : r # s => log'[r] = log[r]
      /\ \A x, y \in Server : Leads(x, y)' <=> Leads(x, y)
      /\ Kept' = Kept /\ Kept \subseteq Server
  BY ApplyEffect, KeptServers
<1>2. \A v \in Write : Contains(log'[s], v) <=> Contains(log[s], v) \/ v = w
  <2>1. log[s] \in Seq(Write)
    BY DEF TypeInv, ServerData
  <2>2. QED
    BY <1>1, <2>1, Appended
<1>3. \A r \in Server : (Alive(r)' <=> Alive(r)) /\ (Joiner(r)' <=> Joiner(r)) /\ (Copying(r)' <=> Copying(r))
  BY <1>1 DEF Alive, Joiner, Copying
<1>4. Structure'
  <2>1. Within
    BY <1>1 DEF Within
  <2>2. QED
    BY <2>1, WithinStructure
<1>5. Travel'
  <2>1. Passing'
    <3>1. \A n, t \in Server : Upstream(n, t)' <=> Upstream(n, t)
      BY <1>1, <1>3 DEF Upstream
    <3>2. \A r \in Server, v \in Write : pc'[r][v] = "none" <=> pc[r][v] = "none"
      BY <1>1
    <3>3. QED
      BY <3>1, <3>2 DEF Travel, Passing
  <2>2. Logged'
    BY <1>1, <1>2 DEF Travel, Logged
  <2>3. Asked'
    <3>1. w <= asked
      BY <1>1, Numbers DEF TypeInv, ChainData, Handlers, Unasked
    <3>2. QED
      BY <1>1, <1>2, <3>1 DEF Travel, Asked
  <2>4. AtHead' /\ Called'
    BY <1>1 DEF Travel, AtHead, Called
  <2>5. InTurn'
    <3> SUFFICES ASSUME NEW x \in Server, NEW y \in Server, NEW v \in Write \ unsent, x < y,
                        pc'[x][v] # "none", pc'[y][v] \in {"received", "applied", "awaiting"}
                 PROVE  pc'[x][v] = "awaiting"
      BY <1>1 DEF InTurn
    <3>1. pc[x][v] # "none" /\ pc[y][v] \in {"received", "applied", "awaiting"}
      BY <1>1
    <3>2. pc[x][v] = "awaiting"
      BY <3>1 DEF Travel, InTurn
    <3>3. QED
      BY <1>1, <3>2
  <2>6. Between'
    <3> SUFFICES ASSUME NEW x \in Server, NEW y \in Server, NEW v \in Write,
                        pc'[x][v] = "awaiting", x < y, y < via[x]
                 PROVE  pc'[y][v] = "none"
      BY <1>1 DEF Between
    <3>1. pc[x][v] = "awaiting"
      BY <1>1
    <3>2. pc[y][v] = "none"
      BY <3>1 DEF Travel, Between
    <3>3. QED
      BY <1>1, <3>2
  <2>7. QED
    BY <2>1, <2>2, <2>3, <2>4, <2>5, <2>6 DEF Travel
<1>6. Repeats'
  <2>1. \A x \in Server : CastOff(x)' <=> CastOff(x)
    BY <1>1 DEF CastOff, Off
  <2>2. \A k \in Server, v \in Write : Copied(k, v) => Copied(k, v)'
    <3> SUFFICES ASSUME NEW k \in Server, NEW v \in Write, Copied(k, v) PROVE Copied(k, v)'
      OBVIOUS
    <3>1. proc[k] = "copied" /\ Holds(before[k], v)
      BY DEF Copied
    <3>2. before[k] \in Server
      BY <3>1 DEF Structure, Roles, Joined, Joiner
    <3>3. QED
      BY <1>1, <3>1, <3>2 DEF Copied, Holds, Dead
  <2>3. Overtaken'
    <3> SUFFICES ASSUME NEW t \in Kept, NEW x \in Server, NEW v \in Write \ unsent,
                        Alive(t), Contains(log'[t], v), pc'[t][v] = "none",
                        x < t, pc'[x][v] \in {"received", "applied"}
                 PROVE  CastOff(x) \/ (Copied(t, v)' /\ before[t] <= x)
      BY <1>1, <1>3, <2>1 DEF Overtaken
    <3>1. t \in Server
      BY <1>1
    <3>2. Contains(log[t], v) /\ pc[t][v] = "none"
      BY <1>1, <1>2, <3>1
    <3>3. pc[x][v] \in {"received", "applied"}
      BY <1>1
    <3>4. QED
      BY <2>2, <3>1, <3>2, <3>3 DEF Repeats, Overtaken
  <2>4. Again'
    <3> SUFFICES ASSUME NEW y \in Kept, NEW v \in Write \ unsent,
                        Alive(y), pc'[y][v] = "received", Contains(log'[y], v)
                 PROVE  Copied(y, v)'
      BY <1>1, <1>3 DEF Again
    <3>1. y \in Server /\ (y # s \/ v # w)
      BY <1>1
    <3>2. pc[y][v] = "received" /\ Contains(log[y], v)
      BY <1>1, <1>2, <3>1
    <3>3. QED
      BY <2>2, <3>1, <3>2 DEF Repeats, Again
  <2>5. Soon'
    <3> SUFFICES ASSUME NEW y \in Server, NEW v \in Write \ unsent, Copying(y), pc'[y][v] = "received",
                        Alive(before[y])', Contains(log'[before[y]], v)
                 PROVE  pc'[before[y]][v] = "awaiting"
      BY <1>1, <1>3 DEF Soon
    <3>1. before[y] \in Server /\ before[y] < y /\ y # s
      BY <1>1 DEF Structure, Roles, Joined, Joiner, Copying
    <3>2. pc[y][v] = "received" /\ Alive(before[y])
      BY <1>1, <1>3, <3>1 DEF Alive
    <3>3. before[y] # s \/ v # w
      BY <1>1, <3>1, <3>2, Numbers DEF TypeInv, Handlers, Frontier
    <3>4. Contains(log[before[y]], v)
      BY <1>1, <1>2, <3>1, <3>3
    <3>5. pc[before[y]][v] = "awaiting"
      BY <3>2, <3>4 DEF Repeats, Soon
    <3>6. QED
      BY <1>1, <3>1, <3>3, <3>5
  <2>6. QED
    BY <2>3, <2>4, <2>5 DEF Repeats
<1>7. Tables'
  BY ApplyTables
<1>8. QED
  BY <1>4, <1>5, <1>6, <1>7
-----------------------------------------------------------------------------
(* A write goes to the next server over the link.                          *)
LEMMA ForwardEffect ==
    ASSUME TypeInv, NEW s \in Server, NEW w \in Write, Forward(s, w)
    PROVE  \E t \in Server :
           /\ t > s /\ Alive(t) /\ Alive(s) /\ Leads(s, t)
           /\ proc[s] = "serving" /\ pc[s][w] = "applied" /\ pc[t][w] = "none"
           /\ pc'[s][w] = "awaiting" /\ pc'[t][w] = "received" /\ via'[s] = t /\ from'[t][w] = s
           /\ \A r \in Server, v \in Write : (r # s /\ r # t) \/ v # w => pc'[r][v] = pc[r][v]
           /\ \A r \in Server, v \in Write : r # t \/ v # w => from'[r][v] = from[r][v]
           /\ \A r \in Server : r # s => via'[r] = via[r]
           /\ UNCHANGED <<nodes, heads, event, leaving, proc, before, blank, log, mutex, asked, acked, unsent>>
           /\ \A x, y \in Server : Leads(x, y)' => Leads(x, y)
<1> USE DEF TypeInv
<1> DEFINE t == link[s].to
<1>1. /\ proc[s] = "serving" /\ pc[s][w] = "applied" /\ link[s].state = "open" /\ Alive(t)
      /\ pc' = [pc EXCEPT ![s][w] = "awaiting", ![t][w] = "received"]
      /\ from' = [from EXCEPT ![t][w] = s] /\ via' = [via EXCEPT ![s] = t]
      /\ UNCHANGED <<chain, faults, asked, process, nextlink, mutex, dup, relinked, history>>
  BY DEF Forward, At
<1>2. t \in Server /\ t > s /\ t # s
  BY <1>1, LinkStates, Numbers DEF ServerData, Descends
<1>3. Leads(s, t)
  BY <1>1, OpenLinks DEF Leads, ServerData
<1> HIDE DEF t
<1>4. pc[t][w] = "none"
  BY <1>1, <1>2 DEF Handlers, Frontier
<1>5. /\ pc'[s][w] = "awaiting" /\ pc'[t][w] = "received"
      /\ \A r \in Server, v \in Write : (r # s /\ r # t) \/ v # w => pc'[r][v] = pc[r][v]
  BY <1>1, <1>2 DEF ServerData
<1>6. /\ from'[t][w] = s
      /\ \A r \in Server, v \in Write : r # t \/ v # w => from'[r][v] = from[r][v]
  BY <1>1, <1>2 DEF ServerData
<1>7. via'[s] = t /\ \A r \in Server : r # s => via'[r] = via[r]
  BY <1>1 DEF ServerData
<1>8. UNCHANGED <<nodes, heads, event, leaving, proc, before, blank, log, mutex, asked, acked, unsent>>
  BY <1>1 DEF chain, process, history
<1>9. \A x, y \in Server : Leads(x, y)' => Leads(x, y)
  <2>1. UNCHANGED <<aim, link>>
    BY <1>1 DEF nextlink
  <2>2. \A x, y \in Server : via'[x] = y => via[x] = y \/ (x = s /\ y = t)
    BY <1>7
  <2>3. QED
    BY <1>3, <2>1, <2>2 DEF Leads
<1>10. Alive(s)
  BY <1>1 DEF Alive
<1>11. QED
  BY <1>1, <1>2, <1>3, <1>4, <1>5, <1>6, <1>7, <1>8, <1>9, <1>10

LEMMA ForwardKeepsChain ==
    ASSUME ChainInv, TypeInv', NEW s \in Server, NEW w \in Write, Forward(s, w)
    PROVE  ChainInv'
<1> USE DEF ChainInv
<1>1. PICK t \in Server :
         /\ t > s /\ Alive(t) /\ Alive(s) /\ Leads(s, t)
         /\ proc[s] = "serving" /\ pc[s][w] = "applied" /\ pc[t][w] = "none"
         /\ pc'[s][w] = "awaiting" /\ pc'[t][w] = "received" /\ via'[s] = t /\ from'[t][w] = s
         /\ \A r \in Server, v \in Write : (r # s /\ r # t) \/ v # w => pc'[r][v] = pc[r][v]
         /\ \A r \in Server, v \in Write : r # t \/ v # w => from'[r][v] = from[r][v]
         /\ \A r \in Server : r # s => via'[r] = via[r]
         /\ UNCHANGED <<nodes, heads, event, leaving, proc, before, blank, log, mutex, asked, acked, unsent>>
         /\ \A x, y \in Server : Leads(x, y)' => Leads(x, y)
  BY ForwardEffect
<1>2. /\ \A r \in Server : (Alive(r)' <=> Alive(r)) /\ (Joiner(r)' <=> Joiner(r)) /\ (Copying(r)' <=> Copying(r))
      /\ Kept' = Kept /\ Keepers' = Keepers
  BY <1>1 DEF Alive, Joiner, Copying, Kept, Keepers
<1>3. nodes \subseteq Server /\ nodes \subseteq Kept /\ Kept \subseteq Server /\ t # s
  BY <1>1, KeptServers, Numbers
<1>4. Structure'
  <2>1. Within
    BY <1>1 DEF Within
  <2>2. QED
    BY <2>1, WithinStructure
<1>5. Travel'
  <2>1. Passing'
    <3> SUFFICES ASSUME NEW n \in Server, NEW x \in Server, NEW v \in Write, Upstream(n, x), pc'[x][v] # "none"
                 PROVE  pc'[n][v] # "none"
      BY <1>1, <1>2 DEF Passing, Upstream
    <3>1. CASE x # t \/ v # w
      BY <1>1, <3>1 DEF Travel, Passing
    <3>2. CASE x = t /\ v = w
      <4>1. CASE n = s
        BY <1>1, <3>2, <4>1
      <4>2. CASE n < s
        <5>1. Upstream(n, s)
          BY <1>1, <3>2, <4>2, Numbers DEF Upstream
        <5>2. pc[n][w] # "none"
          BY <1>1, <5>1 DEF Travel, Passing
        <5>3. QED
          BY <1>1, <3>2, <5>2
      <4>3. CASE s < n
        <5>1. n < t
          BY <3>2 DEF Upstream
        <5>2. n \notin nodes
          BY <1>1, <4>3, <5>1, Numbers DEF Structure, Layout, Adjacent
        <5>3. PICK r \in Server : Joiner(r) /\ before[r] = n /\ t < r
          BY <3>2, <5>2 DEF Upstream
        <5>4. t >= r
          BY <1>1, <4>3, <5>1, <5>3 DEF Structure, Layout, Over
        <5>5. QED
          BY <5>3, <5>4, Numbers
      <4>4. QED
        BY <4>1, <4>2, <4>3, Numbers
    <3>3. QED
      BY <3>1, <3>2
  <2>2. Logged'
    BY <1>1 DEF Travel, Logged, Section
  <2>3. Asked'
    BY <1>1 DEF Travel, Asked
  <2>4. AtHead' /\ Called'
    BY <1>1, <1>3, Numbers DEF Travel, AtHead, Called
  <2>5. InTurn'
    <3> SUFFICES ASSUME NEW x \in Server, NEW y \in Server, NEW v \in Write \ unsent, x < y,
                        pc'[x][v] # "none", pc'[y][v] \in {"received", "applied", "awaiting"}
                 PROVE  pc'[x][v] = "awaiting"
      BY <1>1 DEF InTurn
    <3>1. CASE v # w \/ (x # s /\ x # t /\ y # s /\ y # t)
      BY <1>1, <3>1 DEF Travel, InTurn
    <3>2. CASE v = w /\ x = s
      BY <1>1, <3>2
    <3>3. CASE v = w /\ x # s /\ y \in {s, t}
      <4>1. x # t
        BY <1>1, <3>3, Numbers
      <4>2. pc[x][w] # "none"
        BY <1>1, <3>3, <4>1
      <4>3. ~(s < x)
        BY <1>1, <4>2 DEF TypeInv, Handlers, Frontier
      <4>4. x < s
        BY <3>3, <4>3, Numbers
      <4>5. pc[x][w] = "awaiting"
        BY <1>1, <3>3, <4>2, <4>4 DEF Travel, InTurn
      <4>6. QED
        BY <1>1, <3>3, <4>1, <4>5
    <3>4. CASE v = w /\ x = t
      <4>1. s < y /\ y # s /\ y # t
        BY <1>1, <3>4, Numbers
      <4>2. pc[y][w] = "none"
        BY <1>1, <4>1 DEF TypeInv, Handlers, Frontier
      <4>3. QED
        BY <1>1, <3>4, <4>1, <4>2
    <3>5. QED
      BY <3>1, <3>2, <3>3, <3>4
  <2>6. Between'
    <3> SUFFICES ASSUME NEW x \in Server, NEW y \in Server, NEW v \in Write,
                        pc'[x][v] = "awaiting", x < y, y < via'[x]
                 PROVE  pc'[y][v] = "none"
      BY DEF Between
    <3>1. CASE x = s /\ v = w
      <4>1. pc[y][w] = "none" /\ y # s /\ y # t
        BY <1>1, <3>1, Numbers DEF TypeInv, Handlers, Frontier
      <4>2. QED
        BY <1>1, <3>1, <4>1
    <3>2. CASE x # s \/ v # w
      <4>1. pc[x][v] = "awaiting"
        BY <1>1, <3>2
      <4>2. x # s
        <5>1. x = s => mutex[s] = v
          BY <4>1 DEF TypeInv, Handlers, Owned, Section
        <5>2. mutex[s] = w
          BY <1>1 DEF TypeInv, Handlers, Owned, Section
        <5>3. QED
          BY <3>2, <5>1, <5>2
      <4>3. y < via[x]
        BY <1>1, <4>2
      <4>4. pc[y][v] = "none"
        BY <4>1, <4>3 DEF Travel, Between
      <4>5. ~(y = t /\ v = w)
        <5>1. SUFFICES ASSUME y = t, v = w PROVE FALSE
          OBVIOUS
        <5>2. ~(s < x)
          BY <1>1, <4>1, <5>1 DEF TypeInv, Handlers, Frontier
        <5>3. via[x] \in Server
          BY <4>1 DEF Travel, Called
        <5>4. x < s /\ s < via[x]
          BY <1>1, <4>2, <4>3, <5>1, <5>2, <5>3, Numbers
        <5>5. QED
          BY <1>1, <4>1, <5>1, <5>4 DEF Travel, Between
      <4>6. QED
        BY <1>1, <4>4, <4>5
    <3>3. QED
      BY <3>1, <3>2
  <2>7. QED
    BY <2>1, <2>2, <2>3, <2>4, <2>5, <2>6 DEF Travel
<1>6. ASSUME NEW x \in Server, CastOff(x) PROVE CastOff(x)'
  BY <1>1, <1>2, <1>3, <1>6, CastOffStays
<1>7. \A r \in Server : Off(s, r) => Off(t, r) /\ t < r
  BY <1>1, Numbers DEF Off
<1>8. \A k \in Server, v \in Write : Copied(k, v) => Copied(k, v)' /\ before[k] \in Server
  <2> SUFFICES ASSUME NEW k \in Server, NEW v \in Write, Copied(k, v)
               PROVE  Copied(k, v)' /\ before[k] \in Server
    OBVIOUS
  <2>1. proc[k] = "copied" /\ Holds(before[k], v)
    BY DEF Copied
  <2>2. before[k] \in Server
    BY <2>1 DEF Structure, Roles, Joined, Joiner
  <2>3. QED
    BY <1>1, <2>1, <2>2 DEF Copied, Holds, Dead
<1>9. Overtaken'
  <2> SUFFICES ASSUME NEW k \in Kept, NEW x \in Server, NEW v \in Write \ unsent,
                      Alive(k), Contains(log[k], v), pc'[k][v] = "none",
                      x < k, pc'[x][v] \in {"received", "applied"}
               PROVE  CastOff(x)' \/ (Copied(k, v)' /\ before[k] <= x)
    BY <1>1, <1>2, <1>3 DEF Overtaken
  <2>1. k \in Server
    BY <1>3
  <2>2. pc[k][v] = "none"
    BY <1>1, <2>1
  <2>3. CASE x # t \/ v # w
    <3>1. pc[x][v] = pc'[x][v]
      BY <1>1, <2>3
    <3>2. QED
      BY <1>6, <1>8, <2>1, <2>2, <3>1 DEF Repeats, Overtaken
  <2>4. CASE x = t /\ v = w
    <3>1. s < k
      BY <1>1, <2>1, <2>4, Numbers
    <3>2. CASE CastOff(s)
      BY <1>6, <1>7, <2>4, <3>2 DEF CastOff
    <3>3. CASE Copied(k, w) /\ before[k] <= s
      <4>1. before[k] <= t
        BY <1>1, <1>8, <2>1, <3>3, Numbers
      <4>2. QED
        BY <1>8, <2>1, <2>4, <3>3, <4>1
    <3>4. QED
      BY <1>1, <2>1, <2>2, <2>4, <3>1, <3>2, <3>3 DEF Repeats, Overtaken
  <2>5. QED
    BY <2>3, <2>4
<1>10. Again'
  <2> SUFFICES ASSUME NEW y \in Kept, NEW v \in Write \ unsent,
                      Alive(y), pc'[y][v] = "received", Contains(log[y], v)
               PROVE  Copied(y, v)'
    BY <1>1, <1>2, <1>3 DEF Again
  <2>1. y \in Server
    BY <1>3
  <2>2. CASE y = t /\ v = w
    <3>1. ~CastOff(s)
      BY <1>1, <1>7, <2>2, Numbers DEF CastOff, Off
    <3>2. Copied(t, w)
      BY <1>1, <2>2, <3>1 DEF Repeats, Overtaken
    <3>3. QED
      BY <1>8, <2>2, <3>2
  <2>3. CASE y # t \/ v # w
    <3>1. pc[y][v] = "received"
      BY <1>1, <2>1, <2>3
    <3>2. QED
      BY <1>8, <2>1, <3>1 DEF Repeats, Again
  <2>4. QED
    BY <2>2, <2>3
<1>11. Soon'
  <2> SUFFICES ASSUME NEW y \in Server, NEW v \in Write \ unsent, Copying(y), pc'[y][v] = "received",
                      Alive(before[y])', Contains(log[before[y]], v)
               PROVE  pc'[before[y]][v] = "awaiting"
    BY <1>1, <1>2 DEF Soon
  <2>1. PICK u \in Server : u = before[y] /\ u < y
    BY DEF Structure, Roles, Joined, Joiner, Copying
  <2>2. Joiner(y) /\ y \in nodes /\ Alive(u) /\ Contains(log[u], v)
    BY <1>1, <2>1 DEF Copying, Joiner, Entering, Structure, Roles, Joined, Alive
  <2>3. CASE y = t /\ v = w
    <3>1. u \in Kept
      BY <2>1, <2>2 DEF Kept
    <3>2. CASE u < s
      <4>1. Upstream(u, s)
        BY <1>1, <2>1, <2>2, <2>3, <3>2 DEF Upstream
      <4>2. pc[u][w] = "awaiting"
        BY <1>1, <2>3, <3>2, <4>1 DEF Travel, Passing, InTurn
      <4>3. QED
        BY <1>1, <2>1, <2>3, <4>2
    <3>3. ~(s < u)
      <4> SUFFICES ASSUME s < u PROVE FALSE
        OBVIOUS
      <4>1. pc[u][w] = "none"
        BY <1>1, Numbers DEF TypeInv, Handlers, Frontier
      <4>2. ~CastOff(s)
        BY <1>7, <2>1, <2>3, <3>1, Numbers DEF CastOff, Off
      <4>3. Copied(u, w)
        BY <1>1, <2>2, <2>3, <3>1, <4>1, <4>2 DEF Repeats, Overtaken
      <4>4. u \in nodes
        BY <4>3 DEF Copied, Joiner, Entering, Structure, Roles, Joined
      <4>5. t <= u
        BY <1>1, <4>4 DEF Structure, Layout, Adjacent
      <4>6. QED
        BY <2>1, <2>3, <4>5, Numbers
    <3>4. CASE u = s
      BY <1>1, <2>1, <2>3, <3>4
    <3>5. QED
      BY <3>2, <3>3, <3>4, Numbers
  <2>4. CASE y # t \/ v # w
    <3>1. pc[y][v] = "received"
      BY <1>1, <2>4
    <3>2. pc[u][v] = "awaiting"
      BY <2>1, <2>2, <3>1 DEF Repeats, Soon
    <3>3. QED
      BY <1>1, <2>1, <3>2
  <2>5. QED
    BY <2>3, <2>4
<1>12. Tables'
  <2>1. Once' /\ Newest' /\ InHand' /\ AckKept'
    BY <1>1, <1>2 DEF Tables, Once, Newest, InHand, AckKept
  <2>2. Ordered'
    BY <1>1, <1>2 DEF Tables, Ordered, Agree
  <2>3. Reached'
    <3>1. \A a \in Server, v \in Write : pc'[a][v] \in {"astray", "released", "replied"} => pc[a][v] = pc'[a][v]
      BY <1>1
    <3>2. QED
      BY <1>1, <1>2, <3>1 DEF Tables, Reached, Covered
  <2>4. QED
    BY <2>1, <2>2, <2>3 DEF Tables
<1>13. QED
  BY <1>4, <1>5, <1>9, <1>10, <1>11, <1>12 DEF Repeats
-----------------------------------------------------------------------------
(* A handler that has changed its table goes on, to b: it waits, gives the *)
(* mutex back, or answers.                                                 *)
Later == {"astray", "released", "replied"}
Moved(s, w, b) ==
    /\ proc[s] = "serving" /\ pc[s][w] \in Section \cup {"released"} /\ b \in Later \cup {"awaiting"}
    /\ UNCHANGED <<nodes, heads, event, leaving, proc, before, blank, log, asked, from>>
    /\ pc'[s][w] = b
    /\ \A r \in Server, v \in Write : r # s \/ v # w => pc'[r][v] = pc[r][v]
    /\ \A r \in Server : r # s => mutex'[r] = mutex[r] /\ via'[r] = via[r]
    /\ mutex'[s] = mutex[s] \/ (mutex'[s] = 0 /\ mutex[s] = w /\ b \in Later)
    /\ pc[s][w] \in Section \/ via'[s] = via[s]
    /\ b = "awaiting" => via'[s] \in Server /\ pc[s][w] = "applied"
    /\ \A x, y \in Server : Leads(x, y)' => Leads(x, y)
    /\ unsent \subseteq unsent'

(* The server that it waited for has answered, and those below have the    *)
(* write, or the write is known not to have been passed on; and what a     *)
(* client is told is in every table that is kept.                          *)
Waited(s, w) == pc[s][w] = "awaiting" => w \in unsent' \/ pc[via[s]][w] = "replied"
Sent(s, w)   == w \in unsent' \/ Covered(s, w)
Told(w)      == \A v \in acked' \ acked : v = w /\ (w \in unsent' \/ \A t \in Keepers : Contains(log[t], w))

LEMMA MovedTravel ==
    ASSUME ChainInv, NEW s \in Server, NEW w \in Write, NEW b, Moved(s, w, b), Waited(s, w)
    PROVE  Travel'
<1> USE DEF ChainInv, Moved, Travel
<1>1. \A r \in Server : (Alive(r)' <=> Alive(r)) /\ (Joiner(r)' <=> Joiner(r))
  BY DEF Alive, Joiner
<1>2. pc[s][w] # "none" /\ pc'[s][w] # "none" /\ Contains(log[s], w)
  BY DEF Logged, Section, Later
<1>3. \A r \in Server, v \in Write : pc'[r][v] = "none" <=> pc[r][v] = "none"
  BY <1>2
<1>4. Passing'
  <2>1. \A n, t \in Server : Upstream(n, t)' <=> Upstream(n, t)
    BY <1>1 DEF Upstream
  <2>2. QED
    BY <1>3, <2>1 DEF Passing
<1>5. Logged'
  BY <1>2 DEF Logged
<1>6. Asked'
  BY DEF Asked
<1>7. AtHead'
  BY <1>3 DEF AtHead
<1>8. \A r \in Server, v \in Write : pc'[r][v] = "awaiting" =>
        (r = s /\ v = w) \/ (pc[r][v] = "awaiting" /\ via'[r] = via[r])
  <2> SUFFICES ASSUME NEW r \in Server, NEW v \in Write, pc'[r][v] = "awaiting", r # s \/ v # w
               PROVE  pc[r][v] = "awaiting" /\ via'[r] = via[r]
    OBVIOUS
  <2>1. pc[r][v] = "awaiting"
    OBVIOUS
  <2>2. CASE r # s
    BY <2>1, <2>2
  <2>3. CASE r = s /\ v # w
    <3>1. mutex[s] = v
      BY <2>1, <2>3 DEF TypeInv, Handlers, Owned, Section
    <3>2. pc[s][w] \notin Section
      BY <2>3, <3>1 DEF TypeInv, Handlers, Owned
    <3>3. QED
      BY <2>1, <2>3, <3>2
  <2>4. QED
    BY <2>2, <2>3
<1>9. pc'[s][w] = "awaiting" => via'[s] \in Server /\ pc[s][w] = "applied"
  BY DEF Later
<1>10. Called'
  BY <1>8, <1>9 DEF Called
<1>11. InTurn'
  <2> SUFFICES ASSUME NEW x \in Server, NEW y \in Server, NEW v \in Write \ unsent', x < y,
                      pc'[x][v] # "none", pc'[y][v] \in {"received", "applied", "awaiting"}
               PROVE  pc'[x][v] = "awaiting"
    BY DEF InTurn
  <2>1. v \in Write \ unsent /\ pc[x][v] # "none"
    BY <1>3
  <2>2. pc[y][v] \in {"received", "applied", "awaiting"}
    BY <1>9 DEF Later
  <2>3. pc[x][v] = "awaiting"
    BY <2>1, <2>2 DEF InTurn
  <2>4. CASE x # s \/ v # w
    BY <2>3, <2>4
  <2>5. CASE x = s /\ v = w
    <3>1. PICK z \in Server : z = via[s] /\ pc[z][w] = "replied"
      BY <2>3, <2>5 DEF Waited, Called
    <3>2. ~(y < z)
      BY <2>2, <2>3, <2>5, <3>1 DEF Between
    <3>3. ~(z < y)
      BY <2>1, <2>2, <2>5, <3>1 DEF InTurn
    <3>4. y # z
      BY <2>2, <2>5, <3>1
    <3>5. QED
      BY <3>2, <3>3, <3>4, Numbers
  <2>6. QED
    BY <2>4, <2>5
<1>12. Between'
  <2> SUFFICES ASSUME NEW x \in Server, NEW y \in Server, NEW v \in Write,
                      pc'[x][v] = "awaiting", x < y, y < via'[x]
               PROVE  pc'[y][v] = "none"
    BY DEF Between
  <2>1. CASE x = s /\ v = w
    <3>1. pc[y][w] = "none"
      BY <1>9, <2>1 DEF TypeInv, Handlers, Frontier
    <3>2. QED
      BY <1>3, <2>1, <3>1
  <2>2. CASE x # s \/ v # w
    <3>1. pc[x][v] = "awaiting" /\ via'[x] = via[x]
      BY <1>8, <2>2
    <3>2. pc[y][v] = "none"
      BY <3>1 DEF Between
    <3>3. QED
      BY <1>3, <3>2
  <2>3. QED
    BY <2>1, <2>2
<1>13. QED
  BY <1>4, <1>5, <1>6, <1>7, <1>10, <1>11, <1>12

LEMMA MovedRepeats ==
    ASSUME ChainInv, NEW s \in Server, NEW w \in Write, NEW b, Moved(s, w, b), Travel'
    PROVE  Repeats'
<1> USE DEF ChainInv
<1>1. /\ UNCHANGED <<nodes, proc, before, log>>
      /\ \A r \in Server, v \in Write : r # s \/ v # w => pc'[r][v] = pc[r][v]
      /\ unsent \subseteq unsent' /\ pc[s][w] # "none" /\ pc'[s][w] \notin {"none", "received", "applied"}
      /\ \A x, y \in Server : Leads(x, y)' => Leads(x, y)
  BY DEF Moved, Section, Later
<1>2. /\ \A r \in Server : (Alive(r)' <=> Alive(r)) /\ (Joiner(r)' <=> Joiner(r)) /\ (Copying(r)' <=> Copying(r))
      /\ Kept' = Kept /\ nodes \subseteq Kept /\ Kept \subseteq Server
  BY <1>1, KeptServers DEF Alive, Joiner, Copying, Kept
<1>3. ASSUME NEW x \in Server, CastOff(x) PROVE CastOff(x)'
  BY <1>1, <1>2, <1>3, CastOffStays
<1>4. ASSUME NEW k \in Server, NEW v \in Write \ unsent', Copied(k, v),
             NEW x \in Server, before[k] <= x, pc'[x][v] \in {"received", "applied"}
      PROVE  Copied(k, v)'
  <2>1. proc[k] = "copied" /\ Holds(before[k], v)
    BY <1>4 DEF Copied
  <2>2. PICK u \in Server : u = before[k]
    BY <2>1 DEF Structure, Roles, Joined, Joiner
  <2>3. CASE u # s \/ v # w
    BY <1>1, <2>1, <2>2, <2>3 DEF Copied, Holds, Dead
  <2>4. CASE u = s /\ v = w
    <3>1. x # s
      BY <1>1, <1>4, <2>4
    <3>2. s < x
      BY <1>4, <2>2, <2>4, <3>1, Numbers
    <3>3. pc'[s][w] = "awaiting"
      BY <1>1, <1>4, <2>4, <3>2 DEF Travel, InTurn
    <3>4. QED
      BY <1>1, <2>1, <2>2, <2>4, <3>3 DEF Copied, Holds
  <2>5. QED
    BY <2>3, <2>4
<1>5. Overtaken'
  <2> SUFFICES ASSUME NEW t \in Kept, NEW x \in Server, NEW v \in Write \ unsent',
                      Alive(t), Contains(log[t], v), pc'[t][v] = "none",
                      x < t, pc'[x][v] \in {"received", "applied"}
               PROVE  CastOff(x)' \/ (Copied(t, v)' /\ before[t] <= x)
    BY <1>1, <1>2 DEF Overtaken
  <2>1. t \in Server /\ v \in Write \ unsent /\ pc[t][v] = "none" /\ pc[x][v] = pc'[x][v]
    BY <1>1, <1>2
  <2>2. CASE CastOff(x)
    BY <1>3, <2>2
  <2>3. CASE Copied(t, v) /\ before[t] <= x
    BY <1>4, <2>1, <2>3
  <2>4. QED
    BY <2>1, <2>2, <2>3 DEF Repeats, Overtaken
<1>6. Again'
  <2> SUFFICES ASSUME NEW y \in Kept, NEW v \in Write \ unsent',
                      Alive(y), pc'[y][v] = "received", Contains(log[y], v)
               PROVE  Copied(y, v)'
    BY <1>1, <1>2 DEF Again
  <2>1. y \in Server /\ v \in Write \ unsent /\ pc[y][v] = "received"
    BY <1>1, <1>2
  <2>2. Copied(y, v)
    BY <2>1 DEF Repeats, Again
  <2>3. before[y] <= y
    <3>1. before[y] \in Server /\ before[y] < y
      BY <2>1, <2>2 DEF Copied, Joiner, Structure, Roles, Joined
    <3>2. QED
      BY <2>1, <3>1, Numbers
  <2>4. QED
    BY <1>4, <2>1, <2>2, <2>3
<1>7. Soon'
  <2> SUFFICES ASSUME NEW y \in Server, NEW v \in Write \ unsent', Copying(y), pc'[y][v] = "received",
                      Alive(before[y])', Contains(log[before[y]], v)
               PROVE  pc'[before[y]][v] = "awaiting"
    BY <1>1, <1>2 DEF Soon
  <2>1. before[y] \in Server /\ before[y] < y
    BY DEF Structure, Roles, Joined, Joiner, Copying
  <2>2. v \in Write \ unsent /\ pc[y][v] = "received" /\ Alive(before[y])
    BY <1>1, <1>2, <2>1 DEF Alive
  <2>3. pc[before[y]][v] = "awaiting"
    BY <2>2 DEF Repeats, Soon
  <2>4. pc'[before[y]][v] # "none"
    BY <1>1, <2>1, <2>3
  <2>5. QED
    BY <2>1, <2>4 DEF Travel, InTurn
<1>8. QED
  BY <1>5, <1>6, <1>7 DEF Repeats

LEMMA MovedTables ==
    ASSUME ChainInv, NEW s \in Server, NEW w \in Write, NEW b, Moved(s, w, b),
           b \in Later => Sent(s, w), Told(w)
    PROVE  Tables'
<1> USE DEF ChainInv
<1>1. /\ UNCHANGED <<nodes, proc, before, log, blank>> /\ pc'[s][w] = b /\ unsent \subseteq unsent'
      /\ \A r \in Server, v \in Write : r # s \/ v # w => pc'[r][v] = pc[r][v]
      /\ \A r \in Server : r # s => mutex'[r] = mutex[r]
      /\ mutex'[s] = mutex[s] \/ (mutex'[s] = 0 /\ mutex[s] = w /\ b \in Later)
  BY DEF Moved
<1>2. Keepers' = Keepers /\ Keepers \subseteq Server
  BY <1>1, KeptServers DEF Keepers, Kept, Copying
<1>3. Once'
  BY <1>1, <1>2 DEF Tables, Once
<1>4. Newest'
  BY <1>1 DEF Tables, Newest
<1>5. Ordered'
  BY <1>1, <1>2 DEF Tables, Ordered, Agree
<1>6. InHand'
  <2> SUFFICES ASSUME NEW a \in Keepers, NEW t \in Keepers, NEW v \in Write \ unsent',
                      a < t, Contains(log[a], v), ~Contains(log[t], v)
               PROVE  mutex'[a] = v
    BY <1>1, <1>2 DEF InHand
  <2>1. mutex[a] = v /\ a \in Server /\ t >= a
    BY <1>1, <1>2, Numbers DEF Tables, InHand
  <2>2. a = s /\ v = w => b \notin Later
    BY <2>1 DEF Sent, Covered
  <2>3. QED
    BY <1>1, <2>1, <2>2
<1>7. Reached'
  <2> SUFFICES ASSUME NEW a \in Server, NEW v \in Write \ unsent', pc'[a][v] \in Later,
                      NEW t \in Keepers, t >= a
               PROVE  Contains(log[t], v)
    BY <1>1, <1>2 DEF Reached, Covered, Later
  <2>1. CASE a = s /\ v = w
    BY <1>1, <2>1 DEF Sent, Covered
  <2>2. CASE a # s \/ v # w
    BY <1>1, <2>2 DEF Tables, Reached, Covered, Later
  <2>3. QED
    BY <2>1, <2>2
<1>8. AckKept'
  <2> SUFFICES ASSUME NEW v \in acked' \ unsent', NEW t \in Keepers PROVE Contains(log[t], v)
    BY <1>1, <1>2 DEF AckKept
  <2>1. CASE v \in acked
    BY <1>1, <2>1 DEF Tables, AckKept
  <2>2. CASE v \notin acked
    BY <2>2 DEF Told
  <2>3. QED
    BY <2>1, <2>2
<1>9. QED
  BY <1>3, <1>4, <1>5, <1>6, <1>7, <1>8 DEF Tables

LEMMA MovedKeeps ==
    ASSUME ChainInv, TypeInv', NEW s \in Server, NEW w \in Write, NEW b, Moved(s, w, b),
           Waited(s, w), b \in Later => Sent(s, w), Told(w)
    PROVE  ChainInv'
<1>1. Structure'
  <2>1. Within
    BY DEF Moved, Within
  <2>2. QED
    BY <2>1, WithinStructure DEF ChainInv
<1>2. Travel'
  BY MovedTravel
<1>3. QED
  BY <1>1, <1>2, MovedRepeats, MovedTables DEF ChainInv

LEMMA FinishesMoved ==
    ASSUME TypeInv, NEW s \in Server, NEW w \in Write, proc[s] = "serving", pc[s][w] \in Section,
           Finishes(s, w), Steady, UNCHANGED <<asked, blank>>, unsent \subseteq unsent',
           link' = link \/ \E l \in {link[s], Closed} : link' = [link EXCEPT ![s] = l]
    PROVE  Moved(s, w, "released")
<1> USE DEF TypeInv
<1>1. /\ pc' = [pc EXCEPT ![s][w] = "released"] /\ UNCHANGED <<process, from>>
      /\ mutex' = [mutex EXCEPT ![s] = 0] /\ via' = [via EXCEPT ![s] = 0]
      /\ UNCHANGED <<nodes, heads, event, aim>>
  BY DEF Finishes, Moves, Unlocks, Steady
<1>2. UNCHANGED <<nodes, heads, event, leaving, proc, before, blank, log, asked, from>>
  BY <1>1 DEF process
<1>3. /\ pc'[s][w] = "released"
      /\ \A r \in Server, v \in Write : r # s \/ v # w => pc'[r][v] = pc[r][v]
  BY <1>1, Move DEF ServerData, Stage
<1>4. mutex'[s] = 0 /\ via'[s] = 0 /\ \A r \in Server : r # s => mutex'[r] = mutex[r] /\ via'[r] = via[r]
  BY <1>1 DEF ServerData
<1>5. mutex[s] = w
  BY DEF Handlers, Owned
<1>6. \A x, y \in Server : Leads(x, y)' => Leads(x, y)
  <2>1. \A x \in Server : link'[x] \in {link[x], Closed}
    BY DEF ServerData
  <2>2. \A x, y \in Server : link'[x] = Open(y) => link[x] = Open(y)
    BY <2>1, LinkStates
  <2>3. \A x, y \in Server : via'[x] = y => via[x] = y
    BY <1>4, Numbers
  <2>4. QED
    BY <1>1, <2>2, <2>3 DEF Leads
<1>7. QED
  BY <1>2, <1>3, <1>4, <1>5, <1>6 DEF Moved, Later

LEMMA WaitsMoved ==
    ASSUME TypeInv, NEW s \in Server, NEW w \in Write, proc[s] = "serving", pc[s][w] \in Section,
           NEW b \in {"awaiting", "astray"}, NEW t \in Server \cup {0}, Waits(s, w, b, t),
           UNCHANGED <<nodes, heads, event, aim, link, asked, blank>>, unsent \subseteq unsent',
           t \in Server => Leads(s, t), b = "awaiting" => t \in Server /\ pc[s][w] = "applied"
    PROVE  Moved(s, w, b)
<1> USE DEF TypeInv
<1>1. /\ pc' = [pc EXCEPT ![s][w] = b] /\ UNCHANGED <<process, from, mutex>>
      /\ via' = [via EXCEPT ![s] = t]
  BY DEF Waits, Moves
<1>2. UNCHANGED <<nodes, heads, event, leaving, proc, before, blank, log, asked, from>>
  BY <1>1 DEF process
<1>3. /\ pc'[s][w] = b
      /\ \A r \in Server, v \in Write : r # s \/ v # w => pc'[r][v] = pc[r][v]
  BY <1>1, Move DEF ServerData, Stage, Section
<1>4. via'[s] = t /\ \A r \in Server : r # s => via'[r] = via[r]
  BY <1>1 DEF ServerData
<1>5. \A x, y \in Server : Leads(x, y)' => Leads(x, y)
  BY <1>4 DEF Leads
<1>6. QED
  BY <1>1, <1>2, <1>3, <1>4, <1>5 DEF Moved, Later

(* A server down the chain has answered: it and those below it have the    *)
(* write, and there is nothing in between.                                 *)
LEMMA AnswerCovers ==
    ASSUME ChainInv, NEW s \in Server, NEW w \in Write,
           pc[s][w] = "awaiting", pc[via[s]][w] = "replied", w \notin unsent
    PROVE  Covered(s, w)
<1> USE DEF ChainInv
<1>1. PICK y \in Server : y = via[s]
  BY DEF Travel, Called
<1>2. Leads(s, y) /\ y > s /\ pc[y][w] = "replied"
  BY <1>1 DEF Leads, Structure, Layout, Onward
<1>3. ~Copying(y)
  BY <1>2 DEF Structure, Roles, Backlog, Copying
<1>4. SUFFICES ASSUME NEW t \in Keepers, t >= s PROVE Contains(log[t], w)
  BY DEF Covered
<1>5. t \in Server /\ t \in Kept
  BY KeptServers DEF Keepers
<1>6. CASE t = s
  BY <1>6 DEF Travel, Logged, Section
<1>7. ~(s < t /\ t < y)
  BY <1>2, <1>3, <1>5, KeptJump
<1>8. CASE t >= y
  BY <1>2, <1>8 DEF Tables, Reached, Covered
<1>9. QED
  BY <1>2, <1>4, <1>5, <1>6, <1>7, <1>8, Numbers

(* The server that a client asked is before all that are kept.             *)
LEMMA HeadIsFirst ==
    ASSUME TypeInv, Structure, NEW s \in heads, proc[s] = "serving", NEW t \in Keepers
    PROVE  t >= s
<1> USE DEF Structure, Layout
<1>1. s \in Server /\ t \in Server /\ t \in Kept /\ nodes \subseteq Server
  BY KeptServers DEF Keepers, TypeInv, ChainData
<1>2. CASE t \in nodes
  BY <1>1, <1>2, Numbers DEF HeadFirst
<1>3. CASE t \notin nodes
  <2>1. PICK q \in nodes : Copying(q) /\ t = before[q]
    BY <1>1, <1>3 DEF Kept
  <2>2. q \in Server /\ Joiner(q) /\ s <= q /\ q # s
    BY <1>1, <2>1 DEF Copying, Joiner, HeadFirst
  <2>3. ~(t < s)
    <3>1. t < s => q <= s
      BY <2>1, <2>2 DEF NextTo
    <3>2. QED
      BY <1>1, <2>2, <3>1, Numbers
  <2>4. QED
    BY <1>1, <2>3, Numbers
<1>4. QED
  BY <1>2, <1>3

LEMMA KilledKeepsChain ==
    ASSUME ChainInv, TypeInv', NEW s \in Server, proc[s] = "serving", Killed(s)
    PROVE  ChainInv'
<1>1. Alive(s) /\ Dies(s) /\ UNCHANGED <<nodes, heads, asked, history>>
  BY DEF Alive, Killed
<1>2. Wanes
  BY <1>1, DeathWanes DEF ChainInv, Structure
<1>3. QED
  BY <1>2, WanesKeeps

(* The section ends, or goes astray, and it is known whether the write is  *)
(* further down.                                                           *)
LEMMA EndsKeepChain ==
    ASSUME ChainInv, TypeInv', NEW s \in Server, NEW w \in Write, proc[s] = "serving", pc[s][w] \in Section,
           \/ /\ Finishes(s, w)
              /\ link' = link \/ \E l \in {link[s], Closed} : link' = [link EXCEPT ![s] = l]
           \/ Waits(s, w, "astray", 0) /\ UNCHANGED link,
           Steady, UNCHANGED <<asked, acked, blank>>, unsent \subseteq unsent',
           Waited(s, w), Sent(s, w)
    PROVE  ChainInv'
<1> USE DEF ChainInv
<1>1. Told(w)
  BY DEF Told
<1>2. CASE Finishes(s, w) /\ (link' = link \/ \E l \in {link[s], Closed} : link' = [link EXCEPT ![s] = l])
  <2>1. Moved(s, w, "released")
    BY <1>2, FinishesMoved
  <2>2. QED
    BY <1>1, <2>1, MovedKeeps
<1>3. CASE Waits(s, w, "astray", 0) /\ UNCHANGED link
  <2>1. UNCHANGED <<nodes, heads, event, aim>>
    BY DEF Steady
  <2>2. Moved(s, w, "astray")
    BY <1>3, <2>1, Numbers, WaitsMoved
  <2>3. QED
    BY <1>1, <2>2, MovedKeeps
<1>4. QED
  BY <1>2, <1>3

LEMMA FailsKeepsChain ==
    ASSUME ChainInv, TypeInv', NEW s \in Server, NEW w \in Write, proc[s] = "serving", pc[s][w] \in Section,
           NEW L \in SUBSET {link[s], Closed}, Fails(s, w, L) \/ Strays(s, w)
    PROVE  ChainInv'
<1>1. Steady /\ UNCHANGED <<asked, acked, blank>> /\ unsent' = unsent \cup {w}
  BY DEF Fails, Strays
<1>2. Sent(s, w) /\ Waited(s, w)
  BY <1>1 DEF Sent, Waited
<1>3. \/ Finishes(s, w) /\ \E l \in {link[s], Closed} : link' = [link EXCEPT ![s] = l]
      \/ Waits(s, w, "astray", 0) /\ UNCHANGED link
  BY DEF Fails, Strays, Links
<1>4. QED
  BY <1>1, <1>2, <1>3, EndsKeepChain

LEMMA SkipKeepsChain ==
    ASSUME ChainInv, TypeInv', NEW s \in Server, NEW w \in Write, Skip(s, w)
    PROVE  ChainInv'
<1>1. /\ proc[s] = "serving" /\ pc[s][w] = "applied" /\ Finishes(s, w) /\ Steady /\ link' = link
      /\ UNCHANGED <<asked, acked, blank>>
      /\ unsent' = IF Behind(s, w) = {} THEN unsent ELSE unsent \cup {w}
  BY DEF Skip, At
<1>2. Sent(s, w)
  <2> SUFFICES ASSUME Behind(s, w) = {}, NEW t \in Keepers, t >= s PROVE Contains(log[t], w)
    BY <1>1 DEF Sent, Covered
  <2>1. t \in Kept /\ proc[t] \in {"copied", "serving"} /\ t \in Server
    BY KeptServers DEF Keepers, ChainInv
  <2>2. CASE t > s
    BY <2>1, <2>2 DEF Behind
  <2>3. CASE t = s
    BY <1>1, <2>3 DEF ChainInv, Travel, Logged, Section
  <2>4. QED
    BY <2>1, <2>2, <2>3, Numbers
<1>3. QED
  BY <1>1, <1>2, EndsKeepChain DEF Waited, Section

LEMMA SendsKeepChain ==
    ASSUME ChainInv, TypeInv', NEW s \in Server, NEW w \in Write,
           \/ ForwardToDead(s, w) \/ ForwardAmiss(s, w)
           \/ Answered(s, w) \/ EndOfFile(s, w) \/ Crossed(s, w) \/ StrayEnds(s, w)
    PROVE  ChainInv'
<1>1. CASE ForwardToDead(s, w)
  <2>1. /\ proc[s] = "serving" /\ pc[s][w] = "applied" /\ pc[s][w] \in Section /\ Waited(s, w)
        /\ link[s].state = "open"
    BY <1>1 DEF ForwardToDead, At, Section, Waited
  <2>2. CASE Fails(s, w, {Closed})
    BY <2>1, <2>2, FailsKeepsChain
  <2>3. CASE Killed(s)
    BY <2>1, <2>3, KilledKeepsChain
  <2>4. CASE Waits(s, w, "awaiting", link[s].to) /\ UNCHANGED <<chain, faults, asked, nextlink, history>>
    <3>1. link[s].to \in Server /\ Leads(s, link[s].to)
      BY <2>1, LinkStates, OpenLinks DEF ChainInv, TypeInv, ServerData, Leads
    <3>2. UNCHANGED <<nodes, heads, event, aim, link, asked, acked, unsent, blank>>
      BY <2>4 DEF chain, nextlink, history
    <3>3. Moved(s, w, "awaiting")
      BY <2>1, <2>4, <3>1, <3>2, WaitsMoved DEF ChainInv
    <3>4. Told(w) /\ "awaiting" \notin Later
      BY <3>2 DEF Told, Later
    <3>5. QED
      BY <2>1, <3>3, <3>4, MovedKeeps
  <2>5. QED
    BY <1>1, <2>2, <2>3, <2>4 DEF ForwardToDead
<1>2. CASE ForwardAmiss(s, w)
  <2>1. proc[s] = "serving" /\ pc[s][w] \in Section
    BY <1>2 DEF ForwardAmiss, At, Section
  <2>2. CASE Fails(s, w, {link[s]}) \/ Fails(s, w, {Closed}) \/ Strays(s, w)
    BY <2>1, <2>2, FailsKeepsChain
  <2>3. CASE Killed(s)
    BY <2>1, <2>3, KilledKeepsChain
  <2>4. QED
    BY <1>2, <2>2, <2>3 DEF ForwardAmiss
<1>3. CASE Answered(s, w)
  <2>1. /\ proc[s] = "serving" /\ pc[s][w] = "awaiting" /\ pc[via[s]][w] = "replied"
        /\ Finishes(s, w) /\ Steady /\ link' = link /\ UNCHANGED <<asked, acked, unsent, blank>>
    BY <1>3 DEF Answered, At, history
  <2>2. pc[s][w] \in Section /\ Waited(s, w) /\ Sent(s, w)
    BY <2>1, AnswerCovers DEF Section, Waited, Sent
  <2>3. QED
    BY <2>1, <2>2, EndsKeepChain
<1>4. CASE EndOfFile(s, w)
  <2>1. proc[s] = "serving" /\ pc[s][w] \in Section /\ Fails(s, w, {link[s], Closed})
    BY <1>4 DEF EndOfFile, At, Section
  <2>2. QED
    BY <2>1, FailsKeepsChain
<1>5. CASE Crossed(s, w)
  <2>1. /\ proc[s] = "serving" /\ pc[s][w] = "awaiting" /\ pc[s][w] \in Section
        /\ Steady /\ UNCHANGED <<asked, acked, blank>>
        /\ \/ Dead(via[s]) /\ unsent' = unsent \cup {w}
           \/ pc[via[s]][w] = "replied" /\ unsent' = unsent
    BY <1>5 DEF Crossed, At, Section
  <2>2. Waited(s, w) /\ Sent(s, w) /\ unsent \subseteq unsent'
    BY <2>1, AnswerCovers DEF Waited, Sent
  <2>3. \/ Finishes(s, w) /\ \E l \in {link[s], Closed} : link' = [link EXCEPT ![s] = l]
        \/ Waits(s, w, "astray", 0) /\ UNCHANGED link
    BY <1>5 DEF Crossed, Links
  <2>4. QED
    BY <2>1, <2>2, <2>3, EndsKeepChain
<1>6. CASE StrayEnds(s, w)
  <2>1. /\ proc[s] = "serving" /\ pc[s][w] = "astray" /\ pc[s][w] \in Section
        /\ Finishes(s, w) /\ Steady /\ UNCHANGED <<asked, acked, unsent, blank>>
        /\ \E l \in {link[s], Closed} : link' = [link EXCEPT ![s] = l]
    BY <1>6 DEF StrayEnds, At, Section, history, Links
  <2>2. Waited(s, w) /\ Sent(s, w)
    BY <2>1 DEF Waited, Sent, ChainInv, Tables, Reached
  <2>3. QED
    BY <2>1, <2>2, EndsKeepChain
<1>7. QED
  BY <1>1, <1>2, <1>3, <1>4, <1>5, <1>6

LEMMA ReplyKeepsChain ==
    ASSUME ChainInv, TypeInv', NEW s \in Server, NEW w \in Write, Reply(s, w)
    PROVE  ChainInv'
<1>1. proc[s] = "serving" /\ pc[s][w] = "released"
  BY DEF Reply, At
<1>2. CASE Killed(s)
  BY <1>1, <1>2, KilledKeepsChain
<1>3. CASE ~Killed(s)
  <2>1. /\ pc' = [pc EXCEPT ![s][w] = "replied"] /\ UNCHANGED <<process, from, mutex, via>>
        /\ UNCHANGED <<chain, asked, nextlink, unsent, blank>>
        /\ acked' = IF from[s][w] = 0 THEN acked \cup {w} ELSE acked
    BY <1>3 DEF Reply, Moves
  <2>2. UNCHANGED <<nodes, heads, event, leaving, proc, before, blank, log, asked, from>>
    BY <2>1 DEF chain, process
  <2>3. /\ pc'[s][w] = "replied"
        /\ \A r \in Server, v \in Write : r # s \/ v # w => pc'[r][v] = pc[r][v]
    BY <2>1, Move DEF ChainInv, TypeInv, ServerData, Stage
  <2>4. \A x, y \in Server : Leads(x, y)' => Leads(x, y)
    BY <2>1 DEF nextlink, Leads
  <2>5. Moved(s, w, "replied")
    BY <1>1, <2>1, <2>2, <2>3, <2>4 DEF Moved, Later
  <2>6. Waited(s, w) /\ Sent(s, w)
    BY <1>1, <2>1 DEF Waited, Sent, ChainInv, Tables, Reached
  <2>7. Told(w)
    <3>1. CASE from[s][w] = 0
      <4>1. s \in heads
        BY <1>1, <3>1 DEF ChainInv, Travel, AtHead
      <4>2. \A t \in Keepers : t >= s
        BY <1>1, <4>1, HeadIsFirst DEF ChainInv
      <4>3. QED
        BY <2>1, <2>6, <4>2 DEF Told, Sent, Covered
    <3>2. CASE from[s][w] # 0
      BY <2>1, <3>2 DEF Told
    <3>3. QED
      BY <3>1, <3>2
  <2>8. QED
    BY <2>5, <2>6, <2>7, MovedKeeps
<1>4. QED
  BY <1>2, <1>3
-----------------------------------------------------------------------------
LEMMA ChainInit == Init => ChainInv
<1> SUFFICES ASSUME Init PROVE ChainInv
  OBVIOUS
<1> USE DEF Init
<1>1. /\ \A s \in Server : /\ proc[s] \in {"serving", "absent"} /\ (proc[s] = "absent" <=> s > Formed)
                           /\ ~Joiner(s) /\ ~Copying(s) /\ ~event[s] /\ ~leaving[s]
                           /\ before[s] = 0 /\ log[s] = <<>> /\ mutex[s] = 0
      /\ \A s \in Server, w \in Write : pc[s][w] = "none"
      /\ nodes = 1 .. Formed /\ heads = {1} /\ acked = {}
  <2>1. \A s \in Server : s > Formed <=> ~(s <= Formed)
    BY FailoverAssumption DEF Server
  <2>2. QED
    BY <2>1 DEF Joiner, Copying
<1>2. \A x, y \in Server : Leads(x, y) => y = x + 1 /\ y <= Formed
  <2> SUFFICES ASSUME NEW x \in Server, NEW y \in Server, Leads(x, y) PROVE y = x + 1 /\ y <= Formed
    OBVIOUS
  <2>1. link[x] = Open(y)
    BY Numbers DEF Leads
  <2>2. x < Formed /\ Open(x + 1) = Open(y)
    BY <2>1, LinkStates
  <2>3. x + 1 \in Server /\ x + 1 <= Formed
    BY <2>2, FailoverAssumption DEF Server
  <2>4. QED
    BY <2>2, <2>3, OpenLinks
<1>3. Roles
  BY <1>1 DEF Roles, Heard, Leaves, Joined, Entering, Backlog
<1>4. Numbered /\ Youngest
  <2>1. \A s \in Server : s > Formed => s \notin 1 .. Formed /\ s \notin {1} /\ s # 1 /\ ~(s <= Formed)
    BY FailoverAssumption DEF Server
  <2>2. \A s, t \in Server : s > Formed /\ t > s => t > Formed
    BY FailoverAssumption DEF Server
  <2>3. QED
    BY <1>1, <1>2, <2>1, <2>2, Numbers DEF Numbered, Youngest
<1>5. Onward /\ Adjacent
  <2>1. \A x, y \in Server : y = x + 1 => y > x /\ \A n \in 1 .. Formed : x < n => y <= n
    BY FailoverAssumption DEF Server
  <2>2. QED
    BY <1>1, <1>2, <2>1 DEF Onward, Adjacent
<1>6. HeadFirst
  BY <1>1 DEF HeadFirst
<1>7. NextTo /\ Over /\ Beside /\ LateBlank
  BY <1>1 DEF NextTo, Over, Beside, LateBlank
<1>8. Structure
  BY <1>3, <1>4, <1>5, <1>6, <1>7 DEF Structure, Layout
<1>9. TypeInv
  BY TypeInit
<1>10. Kept \subseteq Server
  BY <1>8, <1>9, KeptServers
<1>11. Travel
  BY <1>1, EmptyTable DEF Travel, Passing, Logged, Asked, AtHead, Called, InTurn, Between, Section
<1>12. Repeats
  BY <1>1, <1>10 DEF Repeats, Overtaken, Again, Soon
<1>13. Tables
  <2>1. Keepers \subseteq Server
    BY <1>10 DEF Keepers
  <2>2. \A s \in Server, w \in Write : ~Contains(log[s], w) /\ ~Earlier(log[s], w, w)
    BY <1>1, EmptyTable
  <2>3. Once /\ InHand
    BY <2>1, <2>2 DEF Once, InHand
  <2>4. Ordered
    BY <2>1, <2>2 DEF Ordered, Agree
  <2>5. Newest /\ Reached /\ AckKept
    BY <1>1 DEF Newest, Reached, AckKept
  <2>6. QED
    BY <2>3, <2>4, <2>5 DEF Tables
<1>14. QED
  BY <1>8, <1>9, <1>11, <1>12, <1>13 DEF ChainInv

LEMMA StillKeepsChain == ChainInv /\ UNCHANGED vars => ChainInv'
<1> SUFFICES ASSUME ChainInv, UNCHANGED vars PROVE ChainInv'
  OBVIOUS
<1> USE DEF ChainInv, vars, chain, process, nextlink, handler, history
<1>1. TypeInv'
  BY TypeStep
<1>2. /\ \A x, y \in Server : Leads(x, y)' <=> Leads(x, y)
      /\ Kept' = Kept /\ Keepers' = Keepers /\ Kept \subseteq Server
  BY KeptServers DEF Leads, Kept, Keepers, Copying
<1>3. Structure'
  <2>1. Within
    BY <1>2 DEF Within
  <2>2. QED
    BY <2>1, WithinStructure
<1>4. Travel'
  BY DEF Travel, Passing, Upstream, Alive, Joiner, Logged, Asked, AtHead, Called, InTurn, Between
<1>5. Repeats'
  <2>1. \A x \in Server : CastOff(x)' <=> CastOff(x)
    BY <1>2 DEF CastOff, Off
  <2>2. \A y \in Server, w \in Write : Copied(y, w)' <=> Copied(y, w)
    BY DEF Copied, Holds, Dead
  <2>3. Overtaken'
    BY <1>2, <2>1, <2>2 DEF Repeats, Overtaken, Alive
  <2>4. Again' /\ Soon'
    BY <1>2, <2>2 DEF Repeats, Again, Soon, Alive, Copying
  <2>5. QED
    BY <2>3, <2>4 DEF Repeats
<1>6. Tables'
  <2>1. Once' /\ Newest' /\ InHand' /\ AckKept'
    BY <1>2 DEF Tables, Once, Newest, InHand, AckKept
  <2>2. Ordered' /\ Reached'
    BY <1>2 DEF Tables, Ordered, Agree, Reached, Covered
  <2>3. QED
    BY <2>1, <2>2 DEF Tables
<1>7. QED
  BY <1>1, <1>3, <1>4, <1>5, <1>6

(* Servers that die, leave, lose their session, or make and drop links.    *)
LEMMA FaultsWane ==
    ASSUME ChainInv, NEW s \in Server, Crash(s) \/ Expire(s) \/ StartLeave(s) \/ EndLeave(s) \/ LoseSession(s)
    PROVE  Wanes
<1> USE DEF ChainInv, Structure
<1>1. CASE Crash(s)
  BY <1>1, DeathWanes DEF Crash
<1>2. CASE Expire(s)
  BY <1>2, LeaveWanes
<1>3. CASE StartLeave(s)
  BY <1>3, StartLeaveWanes
<1>4. CASE EndLeave(s)
  <2>1. proc[s] = "serving" /\ Alive(s)
    BY <1>4 DEF EndLeave, Roles, Leaves, Alive
  <2>2. CASE SessionEnds(s)
    BY <2>1, <2>2, LeaveWanes
  <2>3. CASE Dies(s) /\ UNCHANGED <<nodes, heads, lost, faults, asked, history>>
    BY <2>1, <2>3, DeathWanes
  <2>4. QED
    BY <1>4, <2>2, <2>3 DEF EndLeave
<1>5. CASE LoseSession(s)
  BY <1>5, LeaveWanes DEF LoseSession
<1>6. QED
  BY <1>1, <1>2, <1>3, <1>4, <1>5

LEMMA ChainStep == ChainInv /\ [Next]_vars => ChainInv'
<1> SUFFICES ASSUME ChainInv, [Next]_vars PROVE ChainInv'
  OBVIOUS
<1>1. TypeInv'
  BY TypeStep DEF ChainInv
<1>2. ASSUME NEW s \in Server, Progress(s) \/ Environment(s) PROVE ChainInv'
  <2>1. CASE \E w \in Write : Handle(s, w) \/ StrayEnds(s, w)
    BY <1>1, <2>1, ApplyKeepsChain, ForwardKeepsChain, ReplyKeepsChain, SkipKeepsChain, SendsKeepChain DEF Handle
  <2>2. CASE CopyTake(s) \/ Register(s) \/ (ListChain(s) /\ proc'[s] # "serving")
    BY <1>1, <2>2, CopyTakeStructure, CopyTakeTravel, CopyTakeRepeats, CopyTakeTables,
       RegisterKeepsChain, ListKeepsChain DEF ChainInv
  <2>3. CASE \/ ListChain(s) /\ proc'[s] = "serving"
             \/ ConnectBefore(s) \/ CopyAsk(s) \/ CopyServe(s) \/ CopyFails(s) \/ Watcher(s)
    <3>1. Wanes
      BY <2>3, CopyWanes, WatcherWanes DEF ChainInv, Structure
    <3>2. QED
      BY <1>1, <3>1, WanesKeeps
  <2>4. CASE Ask(s)
    BY <1>1, <2>4, AskKeepsChain
  <2>5. CASE Expire(s) \/ EndLeave(s) \/ Fault(s)
    <3>1. Wanes
      BY <2>5, FaultsWane DEF Fault
    <3>2. QED
      BY <1>1, <3>1, WanesKeeps
  <2>6. QED
    BY <1>2, <2>1, <2>2, <2>3, <2>4, <2>5 DEF Progress, Environment, Main
<1>3. CASE UNCHANGED vars
  BY <1>3, StillKeepsChain
<1>4. QED
  BY <1>2, <1>3 DEF Next

LEMMA ChainInvariant == Spec => []ChainInv
BY ChainInit, ChainStep, PTL DEF Spec

LEMMA TablesKept == ChainInv => AckedWritesKept /\ TablesAgree
<1> SUFFICES ASSUME ChainInv PROVE AckedWritesKept /\ TablesAgree
  OBVIOUS
<1>1. \A s \in InChain \ blank : s \in Keepers
  BY DEF InChain, Serving, Keepers, Kept
<1>2. AckedWritesKept
  BY <1>1 DEF ChainInv, Tables, AckKept, AckedWritesKept
<1>3. TablesAgree
  BY <1>1 DEF ChainInv, Tables, Once, Ordered, TablesAgree
<1>4. QED
  BY <1>2, <1>3

(* While servers crash, leave, lose their sessions, join and forward over  *)
(* links that change: a write that a client was told is done is in the     *)
(* table of every server of the chain that did not begin without one,      *)
(* unless some server is known to have failed to pass it on.               *)
THEOREM AckedKept == Spec => []AckedWritesKept
BY ChainInvariant, TablesKept, PTL

(* The tables of the chain have the writes that were passed on in one      *)
(* order, each of them once, the one behind none that the one before has   *)
(* not: a server that joins takes none of them twice, and misses none.     *)
THEOREM OrderKept == Spec => []TablesAgree
BY ChainInvariant, TablesKept, PTL
=============================================================================
