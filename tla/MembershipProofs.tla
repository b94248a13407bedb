-------------------------- MODULE MembershipProofs --------------------------
(***************************************************************************)
(* Proofs about Membership, for every number of servers and of addresses,  *)
(* with crashes, restarts, expired sessions and failed reads of /chain.    *)
(***************************************************************************)
EXTENDS Membership, Integers, FiniteSetTheorems, TLAPS

(* main() has read /chain, and the process is alive.                       *)
Listed(s) == proc[s] = "listed" \/ Linked(s)

(* Before that, and after the end, the process has no watch and no link.   *)
IdleOutside ==
    \A s \in Node : ~Listed(s) =>
        ~watch[s] /\ ~event[s] /\ wlist[s] = NoList /\ next[s] = None /\ ~overtaken[s]

(* Sequence numbers above the last one have not been used.                 *)
Unused == \A s \in Node : proc[s] = "absent" <=> s > last

(* No change of /chain is missed: a session in order has its watch set or  *)
(* an event on its way, and while the watch is set the list in hand is the *)
(* present one.                                                            *)
NothingMissed ==
    \A s \in Node :
        /\ Listed(s) /\ s \in nodes /\ ~lost[s] => watch[s] \/ event[s]
        /\ watch[s] /\ wlist[s] # NoList => wlist[s] = nodes
        /\ watch[s] /\ wlist[s] = NoList /\ ~overtaken[s] /\ proc[s] = "listed"
             => mlist[s] = nodes

(* Until main() links, only child_watcher() can have set the link.         *)
NoLinkYet == \A s \in Node : proc[s] = "listed" /\ ~overtaken[s] => next[s] = None

IInv == TypeOK /\ IdleOutside /\ Unused /\ NothingMissed /\ NoLinkYet /\ LinkFollowsChain
-----------------------------------------------------------------------------
(* Sets of sequence numbers have a lowest and a highest element: strict    *)
(* inclusion of the parts below, or above, an element is well founded.     *)
LEMMA Extremes ==
    ASSUME NEW L \in SUBSET Node, L # {}
    PROVE  Lowest(L) \in L /\ Highest(L) \in L
<1>1. IsFiniteSet(Node) /\ \A i, j \in Node : i \in Int /\ (i < j \/ j <= i)
  BY MembershipAssumption, FS_Interval DEF Node
<1>2. IsWellFoundedOn(StrictSubsetOrdering(Node), SUBSET Node)
  BY <1>1, FS_FiniteSubsetsOfFinite, FS_StrictSubsetOrderingWellFounded
<1>3. Lowest(L) \in L
  <2> DEFINE Parts == {Earlier(i, L) : i \in L}
  <2>1. Parts \subseteq SUBSET Node /\ Parts # {}
    BY DEF Earlier
  <2>2. PICK P \in Parts : \A Q \in Parts : ~(<<Q, P>> \in StrictSubsetOrdering(Node))
    BY <1>2, <2>1, WFMin
  <2>3. PICK i \in L : P = Earlier(i, L)
    BY <2>2
  <2>4. ASSUME NEW j \in L, j < i PROVE FALSE
    <3>1. Earlier(j, L) \subseteq Earlier(i, L) /\ Earlier(j, L) \in SUBSET Node
      BY <1>1, <2>4 DEF Earlier
    <3>2. j \in Earlier(i, L) /\ j \notin Earlier(j, L)
      BY <1>1, <2>4 DEF Earlier
    <3>3. <<Earlier(j, L), Earlier(i, L)>> \in StrictSubsetOrdering(Node)
      BY <2>1, <3>1, <3>2 DEF StrictSubsetOrdering
    <3>4. QED
      BY <2>2, <2>3, <3>3
  <2>5. \A j \in L : i <= j
    BY <1>1, <2>4
  <2>6. QED
    BY <2>5 DEF Lowest
<1>4. Highest(L) \in L
  <2> DEFINE Parts == {Later(i, L) : i \in L}
  <2>1. Parts \subseteq SUBSET Node /\ Parts # {}
    BY DEF Later
  <2>2. PICK P \in Parts : \A Q \in Parts : ~(<<Q, P>> \in StrictSubsetOrdering(Node))
    BY <1>2, <2>1, WFMin
  <2>3. PICK i \in L : P = Later(i, L)
    BY <2>2
  <2>4. ASSUME NEW j \in L, j > i PROVE FALSE
    <3>1. Later(j, L) \subseteq Later(i, L) /\ Later(j, L) \in SUBSET Node
      BY <1>1, <2>4 DEF Later
    <3>2. j \in Later(i, L) /\ j \notin Later(j, L)
      BY <1>1, <2>4 DEF Later
    <3>3. <<Later(j, L), Later(i, L)>> \in StrictSubsetOrdering(Node)
      BY <2>1, <3>1, <3>2 DEF StrictSubsetOrdering
    <3>4. QED
      BY <2>2, <2>3, <3>3
  <2>5. \A j \in L : i >= j
    BY <1>1, <2>4
  <2>6. QED
    BY <2>5 DEF Highest
<1>5. QED
  BY <1>3, <1>4

LEMMA HighestOfOne == ASSUME NEW s \in Node PROVE Highest({s}) = s
<1>1. Highest({s}) \in {s}
  BY Extremes
<1>2. QED
  BY <1>1

(* Every link computed from a list is an address or none.                  *)
LEMMA LinkTypes ==
    ASSUME TypeOK, NEW s \in Node, NEW L \in SUBSET Node
    PROVE  /\ \A i \in Node : Successor(i, L) \in Address \cup {None}
           /\ MainNext(s, L) \in Address \cup {None}
           /\ WatcherNext(s, L) \in Address \cup {None}
           /\ NewBefore(s, L) \in Address \cup {None}
<1> USE MembershipAssumption DEF Node
<1>1. \A i \in Node : Later(i, L) \in SUBSET L /\ Earlier(i, L) \in SUBSET L
  BY DEF Later, Earlier
<1>2. \A K \in SUBSET L : K # {} => Lowest(K) \in Node /\ Highest(K) \in Node
  BY Extremes
<1>3. \A i \in Node : Successor(i, L) \in Address \cup {None}
  BY <1>1, <1>2 DEF Successor, TypeOK
<1>4. MainNext(s, L) \in Address \cup {None}
  <2> DEFINE K == {i \in Own(s, L) : Later(i, L) # {}}
  <2>1. K \in SUBSET L
    BY DEF Own
  <2>2. K # {} => Highest(K) \in Node
    BY <1>2, <2>1
  <2> HIDE DEF K
  <2>3. MainNext(s, L) = IF K = {} THEN next[s] ELSE Successor(Highest(K), L)
    BY DEF MainNext, K
  <2>4. QED
    BY <1>3, <2>2, <2>3 DEF TypeOK
<1>5. WatcherNext(s, L) \in Address \cup {None}
  <2>1. Own(s, L) \in SUBSET L
    BY DEF Own
  <2>2. Own(s, L) # {} => Highest(Own(s, L)) \in Node
    BY <1>2, <2>1
  <2>3. QED
    BY <1>3, <2>2 DEF WatcherNext, TypeOK
<1>6. NewBefore(s, L) \in Address \cup {None}
  <2> DEFINE K == {i \in Own(s, L) : Earlier(i, L) # {}}
  <2>1. K \in SUBSET L /\ \A i \in K : Earlier(i, L) # {}
    BY DEF Own
  <2>2. K # {} => Highest(K) \in Node /\ Earlier(Highest(K), L) # {}
    BY <2>1, Extremes
  <2>3. K # {} => Predecessor(Highest(K), L) \in Address \cup {None}
    BY <1>1, <1>2, <2>2 DEF Predecessor, TypeOK
  <2> HIDE DEF K
  <2>4. NewBefore(s, L) = IF K = {} THEN before[s] ELSE Predecessor(Highest(K), L)
    BY DEF NewBefore, K
  <2>5. QED
    BY <2>3, <2>4 DEF TypeOK
<1>7. QED
  BY <1>3, <1>4, <1>5, <1>6

(* On the present list, with no other node at this address, both threads   *)
(* link to the next node.                                                  *)
LEMMA LinkFromPresent ==
    ASSUME NEW s \in Node, s \in nodes, ~Twin(s), nodes \in SUBSET Node
    PROVE  /\ WatcherNext(s, nodes) = Successor(s, nodes)
           /\ next[s] = None => MainNext(s, nodes) = Successor(s, nodes)
<1>1. Own(s, nodes) = {s}
  BY DEF Own, Twin
<1>2. WatcherNext(s, nodes) = Successor(s, nodes)
  BY <1>1, HighestOfOne DEF WatcherNext
<1>3. CASE Later(s, nodes) = {}
  <2>1. {i \in Own(s, nodes) : Later(i, nodes) # {}} = {}
    BY <1>1, <1>3
  <2>2. QED
    BY <1>2, <1>3, <2>1 DEF MainNext, Successor
<1>4. CASE Later(s, nodes) # {}
  <2>1. {i \in Own(s, nodes) : Later(i, nodes) # {}} = {s}
    BY <1>1, <1>4
  <2>2. MainNext(s, nodes) = Successor(s, nodes)
    BY <2>1, HighestOfOne DEF MainNext
  <2>3. QED
    BY <1>2, <2>2
<1>5. QED
  BY <1>3, <1>4
-----------------------------------------------------------------------------
LEMMA InitIInv == Init => IInv
<1> SUFFICES ASSUME Init PROVE IInv
  OBVIOUS
<1> USE MembershipAssumption DEF Init, Node
<1>1. TypeOK
  <2>1. last \in 0 .. MaxNodes /\ nodes \in SUBSET (1 .. last)
    OBVIOUS
  <2>2. /\ mlist \in [Node -> (SUBSET Node) \cup {NoList}]
        /\ wlist \in [Node -> (SUBSET Node) \cup {NoList}]
    OBVIOUS
  <2>3. /\ addr \in [Node -> Address \cup {None}] /\ next \in [Node -> Address \cup {None}]
        /\ before \in [Node -> Address \cup {None}]
        /\ proc \in [Node -> Stage] /\ peer \in [Node -> Node \cup {0}]
        /\ holder \in [Node -> Node \cup {0, Astray}]
    BY DEF Stage
  <2>4. QED
    BY <2>1, <2>2, <2>3 DEF TypeOK
<1>2. IdleOutside /\ NothingMissed /\ NoLinkYet
  BY DEF IdleOutside, Listed, Linked, NothingMissed, NoLinkYet
<1>3. Unused
  BY DEF Unused
<1>4. LinkFollowsChain
  BY DEF LinkFollowsChain
<1>5. QED
  BY <1>1, <1>2, <1>3, <1>4 DEF IInv

LEMMA NextType == TypeOK /\ IdleOutside /\ Unused /\ [Next]_vars => TypeOK' /\ Unused'
<1> SUFFICES ASSUME TypeOK, IdleOutside, Unused, [Next]_vars PROVE TypeOK' /\ Unused'
  OBVIOUS
<1> USE MembershipAssumption DEF zookeeper, session, links, waiting
<1>1. ASSUME NEW a \in Address, Register(a) PROVE TypeOK' /\ Unused'
  <2>1. last + 1 \in Node /\ last' = last + 1 /\ proc[last + 1] = "absent"
    BY <1>1 DEF Register, Node, TypeOK, Unused
  <2>2. last' \in 0 .. MaxNodes /\ nodes' \in SUBSET (1 .. last')
    <3>1. nodes' = nodes \cup {last + 1}
      BY <1>1 DEF Register, Change
    <3>2. nodes \in SUBSET (1 .. last) /\ last \in 0 .. MaxNodes
      BY DEF TypeOK
    <3>3. QED
      BY <2>1, <3>1, <3>2 DEF Node
  <2>3. /\ watch' \in [Node -> BOOLEAN] /\ event' \in [Node -> BOOLEAN]
        /\ \A s \in Node : ~watch'[s]
    BY <1>1 DEF Register, Change, TypeOK
  <2>4. addr' \in [Node -> Address \cup {None}] /\ proc' \in [Node -> Stage]
    BY <1>1, <2>1 DEF Register, Stage, TypeOK
  <2>5. \A s \in Node : proc'[s] = IF s = last + 1 THEN "registered" ELSE proc[s]
    BY <1>1, <2>1 DEF Register, TypeOK
  <2>6. TypeOK'
    BY <1>1, <2>1, <2>2, <2>3, <2>4, <2>5 DEF Register, TypeOK
  <2>7. Unused'
    BY <2>1, <2>5 DEF Unused, Node, TypeOK
  <2>8. QED
    BY <2>6, <2>7
<1>2. ASSUME NEW s \in Node, MainList(s) PROVE TypeOK' /\ Unused'
  <2>1. ~event[s]
    BY <1>2 DEF MainList, IdleOutside, Listed, Linked
  <2>2. nodes \in SUBSET Node /\ nodes # NoList
    BY DEF TypeOK, Node, NoList
  <2>3. QED
    BY <1>2, <2>1, <2>2 DEF MainList, TypeOK, Unused, Stage
<1>3. ASSUME NEW s \in Node, MainLink(s) PROVE TypeOK' /\ Unused'
  <2>1. mlist[s] \in SUBSET Node
    <3>1. mlist[s] \in (SUBSET Node) \cup {NoList}
      BY DEF TypeOK
    <3>2. mlist[s] # NoList
      BY <1>3 DEF MainLink, TypeOK
    <3>3. QED
      BY <3>1, <3>2
  <2>2. MainNext(s, mlist[s]) \in Address \cup {None} /\ NewBefore(s, mlist[s]) \in Address \cup {None}
    BY <2>1, LinkTypes
  <2>3. QED
    BY <1>3, <2>2 DEF MainLink, TypeOK, Unused, Stage
<1>4. ASSUME NEW s \in Node, Connect(s) PROVE TypeOK' /\ Unused'
  BY <1>4 DEF Connect, TypeOK, Unused, Stage, Node
<1>5. ASSUME NEW s \in Node, Forget(s), Alive(s) PROVE 
        /\ mlist' \in [Node -> (SUBSET Node) \cup {NoList}]
        /\ wlist' \in [Node -> (SUBSET Node) \cup {NoList}]
        /\ next' \in [Node -> Address \cup {None}]
        /\ before' \in [Node -> Address \cup {None}]
        /\ overtaken' \in [Node -> BOOLEAN]
        /\ peer' \in [Node -> Node \cup {0}]
        /\ holder' \in [Node -> Node \cup {0, Astray}]
        /\ proc' \in [Node -> Stage]
        /\ \A t \in Node : /\ mlist'[t] # NoList <=> proc'[t] = "listed"
                           /\ peer'[t] # 0 <=> proc'[t] = "joining"
                           /\ holder'[t] # 0 => proc'[t] = "serving"
                           /\ proc'[t] = "absent" <=> proc[t] = "absent"
  BY <1>5 DEF Forget, Alive, TypeOK, Stage
<1>6. ASSUME NEW s \in Node, Alive(s), Die(s) PROVE TypeOK' /\ Unused'
  BY <1>5, <1>6 DEF Die, TypeOK, Unused
<1>7. ASSUME NEW s \in Node, Copied(s) PROVE TypeOK' /\ Unused'
  BY <1>7 DEF Copied, TypeOK, Unused, Stage
<1>8. ASSUME NEW s \in Node, Fetch(s) PROVE TypeOK' /\ Unused'
  BY <1>8 DEF Fetch, TypeOK, Unused, Node
<1>9. ASSUME NEW s \in Node, WatcherLink(s) PROVE TypeOK' /\ Unused'
  <2>1. wlist[s] \in SUBSET Node
    <3>1. wlist[s] \in (SUBSET Node) \cup {NoList}
      BY DEF TypeOK
    <3>2. QED
      BY <1>9, <3>1 DEF WatcherLink
  <2>2. WatcherNext(s, wlist[s]) \in Address \cup {None} /\ NewBefore(s, wlist[s]) \in Address \cup {None}
    BY <2>1, LinkTypes
  <2>3. /\ holder' \in [Node -> Node \cup {0, Astray}]
        /\ \A t \in Node : holder'[t] # 0 => holder[t] # 0
    BY <1>9 DEF WatcherLink, TypeOK
  <2>4. QED
    BY <1>9, <2>2, <2>3 DEF WatcherLink, TypeOK, Unused
<1>10. ASSUME NEW s \in Node, Leave(s) PROVE TypeOK' /\ Unused'
  BY <1>5, <1>10 DEF Leave, Change, TypeOK, Unused
<1>11. ASSUME NEW s \in Node, Expire(s) PROVE TypeOK' /\ Unused'
  BY <1>11 DEF Expire, Change, TypeOK, Unused
<1>12. ASSUME NEW s \in Node, LoseSession(s) PROVE TypeOK' /\ Unused'
  BY <1>12 DEF LoseSession, Lose, Change, TypeOK, Unused
<1>13. ASSUME NEW s \in Node, FetchFails(s) PROVE TypeOK' /\ Unused'
  <2>1. PICK L \in SUBSET (1 .. last) : wlist' = [wlist EXCEPT ![s] = L]
    BY <1>13 DEF FetchFails
  <2>2. L \in SUBSET Node
    BY <2>1 DEF TypeOK, Node
  <2>3. QED
    BY <1>13, <2>1, <2>2 DEF FetchFails, Lose, TypeOK, Unused
<1>14. ASSUME NEW s \in Node, MainListFails(s) PROVE TypeOK' /\ Unused'
  <2>1. PICK L \in SUBSET (1 .. last) : mlist' = [mlist EXCEPT ![s] = L]
    BY <1>14 DEF MainListFails
  <2>2. L \in SUBSET Node /\ L # NoList
    BY <2>1 DEF TypeOK, Node, NoList
  <2>3. QED
    BY <1>14, <2>1, <2>2 DEF MainListFails, Lose, TypeOK, Unused, Stage
<1>15. ASSUME NEW t \in Node, Write(t) PROVE TypeOK' /\ Unused'
  <2>1. /\ UNCHANGED <<zookeeper, session, links, proc, mlist, wlist, peer>>
        /\ holder' \in [Node -> Node \cup {0, Astray}]
        /\ \A s \in Node : holder'[s] # 0 => holder[s] # 0 \/ proc[s] = "serving"
    BY <1>15 DEF Write, Forward, Forwarded, StrayEnds, Answers, TypeOK
  <2>2. QED
    BY <2>1 DEF TypeOK, Unused
<1>16. CASE UNCHANGED vars
  BY <1>16 DEF vars, TypeOK, Unused
<1>17. QED
  BY <1>1, <1>2, <1>3, <1>4, <1>6, <1>7, <1>8, <1>9, <1>10, <1>11, <1>12, <1>13, <1>14,
     <1>15, <1>16
     DEF Next, Main, Watcher, Fault, Crash, ConnectRefused, Alive

(* The part of the invariant that says how the links are kept.             *)
Kept == IdleOutside /\ NothingMissed /\ NoLinkYet /\ LinkFollowsChain

(* A change of /chain owes nothing to anyone: it fires every watch, so all *)
(* that is claimed of quiet servers is claimed of none that noticed it.    *)
LEMMA ChangeKeeps ==
    ASSUME TypeOK, Kept, NEW children \in SUBSET Node, NEW gone, Change(children, gone),
           \A t \in Node : t # gone /\ t \in children /\ Listed(t) => t \in nodes,
           \A t \in Node : Listed(t) => gone = t \/
             /\ Listed(t)' /\ (proc'[t] = "listed" <=> proc[t] = "listed")
             /\ wlist'[t] = wlist[t] /\ next'[t] = next[t]
             /\ overtaken'[t] = overtaken[t] /\ lost'[t] = lost[t],
           \A t \in Node : ~Listed(t) => ~Listed(t)' /\ UNCHANGED <<wlist[t], next[t], overtaken[t]>>,
           gone \in Node => /\ gone \notin children
                            /\ ~Listed(gone)' =>
                                 wlist'[gone] = NoList /\ next'[gone] = None /\ ~overtaken'[gone]
                            /\ proc'[gone] = "listed" /\ ~overtaken'[gone] => next'[gone] = None
    PROVE  Kept'
<1>1. \A t \in Node : ~watch'[t] /\ (event'[t] <=> t # gone /\ (event[t] \/ watch[t]))
  BY DEF Change
<1>2. nodes' = children
  BY DEF Change
<1>3. IdleOutside'
  <2>1. SUFFICES ASSUME NEW t \in Node, ~Listed(t)'
                 PROVE  /\ ~watch'[t] /\ ~event'[t] /\ wlist'[t] = NoList
                        /\ next'[t] = None /\ ~overtaken'[t]
    BY DEF IdleOutside
  <2>2. CASE t = gone
    BY <1>1, <2>1, <2>2
  <2>3. CASE t # gone
    BY <1>1, <2>1, <2>3 DEF Kept, IdleOutside
  <2>4. QED
    BY <2>2, <2>3
<1>4. NothingMissed'
  <2>1. SUFFICES ASSUME NEW t \in Node, Listed(t)', t \in children, ~lost'[t]
                 PROVE  event'[t]
    BY <1>1, <1>2 DEF NothingMissed
  <2>2. t # gone /\ Listed(t) /\ t \in nodes /\ ~lost[t]
    BY <2>1
  <2>3. QED
    BY <1>1, <2>2 DEF Kept, NothingMissed
<1>5. NoLinkYet'
  <2>1. SUFFICES ASSUME NEW t \in Node, proc'[t] = "listed", ~overtaken'[t]
                 PROVE  next'[t] = None
    BY DEF NoLinkYet
  <2>2. Listed(t)'
    BY <2>1 DEF Listed
  <2>3. CASE t = gone
    BY <2>1, <2>3
  <2>4. CASE t # gone
    BY <2>1, <2>2, <2>4 DEF Kept, NoLinkYet
  <2>5. QED
    BY <2>3, <2>4
<1>6. LinkFollowsChain'
  <2>1. SUFFICES ASSUME NEW t \in children, Linked(t)', ~event'[t], ~lost'[t]
                 PROVE  FALSE
    BY <1>2 DEF LinkFollowsChain
  <2>2. t \in Node
    OBVIOUS
  <2>3. t # gone /\ Listed(t) /\ t \in nodes /\ ~lost[t]
    BY <2>1, <2>2 DEF Listed
  <2>4. event[t] \/ watch[t]
    BY <2>2, <2>3 DEF Kept, NothingMissed
  <2>5. QED
    BY <1>1, <2>1, <2>2, <2>3, <2>4
<1>7. QED
  BY <1>3, <1>4, <1>5, <1>6 DEF Kept

(* A step of one server that leaves /chain and the other servers alone:    *)
(* the invariant has to be shown for that server only.                     *)
KeptAt(s) ==
    /\ ~Listed(s) => ~watch[s] /\ ~event[s] /\ wlist[s] = NoList /\ next[s] = None /\ ~overtaken[s]
    /\ Listed(s) /\ s \in nodes /\ ~lost[s] => watch[s] \/ event[s]
    /\ watch[s] /\ wlist[s] # NoList => wlist[s] = nodes
    /\ watch[s] /\ wlist[s] = NoList /\ ~overtaken[s] /\ proc[s] = "listed" => mlist[s] = nodes
    /\ proc[s] = "listed" /\ ~overtaken[s] => next[s] = None
    /\ (/\ s \in nodes /\ Linked(s) /\ ~event[s] /\ wlist[s] = NoList
        /\ ~lost[s] /\ ~overtaken[s] /\ ~Twin(s))
       => next[s] = Successor(s, nodes)

LEMMA KeptEverywhere == TypeOK => (Kept <=> \A s \in Node : KeptAt(s))
<1> SUFFICES ASSUME TypeOK PROVE Kept <=> \A s \in Node : KeptAt(s)
  OBVIOUS
<1>1. nodes \subseteq Node
  BY MembershipAssumption DEF TypeOK, Node
<1>2. QED
  BY <1>1 DEF Kept, KeptAt, IdleOutside, NothingMissed, NoLinkYet, LinkFollowsChain

LEMMA KeptTogether == ASSUME TypeOK', \A s \in Node : KeptAt(s)' PROVE Kept'
<1>1. nodes' \subseteq Node
  BY MembershipAssumption DEF TypeOK, Node
<1>2. QED
  BY <1>1 DEF Kept, KeptAt, IdleOutside, NothingMissed, NoLinkYet, LinkFollowsChain

LEMMA OneServerKeeps ==
    ASSUME TypeOK, TypeOK', Kept, NEW s \in Node, UNCHANGED <<nodes, addr>>,
           \A t \in Node \ {s} :
              /\ proc'[t] = proc[t] /\ watch'[t] = watch[t] /\ event'[t] = event[t]
              /\ wlist'[t] = wlist[t] /\ mlist'[t] = mlist[t] /\ next'[t] = next[t]
              /\ overtaken'[t] = overtaken[t] /\ lost'[t] = lost[t],
           KeptAt(s)'
    PROVE  Kept'
<1>1. \A t \in Node : KeptAt(t)
  BY KeptEverywhere
<1>2. ASSUME NEW t \in Node, t # s PROVE KeptAt(t)'
  <2>1. Successor(t, nodes)' = Successor(t, nodes) /\ (Twin(t)' <=> Twin(t))
    BY DEF Successor, Twin, Later, Lowest
  <2>2. (Listed(t)' <=> Listed(t)) /\ (Linked(t)' <=> Linked(t))
    BY <1>2 DEF Listed, Linked
  <2>3. KeptAt(t)
    BY <1>1
  <2>4. QED
    BY <1>2, <2>1, <2>2, <2>3 DEF KeptAt
<1>3. \A t \in Node : KeptAt(t)'
  BY <1>2
<1>4. QED
  BY <1>3, KeptTogether

LEMMA NextKept == IInv /\ [Next]_vars => IInv'
<1> SUFFICES ASSUME IInv, [Next]_vars PROVE IInv'
  OBVIOUS
<1>0. TypeOK /\ Unused /\ Kept /\ TypeOK' /\ Unused' /\ nodes \in SUBSET Node /\ \A s \in Node : KeptAt(s)
  <2>1. TypeOK /\ Unused /\ Kept
    BY DEF IInv, Kept
  <2>2. TypeOK' /\ Unused'
    BY <2>1, NextType DEF Kept
  <2>3. nodes \in SUBSET Node
    BY <2>1, MembershipAssumption DEF TypeOK, Node
  <2>4. QED
    BY <2>1, <2>2, <2>3, KeptEverywhere
<1> USE DEF zookeeper, session, links, waiting
<1>2. ASSUME NEW s \in Node, MainList(s) PROVE Kept'
  <2>1. KeptAt(s)'
    BY <1>0, <1>2 DEF MainList, KeptAt, Listed, Linked, TypeOK
  <2>2. QED
    BY <1>0, <1>2, <2>1, OneServerKeeps DEF MainList, TypeOK
<1>3. ASSUME NEW s \in Node, MainLink(s) PROVE Kept'
  <2>1. mlist[s] # NoList /\ proc[s] = "listed" /\ Linked(s)'
    BY <1>0, <1>3 DEF MainLink, TypeOK, Linked
  <2>2. ASSUME s \in nodes, ~event[s], wlist[s] = NoList, ~lost[s], ~overtaken[s], ~Twin(s)
        PROVE  next'[s] = Successor(s, nodes)
    <3>1. mlist[s] = nodes /\ next[s] = None
      BY <1>0, <2>1, <2>2 DEF KeptAt, Listed
    <3>2. QED
      BY <1>0, <1>3, <2>2, <3>1, LinkFromPresent DEF MainLink, TypeOK
  <2>3. Successor(s, nodes)' = Successor(s, nodes) /\ (Twin(s)' <=> Twin(s))
    BY <1>3 DEF MainLink, Successor, Twin, Later, Lowest
  <2>4. KeptAt(s)'
    BY <1>0, <1>3, <2>1, <2>2, <2>3 DEF MainLink, KeptAt, Listed, Linked, TypeOK
  <2>5. QED
    BY <1>0, <1>3, <2>4, OneServerKeeps DEF MainLink, TypeOK
<1>9. ASSUME NEW s \in Node, WatcherLink(s) PROVE Kept'
  <2>1. Listed(s) /\ wlist'[s] = NoList
    BY <1>0, <1>9 DEF WatcherLink, KeptAt, TypeOK
  <2>2. ASSUME s \in nodes, ~event[s], ~lost[s], ~Twin(s)
        PROVE  next'[s] = Successor(s, nodes)
    <3>1. wlist[s] = nodes
      BY <1>0, <1>9, <2>1, <2>2 DEF KeptAt, WatcherLink
    <3>2. QED
      BY <1>0, <1>9, <2>2, <3>1, LinkFromPresent DEF WatcherLink, TypeOK
  <2>3. Successor(s, nodes)' = Successor(s, nodes) /\ (Twin(s)' <=> Twin(s))
    BY <1>9 DEF WatcherLink, Successor, Twin, Later, Lowest
  <2>4. KeptAt(s)'
    BY <1>0, <1>9, <2>1, <2>2, <2>3 DEF WatcherLink, KeptAt, Listed, Linked, TypeOK
  <2>5. QED
    BY <1>0, <1>9, <2>4, OneServerKeeps DEF WatcherLink, TypeOK
<1>1. ASSUME NEW a \in Address, Register(a) PROVE Kept'
  <2>1. last + 1 \in Node /\ proc[last + 1] = "absent" /\ Change(nodes \cup {last + 1}, 0)
    BY <1>0, <1>1 DEF Register, Node, TypeOK, Unused
  <2>2. \A t \in Node : proc'[t] = IF t = last + 1 THEN "registered" ELSE proc[t]
    BY <1>0, <1>1, <2>1 DEF Register, TypeOK
  <2>3. 0 \notin Node /\ nodes \cup {last + 1} \in SUBSET Node
    <3>1. 0 \notin Node
      BY MembershipAssumption DEF Node
    <3>2. QED
      BY <1>0, <2>1, <3>1
  <2>4. UNCHANGED <<wlist, next, overtaken, lost>>
    BY <1>1 DEF Register
  <2>5. \A t \in Node : (Listed(t)' <=> Listed(t)) /\ (Listed(t) => t # last + 1)
    BY <2>1, <2>2 DEF Listed, Linked
  <2>6. QED
    BY <1>0, <2>1, <2>2, <2>3, <2>4, <2>5, ChangeKeeps DEF Listed
<1>4. ASSUME NEW s \in Node, Connect(s) \/ Copied(s) PROVE Kept'
  <2>1. Linked(s) /\ Linked(s)' /\ proc'[s] # "listed"
        /\ UNCHANGED <<nodes, addr, watch, event, lost, next, overtaken, mlist, wlist>>
    BY <1>0, <1>4 DEF Connect, Copied, Linked, TypeOK
  <2>2. Successor(s, nodes)' = Successor(s, nodes) /\ (Twin(s)' <=> Twin(s))
    BY <2>1 DEF Successor, Twin, Later, Lowest
  <2>3. KeptAt(s)'
    BY <1>0, <2>1, <2>2 DEF KeptAt, Listed
  <2>4. \A t \in Node \ {s} : proc'[t] = proc[t]
    BY <1>0, <1>4 DEF Connect, Copied, TypeOK
  <2>5. QED
    BY <1>0, <2>1, <2>3, <2>4, OneServerKeeps
<1>5. ASSUME NEW s \in Node, Alive(s), Die(s) PROVE Kept'
  <2>1. ~Listed(s)' /\ ~Linked(s)' /\ ~watch'[s] /\ ~event'[s] /\ wlist'[s] = NoList
        /\ next'[s] = None /\ ~overtaken'[s] /\ proc'[s] = "down"
    BY <1>0, <1>5 DEF Die, Forget, Listed, Linked, TypeOK
  <2>2. KeptAt(s)'
    BY <2>1 DEF KeptAt
  <2>3. QED
    BY <1>0, <1>5, <2>2, OneServerKeeps DEF Die, Forget, TypeOK
<1>6. ASSUME NEW s \in Node, Fetch(s) PROVE Kept'
  <2>1. wlist'[s] = nodes /\ wlist'[s] # NoList /\ watch'[s] /\ Listed(s)
    BY <1>0, <1>6 DEF Fetch, KeptAt, NoList, Node, TypeOK
  <2>2. UNCHANGED <<nodes, addr, proc, mlist, next, overtaken, lost>>
    BY <1>6 DEF Fetch
  <2>3. KeptAt(s)'
    BY <1>0, <2>1, <2>2 DEF KeptAt, Listed, Linked
  <2>4. QED
    BY <1>0, <1>6, <2>3, OneServerKeeps DEF Fetch, TypeOK
<1>7. ASSUME NEW s \in Node, Leave(s) PROVE Kept'
  <2>1. Change(nodes \ {s}, s) /\ UNCHANGED lost
    BY <1>7 DEF Leave
  <2>2. \A t \in Node : IF t = s THEN /\ proc'[t] = "down" /\ wlist'[t] = NoList
                                      /\ next'[t] = None /\ ~overtaken'[t]
                        ELSE /\ proc'[t] = proc[t] /\ wlist'[t] = wlist[t]
                             /\ next'[t] = next[t] /\ overtaken'[t] = overtaken[t]
    BY <1>0, <1>7 DEF Leave, Forget, TypeOK
  <2>3. ~Listed(s)' /\ \A t \in Node : t # s => (Listed(t)' <=> Listed(t))
    BY <2>2 DEF Listed, Linked
  <2>4. proc[s] \notin {"absent", "down"} /\ ~Listed(s) =>
          wlist[s] = NoList /\ next[s] = None /\ ~overtaken[s]
    BY <1>0 DEF KeptAt
  <2>5. \A t \in Node : ~Listed(t) => ~Listed(t)' /\ wlist'[t] = wlist[t]
                                      /\ next'[t] = next[t] /\ overtaken'[t] = overtaken[t]
    BY <1>0, <2>2, <2>3 DEF KeptAt, TypeOK
  <2>6. nodes \ {s} \in SUBSET Node /\ s \notin nodes \ {s}
    BY <1>0
  <2>7. QED
    BY <1>0, <2>1, <2>2, <2>3, <2>5, <2>6, ChangeKeeps
<1>8. ASSUME NEW s \in Node, Expire(s) \/ LoseSession(s) PROVE Kept'
  <2>1. Change(nodes \ {s}, s) /\ UNCHANGED <<proc, wlist, next, overtaken>>
    BY <1>8 DEF Expire, LoseSession
  <2>2. \A t \in Node : t # s => lost'[t] = lost[t]
    BY <1>0, <1>8 DEF Expire, LoseSession, Lose, TypeOK
  <2>3. \A t \in Node : Listed(t)' <=> Listed(t)
    BY <2>1 DEF Listed, Linked
  <2>4. nodes \ {s} \in SUBSET Node /\ s \notin nodes \ {s}
    BY <1>0
  <2>5. QED
    BY <1>0, <2>1, <2>2, <2>3, <2>4, ChangeKeeps DEF KeptAt
<1>10. ASSUME NEW s \in Node, FetchFails(s) PROVE Kept'
  <2>1. lost'[s] /\ ~event'[s] /\ ~watch[s] /\ Listed(s)
    BY <1>0, <1>10 DEF FetchFails, Lose, KeptAt, TypeOK
  <2>2. UNCHANGED <<nodes, addr, proc, mlist, watch, next, overtaken>>
    BY <1>10 DEF FetchFails
  <2>3. KeptAt(s)'
    BY <1>0, <2>1, <2>2 DEF KeptAt, Listed, Linked
  <2>4. QED
    BY <1>0, <1>10, <2>2, <2>3, OneServerKeeps DEF FetchFails, Lose, TypeOK
<1>13. ASSUME NEW s \in Node, MainListFails(s) PROVE Kept'
  <2>1. /\ ~watch[s] /\ wlist[s] = NoList /\ next[s] = None /\ ~overtaken[s]
        /\ lost'[s] /\ proc'[s] = "listed"
    BY <1>0, <1>13 DEF MainListFails, Lose, KeptAt, Listed, Linked, TypeOK
  <2>2. UNCHANGED <<nodes, addr, watch, event, wlist, next, overtaken>>
    BY <1>13 DEF MainListFails
  <2>3. KeptAt(s)'
    BY <2>1, <2>2 DEF KeptAt, Listed, Linked
  <2>4. QED
    BY <1>0, <1>13, <2>2, <2>3, OneServerKeeps DEF MainListFails, Lose, TypeOK
<1>11. ASSUME (\E t \in Node : Write(t)) \/ UNCHANGED vars PROVE Kept'
  <2>1. UNCHANGED <<nodes, addr, proc, watch, event, mlist, wlist, next, overtaken, lost>>
    BY <1>11 DEF vars, Write, Forward, Forwarded, StrayEnds
  <2>2. \A s \in Node : /\ Successor(s, nodes)' = Successor(s, nodes)
                        /\ Twin(s)' <=> Twin(s)
    BY <2>1 DEF Successor, Twin, Later, Lowest
  <2>3. \A s \in Node : (Listed(s)' <=> Listed(s)) /\ (Linked(s)' <=> Linked(s))
    BY <2>1 DEF Listed, Linked
  <2>4. \A s \in Node : KeptAt(s)'
    BY <1>0, <2>1, <2>2, <2>3 DEF KeptAt
  <2>5. QED
    BY <1>0, <2>4, KeptTogether
<1>12. Kept'
  <2>1. ASSUME NEW s \in Node, Main(s) PROVE Kept'
    <3>1. ConnectRefused(s) => Alive(s) /\ Die(s)
      BY DEF ConnectRefused, Alive
    <3>2. QED
      BY <1>2, <1>3, <1>4, <1>5, <2>1, <3>1 DEF Main
  <2>2. ASSUME NEW s \in Node, Watcher(s) PROVE Kept'
    BY <1>6, <1>9, <2>2 DEF Watcher
  <2>3. ASSUME NEW s \in Node, Fault(s) PROVE Kept'
    BY <1>5, <1>7, <1>8, <1>10, <1>13, <2>3 DEF Fault, Crash
  <2>4. ASSUME NEW s \in Node, Expire(s) PROVE Kept'
    BY <1>8, <2>4
  <2>5. CASE Next
    BY <1>1, <1>11, <2>1, <2>2, <2>3, <2>4, <2>5 DEF Next
  <2>6. QED
    BY <1>11, <2>5 DEF vars
<1>14. QED
  BY <1>0, <1>12 DEF IInv, Kept
-----------------------------------------------------------------------------
LEMMA Invariance == Spec => []IInv
<1>1. Init => IInv
  BY InitIInv
<1>2. IInv /\ [Next]_vars => IInv'
  BY NextKept
<1>3. QED
  BY <1>1, <1>2, PTL DEF Spec

(* Type correctness: in particular a watch and an event of one server      *)
(* exclude each other, and lists and peers are held in their stages only.  *)
THEOREM TypeCorrect == Spec => []TypeOK
<1>1. IInv => TypeOK
  BY DEF IInv
<1>2. QED
  BY <1>1, Invariance, PTL

(* The link of a quiet server follows the chain.                           *)
THEOREM LinksFollow == Spec => []LinkFollowsChain
<1>1. IInv => LinkFollowsChain
  BY DEF IInv
<1>2. QED
  BY <1>1, Invariance, PTL

(* No change of /chain is missed by a session that is in order.            *)
THEOREM ChangesNoticed == Spec => []NothingMissed
<1>1. IInv => NothingMissed
  BY DEF IInv
<1>2. QED
  BY <1>1, Invariance, PTL
=============================================================================
