---------------------------- MODULE ClientProofs ----------------------------
(***************************************************************************)
(* Proofs about Client, for any number of servers, of links and of changes *)
(* of /chain.                                                              *)
(***************************************************************************)
EXTENDS Client, FiniteSetTheorems, TLAPS

(* What main() has stored, it has a pointer to; before main() reads /chain *)
(* there is nothing to hear of; a socket that is not open has no peer.     *)
Connected ==
    /\ main = "start" => ~watch /\ ~event /\ wpc = "idle" /\ ~overtaken
    /\ main \in {"heading", "headed", "tailing"} \/ Running => head # 0
    /\ main = "tailing" \/ Running => tail # 0
    /\ main \in {"listed", "heading", "headed"} => mlist # {}
    /\ \A f \in Socket : f \notin open => peer[f] = 0

TypeInv == TypeOK /\ Connected

(* TypeOK in two parts: what the client waits for, and all the rest.       *)
Hears ==
    /\ watch \in BOOLEAN /\ event \in BOOLEAN /\ overtaken \in BOOLEAN
    /\ answer \in BOOLEAN
    /\ main = "start" \/ Gone \/ (watch # event)

Shapes ==
    /\ last \in 0 .. MaxNodes /\ nodes \subseteq 1 .. last /\ alive \subseteq 1 .. last
    /\ live \subseteq Link /\ open \subseteq Socket
    /\ to \in [Link -> Node \cup {0}] /\ fd \in [Link -> Socket \cup {0}]
    /\ peer \in [Socket -> Node \cup {0}]
    /\ head \in Link \cup {0} /\ tail \in Link \cup {0}
    /\ main \in Calling \cup {"start", "listed", "heading", "headed", "tailing", "prompt",
                             "ended", "crashed"}
    /\ mlist \subseteq Node /\ wlist \subseteq Node
    /\ wpc \in {"idle", "fetched", "headless", "dropped", "heading", "head refused",
                "headed", "tailing", "tail refused"}
    /\ cmd \in Operation \cup {"none"}
    /\ using \in Link \cup {0} /\ (main \in Calling => using # 0)
    /\ asked \in Node \cup {0}

-----------------------------------------------------------------------------
LEMMA Parts == Shapes /\ Hears <=> TypeOK
BY Zenon DEF Shapes, Hears, TypeOK

LEMMA PartsNext == Shapes' /\ Hears' <=> TypeOK'
BY Zenon DEF Shapes, Hears, TypeOK

LEMMA TypeInit == Init => TypeInv
<1> SUFFICES ASSUME Init PROVE TypeInv
  OBVIOUS
<1>1. nodes = {} /\ last = 0 /\ alive = {} /\ 0 \in 0 .. MaxNodes
  BY ClientAssumption DEF Init
<1>2. Shapes
  BY <1>1 DEF Init, Shapes, Link, Socket, Node, Calling
<1>3. Hears
  BY Zenon DEF Init, Hears
<1>4. Connected
  BY Zenon DEF Init, Connected, Running, Calling
<1>5. QED
  BY <1>2, <1>3, <1>4, Parts DEF TypeInv

LEMMA Ranges ==
  ASSUME Shapes
  PROVE  /\ last \in Nat /\ last <= MaxNodes /\ MaxNodes \in Nat
         /\ 1 .. last \subseteq Node /\ nodes \subseteq Node /\ alive \subseteq Node
         /\ 0 \notin Node /\ 0 \notin Link /\ 0 \notin Socket
<1>1. last \in 0 .. MaxNodes /\ nodes \subseteq 1 .. last /\ alive \subseteq 1 .. last
  BY DEF Shapes
<1>2. MaxNodes \in Nat
  BY ClientAssumption
<1>3. last \in Nat /\ last <= MaxNodes
  BY <1>1, <1>2
<1>4. 1 .. last \subseteq Node
  BY <1>2, <1>3 DEF Node
<1>5. QED
  BY <1>1, <1>2, <1>3, <1>4 DEF Node, Link, Socket

(* What the helpers leave behind.                                          *)
LEMMA NewMakes ==
  ASSUME Shapes, NEW l \in Link, NEW n, New(l, n)
  PROVE  /\ l \notin live /\ l # head /\ l # tail /\ l # using
         /\ live' = live \cup {l} /\ peer' = peer
         /\ \A k \in Link \ {l} : to'[k] = to[k] /\ fd'[k] = fd[k]
         /\ to'[l] = n
         /\ fd'[l] \in Socket /\ fd'[l] \notin open /\ open' = open \cup {fd'[l]}
         /\ n \in Node => to' \in [Link -> Node \cup {0}]
         /\ fd' \in [Link -> Socket \cup {0}]
<1>1. PICK f \in Lowest(Socket \ open) :
        /\ l \in Lowest(Link \ Named) /\ live' = live \cup {l}
        /\ to' = [to EXCEPT ![l] = n] /\ fd' = [fd EXCEPT ![l] = f]
        /\ open' = open \cup {f} /\ UNCHANGED peer
  BY DEF New
<1>2. f \in Socket /\ f \notin open /\ l \in Link /\ l \notin Named
  BY <1>1 DEF Lowest
<1>3. QED
  BY <1>1, <1>2 DEF Shapes, Named

LEMMA CloseMakes ==
  ASSUME Shapes, NEW f, Close(f)
  PROVE  /\ open' = open \ {f} /\ peer' \in [Socket -> Node \cup {0}]
         /\ \A g \in Socket : g # f => peer'[g] = peer[g]
         /\ f \in Socket => peer'[f] = 0
BY DEF Shapes, Close

LEMMA FreeMakes ==
  ASSUME Shapes, NEW l, Free(l)
  PROVE  /\ live' = live \ {l}
         /\ to' \in [Link -> Node \cup {0}] /\ fd' \in [Link -> Socket \cup {0}]
         /\ \A k \in Link : k # l => to'[k] = to[k] /\ fd'[k] = fd[k]
BY DEF Shapes, Free

(* A step that closes sockets, or connects ones that were not connected.   *)
SocketsKept ==
    /\ open' \subseteq open /\ peer' \in [Socket -> Node \cup {0}]
    /\ \A f \in Socket : f \notin open' => peer'[f] = 0
    /\ \A f \in open' : peer[f] # 0 => peer'[f] = peer[f]

LEMMA ClosingKeeps ==
  ASSUME Shapes, Connected, NEW f, Close(f) \/ UNCHANGED sockets
  PROVE  SocketsKept
<1>1. CASE Close(f)
  BY <1>1, CloseMakes DEF SocketsKept, Connected, Shapes
<1>2. CASE UNCHANGED sockets
  BY <1>2 DEF SocketsKept, Connected, Shapes, sockets
<1>3. QED
  BY <1>1, <1>2

LEMMA ConnectMakes ==
  ASSUME Shapes, Connected, NEW l \in Link \cup {0}, NEW c \in BOOLEAN,
         Connect(l, c) \/ StrayConnect(l, c)
  PROVE  /\ SocketsKept
         /\ c => open' = open
         /\ l \in live /\ c => /\ fd[l] \in open /\ peer[fd[l]] = 0
                             /\ to[l] \in Node /\ peer'[fd[l]] = to[l]
                             /\ \A f \in Socket : f # fd[l] => peer'[f] = peer[f]
         /\ l \in live /\ ~c => open' = open \ {fd[l]}
<1>1. alive \subseteq Node /\ open \subseteq Socket /\ 0 \notin Node
  BY Ranges DEF Shapes
<1>2. CASE Connect(l, c) /\ c
  <2>1. /\ l \in live /\ fd[l] \in open /\ peer[fd[l]] = 0 /\ to[l] \in Node
        /\ peer' = [peer EXCEPT ![fd[l]] = to[l]] /\ open' = open
    BY <1>1, <1>2 DEF Connect, Connects
  <2>2. SocketsKept
    BY <1>1, <2>1 DEF SocketsKept, Connected, Shapes
  <2>3. QED
    BY <1>1, <1>2, <2>1, <2>2 DEF Shapes
<1>3. CASE Connect(l, c) /\ ~c
  <2>1. l \in live /\ Close(fd[l])
    BY <1>3 DEF Connect
  <2>2. QED
    BY <1>3, <2>1, ClosingKeeps, CloseMakes
<1>4. CASE StrayConnect(l, c)
  <2>1. l \notin live
    BY <1>4 DEF StrayConnect
  <2>2. CASE UNCHANGED sockets
    BY <2>1, <2>2, ClosingKeeps DEF sockets
  <2>3. CASE ~c /\ \E f \in open : Close(f)
    BY <2>1, <2>3, ClosingKeeps
  <2>4. CASE c /\ UNCHANGED open /\ \E f \in open, n \in alive :
                 peer[f] = 0 /\ peer' = [peer EXCEPT ![f] = n]
    <3>1. PICK f \in open, n \in alive : peer[f] = 0 /\ peer' = [peer EXCEPT ![f] = n]
      BY <2>4
    <3>2. SocketsKept
      BY <1>1, <2>4, <3>1 DEF SocketsKept, Connected, Shapes
    <3>3. QED
      BY <2>1, <2>4, <3>2
  <2>5. QED
    BY <1>4, <2>2, <2>3, <2>4 DEF StrayConnect
<1>5. QED
  BY <1>2, <1>3, <1>4

LEMMA DisconnectMakes ==
  ASSUME Shapes, Connected, NEW l \in Link \cup {0}, Disconnect(l)
  PROVE  /\ SocketsKept /\ live' = live \ {l} /\ main' \in {main, "crashed"}
         /\ to' \in [Link -> Node \cup {0}] /\ fd' \in [Link -> Socket \cup {0}]
         /\ \A k \in Link : k # l => to'[k] = to[k] /\ fd'[k] = fd[k]
         /\ open' = IF l \in live THEN open \ {fd[l]} ELSE open
         /\ \A k \in live' : fd'[k] = fd[k]
BY FreeMakes, ClosingKeeps, CloseMakes DEF Disconnect, sockets, Shapes

(* What a call of the stub may do: return or not, and close a socket.      *)
CallKept ==
    /\ main' \in Calling \cup {"prompt", "crashed"}
    /\ UNCHANGED <<chain, session, links, pointers, mlist, watcher>>
    /\ SocketsKept

LEMMA CallMakes ==
  ASSUME TypeInv, Command \/ Send \/ Read \/ Answered \/ EndOfFile \/ StrayEnds
  PROVE  /\ CallKept /\ Running
         /\ main' \in Calling => using' # 0
         /\ using' \in Link \cup {0} /\ cmd' \in Operation \cup {"none"}
         /\ asked' \in Node \cup {0} /\ answer' \in BOOLEAN
<1> USE DEF TypeInv, Calling, Running
<1>0. Shapes /\ Hears /\ Connected
  BY Parts
<1>1. ASSUME NEW a \in BOOLEAN, Return(a), main \in Calling
      PROVE  /\ main' \in {"prompt", "crashed"} /\ using' = 0 /\ cmd' = "none"
             /\ asked' = 0 /\ answer' = FALSE
  BY <1>1 DEF Return
<1>2. ASSUME UNCHANGED sockets PROVE SocketsKept
  BY <1>0, <1>2, ClosingKeeps
<1>3. ASSUME NEW f, Close(f) PROVE SocketsKept
  BY <1>0, <1>3, ClosingKeeps
<1>4. CASE Command
  <2>1. using' \in {head, tail} /\ cmd' \in Operation /\ main' = "called" /\ main = "prompt"
    BY <1>4 DEF Command, LinkFor
  <2>2. SocketsKept /\ UNCHANGED <<chain, session, links, pointers, mlist, watcher, asked, answer>>
    BY <1>2, <1>4 DEF Command
  <2>3. head # 0 /\ tail # 0
    BY <1>0, <2>1 DEF Connected
  <2>4. answer' \in BOOLEAN
    BY <1>0, <2>2, Zenon DEF Hears
  <2>5. QED
    BY <1>0, <2>1, <2>2, <2>3, <2>4 DEF CallKept, Shapes
<1>5. ASSUME Fail, main \in Calling PROVE CallKept
  BY <1>1, <1>3, <1>5 DEF Fail, CallKept
<1>6. ASSUME Stray, main \in Calling PROVE CallKept
  <2>1. SocketsKept
    BY <1>2, <1>3, <1>6 DEF Stray
  <2>2. main' \in Calling \cup {"prompt", "crashed"}
    BY <1>1, <1>6 DEF Stray
  <2>3. QED
    BY <1>6, <2>1, <2>2 DEF Stray, CallKept
<1>7. ASSUME Broken, main \in Calling
      PROVE  /\ CallKept
             /\ \/ main' = "astray" /\ using' = using /\ cmd' = cmd /\ asked' = 0 /\ answer' = FALSE
                \/ \E a \in BOOLEAN : Return(a)
  BY <1>5, <1>6, <1>7 DEF Broken, Fail, Stray
<1>8. ASSUME main \in Calling, \E a \in BOOLEAN : Return(a), SocketsKept,
             UNCHANGED <<chain, session, links, pointers, mlist, watcher>>
      PROVE  CallKept
  BY <1>1, <1>8 DEF CallKept
<1>9. main \in Calling => using \in Link /\ using # 0 /\ cmd \in Operation \cup {"none"}
  BY <1>0 DEF Shapes
<1>10. CASE Send
  <2>1. CASE Broken
    BY <1>0, <1>1, <1>7, <1>9, <1>10, <2>1 DEF Send
  <2>2. CASE Fail
    BY <1>0, <1>1, <1>5, <1>9, <1>10, <2>2 DEF Send, Fail
  <2>3. CASE Usable /\ main' = "sent" /\ asked' = peer[fd[using]]
             /\ UNCHANGED <<chain, session, links, sockets, pointers, mlist, cmd, using, answer, watcher>>
    <3>1. fd[using] \in Socket
      BY <1>0, <2>3 DEF Usable, Shapes
    <3>2. asked' \in Node \cup {0}
      BY <1>0, <2>3, <3>1 DEF Shapes
    <3>3. CallKept
      BY <1>2, <2>3 DEF CallKept
    <3>4. answer' \in BOOLEAN
      BY <1>0, <2>3, Zenon DEF Hears
    <3>5. QED
      BY <1>0, <1>9, <1>10, <2>3, <3>2, <3>3, <3>4 DEF Send, Shapes
  <2>4. QED
    BY <1>10, <2>1, <2>2, <2>3 DEF Send
<1>11. CASE Read
  <2>1. CASE Broken
    BY <1>0, <1>1, <1>7, <1>9, <1>11, <2>1 DEF Read
  <2>2. CASE main' = "reading" /\ UNCHANGED <<chain, session, links, sockets, pointers, mlist, command, watcher>>
    <3>1. answer' \in BOOLEAN
      BY <1>0, <2>2, Zenon DEF Hears, command
    <3>2. QED
      BY <1>0, <1>2, <1>9, <1>11, <2>2, <3>1 DEF Read, CallKept, Shapes, command
  <2>3. QED
    BY <1>11, <2>1, <2>2 DEF Read
<1>12. CASE Answered
  <2>1. CASE Broken
    BY <1>0, <1>1, <1>7, <1>9, <1>12, <2>1 DEF Answered
  <2>2. CASE ~Broken
    BY <1>0, <1>1, <1>2, <1>8, <1>12, <2>2 DEF Answered
  <2>3. QED
    BY <2>1, <2>2
<1>13. CASE EndOfFile
  <2>1. CASE Broken
    BY <1>0, <1>1, <1>7, <1>9, <1>13, <2>1 DEF EndOfFile
  <2>2. CASE Fail
    BY <1>0, <1>1, <1>5, <1>9, <1>13, <2>2 DEF EndOfFile, Fail
  <2>3. CASE ~Broken /\ ~Fail
    BY <1>0, <1>1, <1>2, <1>8, <1>13, <2>3 DEF EndOfFile
  <2>4. QED
    BY <2>1, <2>2, <2>3
<1>14. CASE StrayEnds
  BY <1>0, <1>1, <1>2, <1>8, <1>14 DEF StrayEnds
<1>15. QED
  BY <1>4, <1>10, <1>11, <1>12, <1>13, <1>14

(* A change of /chain: the watch of a client that has one fires.           *)
LEMMA HeardChange ==
  ASSUME Hears, NEW children, Change(children), UNCHANGED <<main, overtaken, answer>>
  PROVE  Hears' /\ (~watch /\ ~event => ~watch' /\ ~event') /\ (watch \/ event => event')
BY Zenon DEF Hears, Change, Gone

(* The list has its two ends: strict inclusion of the parts below, or      *)
(* above, a server is well founded.                                        *)
Below(i, L) == {j \in L : j < i}
Above(i, L) == {j \in L : j > i}

LEMMA Ends ==
  ASSUME NEW L \in SUBSET Node, L # {}
  PROVE  First(L) \in Node /\ Last(L) \in Node
<1>1. IsFiniteSet(Node) /\ \A i, j \in Node : i \in Int /\ (i < j \/ j <= i) /\ (i > j \/ j >= i)
  BY ClientAssumption, FS_Interval DEF Node
<1>2. IsWellFoundedOn(StrictSubsetOrdering(Node), SUBSET Node)
  BY <1>1, FS_FiniteSubsetsOfFinite, FS_StrictSubsetOrderingWellFounded
<1>3. \E i \in L : \A j \in L : i <= j
  <2>1. {Below(i, L) : i \in L} \subseteq SUBSET Node /\ {Below(i, L) : i \in L} # {}
    BY DEF Below
  <2>2. PICK P \in {Below(i, L) : i \in L} :
          \A Q \in {Below(i, L) : i \in L} : ~(<<Q, P>> \in StrictSubsetOrdering(Node))
    BY <1>2, <2>1, WFMin
  <2>3. PICK i \in L : P = Below(i, L)
    BY <2>2
  <2>4. ASSUME NEW j \in L, j < i PROVE FALSE
    <3>1. Below(j, L) \subseteq Below(i, L) /\ Below(j, L) \in SUBSET Node
      BY <1>1, <2>4 DEF Below
    <3>2. j \in Below(i, L) /\ j \notin Below(j, L)
      BY <1>1, <2>4 DEF Below
    <3>3. <<Below(j, L), Below(i, L)>> \in StrictSubsetOrdering(Node)
      BY <2>1, <3>1, <3>2 DEF StrictSubsetOrdering
    <3>4. QED
      BY <2>2, <2>3, <3>3
  <2>5. QED
    BY <1>1, <2>4
<1>4. \E i \in L : \A j \in L : i >= j
  <2>1. {Above(i, L) : i \in L} \subseteq SUBSET Node /\ {Above(i, L) : i \in L} # {}
    BY DEF Above
  <2>2. PICK P \in {Above(i, L) : i \in L} :
          \A Q \in {Above(i, L) : i \in L} : ~(<<Q, P>> \in StrictSubsetOrdering(Node))
    BY <1>2, <2>1, WFMin
  <2>3. PICK i \in L : P = Above(i, L)
    BY <2>2
  <2>4. ASSUME NEW j \in L, j > i PROVE FALSE
    <3>1. Above(j, L) \subseteq Above(i, L) /\ Above(j, L) \in SUBSET Node
      BY <1>1, <2>4 DEF Above
    <3>2. j \in Above(i, L) /\ j \notin Above(j, L)
      BY <1>1, <2>4 DEF Above
    <3>3. <<Above(j, L), Above(i, L)>> \in StrictSubsetOrdering(Node)
      BY <2>1, <3>1, <3>2 DEF StrictSubsetOrdering
    <3>4. QED
      BY <2>2, <2>3, <3>3
  <2>5. QED
    BY <1>1, <2>4
<1>5. QED
  BY <1>3, <1>4 DEF First, Last

LEMMA Targets ==
  ASSUME Shapes, NEW n,
         n \in Target(First(wlist)) \/ n \in Target(Last(wlist))
  PROVE  n \in Node
<1>1. 1 .. last \subseteq Node
  BY Ranges
<1>2. CASE wlist = {}
  BY <1>1, <1>2 DEF Target
<1>3. CASE wlist # {}
  BY <1>3, Ends DEF Shapes, Target
<1>4. QED
  BY <1>2, <1>3

(* The step that stores a new link in a pointer.                           *)
LEMMA TypeNew ==
  ASSUME Shapes, Connected, NEW l \in Link, NEW n \in Node, New(l, n)
  PROVE  /\ live' \subseteq Link /\ open' \subseteq Socket
         /\ to' \in [Link -> Node \cup {0}] /\ fd' \in [Link -> Socket \cup {0}]
         /\ peer' \in [Socket -> Node \cup {0}] /\ l # 0
         /\ \A f \in Socket : f \notin open' => peer'[f] = 0
<1>1. /\ live' = live \cup {l} /\ peer' = peer /\ open' = open \cup {fd'[l]} /\ fd'[l] \in Socket
      /\ to' \in [Link -> Node \cup {0}] /\ fd' \in [Link -> Socket \cup {0}]
  BY NewMakes
<1>2. live' \subseteq Link /\ open' \subseteq Socket /\ peer' \in [Socket -> Node \cup {0}]
  BY <1>1 DEF Shapes
<1>3. \A f \in Socket : f \notin open' => peer'[f] = 0
  BY <1>1 DEF Connected
<1>4. QED
  BY <1>1, <1>2, <1>3, Ranges

LEMMA TypeStep == TypeInv /\ [Next]_vars => TypeInv'
<1> SUFFICES ASSUME TypeInv, [Next]_vars PROVE TypeInv'
  OBVIOUS
<1> USE DEF TypeInv, Calling, Running, Gone, chain, session, links, sockets, pointers, command, watcher
<1>0. Shapes /\ Hears /\ Connected
  BY Parts
<1>1. CASE MainList
  <2>1. Shapes'
    BY <1>0, <1>1, Ranges DEF MainList, Shapes
  <2>2. Hears'
    BY <1>0, <1>1, Zenon DEF MainList, Hears, Connected
  <2>3. Connected'
    BY <1>0, <1>1 DEF MainList, Connected
  <2>4. QED
    BY <2>1, <2>2, <2>3, PartsNext
<1>2. CASE MainHead
  <2>1. First(mlist) \in Node
    BY <1>0, <1>2, Ends DEF MainHead, Connected, Shapes
  <2>2. PICK l \in Link : New(l, First(mlist)) /\ head' = l
    BY <1>2 DEF MainHead
  <2>3. Shapes'
    BY <1>0, <1>2, <2>1, <2>2, TypeNew DEF MainHead, Shapes
  <2>4. Connected'
    BY <1>0, <1>2, <2>1, <2>2, TypeNew DEF MainHead, Connected
  <2>5. Hears'
    BY <1>0, <1>2 DEF MainHead, Hears
  <2>6. QED
    BY <2>3, <2>4, <2>5, PartsNext
<1>3. CASE MainTail
  <2>1. Last(mlist) \in Node
    BY <1>0, <1>3, Ends DEF MainTail, Connected, Shapes
  <2>2. PICK l \in Link : New(l, Last(mlist)) /\ tail' = l
    BY <1>3 DEF MainTail
  <2>3. Shapes'
    BY <1>0, <1>3, <2>1, <2>2, TypeNew DEF MainTail, Shapes
  <2>4. Connected'
    BY <1>0, <1>3, <2>1, <2>2, TypeNew DEF MainTail, Connected
  <2>5. Hears'
    BY <1>0, <1>3 DEF MainTail, Hears
  <2>6. QED
    BY <2>3, <2>4, <2>5, PartsNext
<1>4. CASE MainConnectHead \/ MainConnectTail \/ ConnectHead \/ ConnectTail
  <2>1. SocketsKept
    BY <1>0, <1>4, ConnectMakes DEF MainConnectHead, MainConnectTail, ConnectHead, ConnectTail, Shapes
  <2>2. Shapes'
    BY <1>0, <1>4, <2>1 DEF MainConnectHead, MainConnectTail, ConnectHead, ConnectTail, SocketsKept, Shapes
  <2>3. Connected'
    BY <1>0, <1>4, <2>1 DEF MainConnectHead, MainConnectTail, ConnectHead, ConnectTail, SocketsKept, Connected
  <2>4. Hears'
    BY <1>0, <1>4 DEF MainConnectHead, MainConnectTail, ConnectHead, ConnectTail, Hears
  <2>5. QED
    BY <2>2, <2>3, <2>4, PartsNext
<1>5. CASE Command \/ Send \/ Read \/ Answered \/ EndOfFile \/ StrayEnds
  <2>1. /\ CallKept /\ main \in Calling \cup {"prompt"} /\ (main' \in Calling => using' # 0)
        /\ using' \in Link \cup {0} /\ cmd' \in Operation \cup {"none"}
        /\ asked' \in Node \cup {0} /\ answer' \in BOOLEAN
    BY <1>5, CallMakes
  <2>2. Shapes'
    BY <1>0, <2>1 DEF CallKept, SocketsKept, Shapes
  <2>3. Connected'
    BY <1>0, <2>1 DEF CallKept, SocketsKept, Connected
  <2>4. Hears'
    BY <1>0, <2>1 DEF CallKept, Hears
  <2>5. QED
    BY <2>2, <2>3, <2>4, PartsNext
<1>6. CASE Quit \/ Interrupt
  <2>1. Exit
    BY <1>6 DEF Quit, Interrupt
  <2>2. Shapes'
    BY <1>0, <2>1 DEF Exit, Shapes
  <2>3. Connected' /\ Hears'
    BY <2>1 DEF Exit, Connected, Hears
  <2>4. QED
    BY <2>2, <2>3, PartsNext
<1>7. CASE Fetch
  <2>1. Shapes'
    BY <1>0, <1>7, Ranges DEF Fetch, Shapes
  <2>2. Hears'
    BY <1>0, <1>7, Zenon DEF Fetch, Hears
  <2>3. Connected'
    BY <1>0, <1>7 DEF Fetch, Connected
  <2>4. QED
    BY <2>1, <2>2, <2>3, PartsNext
<1>8. CASE DropHead \/ DropTail
  <2>1. /\ SocketsKept /\ main' \in {main, "crashed"} /\ live' \subseteq Link
        /\ to' \in [Link -> Node \cup {0}] /\ fd' \in [Link -> Socket \cup {0}]
    <3>1. head \in Link \cup {0} /\ tail \in Link \cup {0} /\ live \subseteq Link
      BY <1>0 DEF Shapes
    <3>2. CASE DropHead
      BY <1>0, <3>1, <3>2, DisconnectMakes DEF DropHead
    <3>3. CASE DropTail
      BY <1>0, <3>1, <3>3, DisconnectMakes DEF DropTail
    <3>4. QED
      BY <1>8, <3>2, <3>3
  <2>2. Shapes'
    BY <1>0, <1>8, <2>1 DEF DropHead, DropTail, SocketsKept, Shapes
  <2>3. Connected'
    BY <1>0, <1>8, <2>1 DEF DropHead, DropTail, SocketsKept, Connected
  <2>4. Hears'
    BY <1>0, <1>8, <2>1 DEF DropHead, DropTail, Hears
  <2>5. QED
    BY <2>2, <2>3, <2>4, PartsNext
<1>9. CASE FreeHead \/ FreeTail
  <2>1. /\ live' \subseteq Link
        /\ to' \in [Link -> Node \cup {0}] /\ fd' \in [Link -> Socket \cup {0}]
    <3>1. live \subseteq Link
      BY <1>0 DEF Shapes
    <3>2. CASE FreeHead
      BY <1>0, <3>1, <3>2, FreeMakes DEF FreeHead
    <3>3. CASE FreeTail
      BY <1>0, <3>1, <3>3, FreeMakes DEF FreeTail
    <3>4. QED
      BY <1>9, <3>2, <3>3
  <2>2. Shapes'
    BY <1>0, <1>9, <2>1 DEF FreeHead, FreeTail, Shapes
  <2>3. Connected' /\ Hears'
    BY <1>0, <1>9, <2>1 DEF FreeHead, FreeTail, Connected, Hears
  <2>4. QED
    BY <2>2, <2>3, PartsNext
<1>10. CASE OpenHead
  <2>1. CASE main' = "crashed" /\ UNCHANGED <<links, sockets, head>>
    <3>1. Shapes'
      BY <1>0, <1>10, <2>1 DEF OpenHead, Shapes
    <3>2. Connected' /\ Hears'
      BY <1>0, <1>10, <2>1 DEF OpenHead, Connected, Hears
    <3>3. QED
      BY <3>1, <3>2, PartsNext
  <2>2. ASSUME NEW l \in Link, NEW n \in Target(First(wlist)), New(l, n), head' = l, UNCHANGED main
        PROVE  TypeInv'
    <3>1. n \in Node
      BY <1>0, Targets
    <3>2. Shapes'
      BY <1>0, <1>10, <2>2, <3>1, TypeNew DEF OpenHead, Shapes
    <3>3. Connected'
      BY <1>0, <1>10, <2>2, <3>1, TypeNew DEF OpenHead, Connected
    <3>4. Hears'
      BY <1>0, <1>10, <2>2 DEF OpenHead, Hears
    <3>5. QED
      BY <3>2, <3>3, <3>4, PartsNext
  <2>3. QED
    BY <1>10, <2>1, <2>2 DEF OpenHead
<1>11. CASE OpenTail
  <2>1. PICK l \in Link, n \in Target(Last(wlist)) : New(l, n) /\ tail' = l
    BY <1>11 DEF OpenTail
  <2>2. n \in Node
    BY <1>0, Targets
  <2>3. Shapes'
    BY <1>0, <1>11, <2>1, <2>2, TypeNew DEF OpenTail, Shapes
  <2>4. Connected'
    BY <1>0, <1>11, <2>1, <2>2, TypeNew DEF OpenTail, Connected
  <2>5. Hears'
    BY <1>0, <1>11 DEF OpenTail, Hears
  <2>6. QED
    BY <2>3, <2>4, <2>5, PartsNext
<1>12. CASE Join
  <2>1. last' = last + 1 /\ last' \in 0 .. MaxNodes
    BY <1>0, <1>12, Ranges DEF Join
  <2>2. nodes' = nodes \cup {last'} /\ alive' = alive \cup {last'}
    BY <1>12 DEF Join, Change
  <2>3. nodes' \subseteq 1 .. last' /\ alive' \subseteq 1 .. last'
    <3>1. nodes \subseteq 1 .. last /\ alive \subseteq 1 .. last /\ last \in Nat
      BY <1>0, Ranges DEF Shapes
    <3>2. QED
      BY <2>1, <2>2, <3>1
  <2>4. Shapes'
    <3>1. UNCHANGED <<live, to, fd, open, peer, head, tail, main, mlist, cmd, using, asked, answer, wpc, wlist>>
      BY <1>12 DEF Join
    <3>2. QED
      BY <1>0, <2>1, <2>3, <3>1 DEF Shapes
  <2>5. Hears' /\ (~watch /\ ~event => ~watch' /\ ~event')
    BY <1>0, <1>12, HeardChange DEF Join
  <2>6. Connected'
    BY <1>0, <1>12, <2>5 DEF Join, Connected
  <2>7. QED
    BY <2>4, <2>5, <2>6, PartsNext
<1>13. ASSUME NEW n \in Node, Crash(n) \/ Expire(n) PROVE TypeInv'
  <2>1. Shapes'
    BY <1>0, <1>13 DEF Crash, Expire, Change, Shapes
  <2>2. CASE Crash(n)
    <3>1. Connected' /\ Hears'
      BY <1>0, <2>2 DEF Crash, Connected, Hears
    <3>2. QED
      BY <2>1, <3>1, PartsNext
  <2>3. CASE Expire(n)
    <3>1. Hears' /\ (~watch /\ ~event => ~watch' /\ ~event')
      BY <1>0, <2>3, HeardChange DEF Expire
    <3>2. Connected'
      BY <1>0, <2>3, <3>1 DEF Expire, Connected
    <3>3. QED
      BY <2>1, <3>1, <3>2, PartsNext
  <2>4. QED
    BY <1>13, <2>2, <2>3
<1>14. CASE Answer
  <2>1. Shapes'
    BY <1>0, <1>14 DEF Answer, Shapes
  <2>2. Connected' /\ Hears'
    BY <1>0, <1>14 DEF Answer, Connected, Hears
  <2>3. QED
    BY <2>1, <2>2, PartsNext
<1>15. CASE UNCHANGED vars
  <2>1. Shapes'
    <3>1. UNCHANGED <<nodes, last, alive, live, to, fd, open, peer, head, tail, main, mlist, cmd, using, asked, answer, wpc, wlist>>
      BY <1>15 DEF vars
    <3>2. QED
      BY <1>0, <3>1 DEF Shapes
  <2>2. Connected' /\ Hears'
    BY <1>0, <1>15 DEF vars, Connected, Hears
  <2>3. QED
    BY <2>1, <2>2, PartsNext
<1>16. QED
  BY <1>1, <1>2, <1>3, <1>4, <1>5, <1>6, <1>7, <1>8, <1>9, <1>10, <1>11, <1>12, <1>13, <1>14, <1>15
     DEF Next, Main, Watcher, User

LEMMA TypeInvariant == Spec => []TypeInv
BY TypeInit, TypeStep, PTL DEF Spec

(* The types of the variables; and from its start on the client has a      *)
(* watch or an event.                                                      *)
THEOREM TypeCorrect == Spec => []TypeOK
BY TypeInvariant, PTL DEF TypeInv
-----------------------------------------------------------------------------
(* The steps that leave the two links to themselves: a command closes at   *)
(* most a socket, and /chain changes only to be heard of.                  *)
Aside ==
    /\ UNCHANGED <<links, pointers, mlist, watcher>>
    /\ SocketsKept /\ (main \notin Calling => UNCHANGED sockets)
    /\ main' = main \/ (Running /\ main' \in Calling \cup {"prompt", "crashed"})
    /\ UNCHANGED <<nodes, event>> \/ event' \/ main = "start" \/ Gone

LEMMA AsideSteps ==
  ASSUME TypeInv,
         \/ Command \/ Send \/ Read \/ Answered \/ EndOfFile \/ StrayEnds
         \/ Join \/ (\E n \in Node : Crash(n) \/ Expire(n)) \/ Answer \/ UNCHANGED vars
  PROVE  Aside
<1> USE DEF Calling, Running, chain, session, links, sockets, pointers, command, watcher
<1>0. Shapes /\ Hears /\ Connected
  BY Parts DEF TypeInv
<1>1. CASE Command \/ Send \/ Read \/ Answered \/ EndOfFile \/ StrayEnds
  <2>1. CallKept /\ Running
    BY <1>1, CallMakes
  <2>2. main \notin Calling => UNCHANGED sockets
    BY <1>1 DEF Command, Send, Read, Answered, EndOfFile, StrayEnds
  <2>3. QED
    BY <2>1, <2>2 DEF CallKept, Aside
<1>2. UNCHANGED sockets => SocketsKept
  BY <1>0, ClosingKeeps
<1>3. CASE Join \/ \E n \in Node : Expire(n)
  <2>1. /\ UNCHANGED <<links, sockets, pointers, main, mlist, watcher, answer>>
        /\ \E children : Change(children)
    BY <1>3 DEF Join, Expire
  <2>2. Hears /\ (watch \/ event => event')
    BY <1>0, <2>1, HeardChange
  <2>3. event' \/ main = "start" \/ Gone
    BY <2>2, Zenon DEF Hears
  <2>4. QED
    BY <1>2, <2>1, <2>3 DEF Aside
<1>4. CASE (\E n \in Node : Crash(n)) \/ Answer \/ UNCHANGED vars
  <2>1. UNCHANGED <<links, sockets, pointers, main, mlist, watcher, nodes, event>>
    BY <1>4 DEF Crash, Answer, vars
  <2>2. QED
    BY <1>2, <2>1 DEF Aside
<1>5. QED
  BY <1>1, <1>3, <1>4

(* Where the two threads may be at one time, and what they hold then.  The *)
(* link that child_watcher() is connecting stays allocated; what it has    *)
(* dropped is not back before main() has stored a link; and if it runs in  *)
(* front of main(), the link it stores is overtaken.                       *)
Early == {"start", "listed", "heading", "headed"}

Stages ==
  ~Gone =>
    /\ wpc \in {"heading", "head refused"} => head \in live
    /\ wpc \in {"tailing", "tail refused"} => tail \in live
    /\ wpc \in {"headless", "dropped"} /\ main \in {"start", "listed"} => head \notin live
    /\ wpc \in {"dropped", "heading", "head refused", "headed"} /\ main \in Early => tail \notin live
    /\ wpc \in {"heading", "head refused", "headed"} /\ main = "listed" => overtaken
    /\ wpc \in {"tailing", "tail refused"} /\ main \in {"listed", "heading", "headed"} => overtaken

LEMMA StagesStep == TypeInv /\ Stages /\ [Next]_vars => Stages'
<1> SUFFICES ASSUME TypeInv, Stages, [Next]_vars PROVE Stages'
  OBVIOUS
<1> USE DEF Gone, Early, Calling, Running, chain, session, links, sockets, pointers, command, watcher
<1>0. Shapes /\ Hears /\ Connected
  BY Parts DEF TypeInv
<1>1. CASE MainList
  BY <1>0, <1>1 DEF MainList, Stages, Connected
<1>2. CASE MainHead
  <2>1. PICK l \in Link : New(l, First(mlist)) /\ head' = l
    BY <1>2 DEF MainHead
  <2>2. l \in live' /\ live \subseteq live' /\ l # tail /\ (\A k \in live' : k = l \/ k \in live)
    BY <1>0, <2>1, NewMakes
  <2>3. QED
    BY <1>2, <2>1, <2>2 DEF MainHead, Stages
<1>3. CASE MainTail
  <2>1. PICK l \in Link : New(l, Last(mlist)) /\ tail' = l
    BY <1>3 DEF MainTail
  <2>2. l \in live' /\ live \subseteq live'
    BY <1>0, <2>1, NewMakes
  <2>3. QED
    BY <1>3, <2>1, <2>2 DEF MainTail, Stages
<1>4. CASE MainConnectHead \/ MainConnectTail
  <2>1. \/ main \in {"heading", "tailing"} /\ main' \in {"ended", "prompt"}
        \/ main = "heading" /\ main' = "headed"
    BY <1>4 DEF MainConnectHead, MainConnectTail
  <2>2. UNCHANGED <<links, pointers, watcher>>
    BY <1>4 DEF MainConnectHead, MainConnectTail
  <2>3. QED
    BY <2>1, <2>2 DEF Stages
<1>5. CASE Quit \/ Interrupt
  BY <1>5 DEF Quit, Interrupt, Exit, Stages
<1>6. CASE Fetch
  BY <1>6 DEF Fetch, Stages
<1>7. CASE DropHead
  BY <1>7 DEF DropHead, Disconnect, Free, Stages
<1>8. CASE DropTail
  BY <1>8 DEF DropTail, Disconnect, Free, Stages
<1>9. CASE OpenHead
  <2>1. CASE main' = "crashed"
    BY <2>1 DEF Stages
  <2>2. ASSUME NEW l \in Link, NEW n, New(l, n), head' = l, UNCHANGED main
        PROVE  Stages'
    <3>1. l \in live' /\ l # tail /\ (\A k \in live' : k = l \/ k \in live)
      BY <1>0, <2>2, NewMakes
    <3>2. QED
      BY <1>0, <1>9, <2>2, <3>1 DEF OpenHead, Stages, Connected
  <2>3. QED
    BY <1>9, <2>1, <2>2 DEF OpenHead
<1>10. CASE ConnectHead
  BY <1>10 DEF ConnectHead, Stages
<1>11. CASE FreeHead
  BY <1>11 DEF FreeHead, Free, Stages
<1>12. CASE OpenTail
  <2>1. PICK l \in Link, n \in Target(Last(wlist)) : New(l, n) /\ tail' = l
    BY <1>12 DEF OpenTail
  <2>2. l \in live'
    BY <1>0, <2>1, NewMakes
  <2>3. QED
    BY <1>12, <2>1, <2>2 DEF OpenTail, Stages
<1>13. CASE ConnectTail \/ FreeTail
  <2>1. CASE FreeTail
    BY <2>1 DEF FreeTail, Stages
  <2>2. CASE ConnectTail
    <3>1. /\ wpc = "tailing" /\ wpc' \in {"idle", "tail refused"} /\ ~Gone
          /\ UNCHANGED <<live, head, tail, main, overtaken>>
      BY <2>2 DEF ConnectTail
    <3>2. QED
      BY <3>1 DEF Stages
  <2>3. QED
    BY <1>13, <2>1, <2>2
<1>14. CASE Aside
  BY <1>14 DEF Aside, Stages
<1>15. QED
  BY <1>1, <1>2, <1>3, <1>4, <1>5, <1>6, <1>7, <1>8, <1>9, <1>10, <1>11, <1>12, <1>13, <1>14, AsideSteps
     DEF Next, Main, Watcher, User

(* As long as main() has not stored both of its links, a link has a socket *)
(* of its own, unless its connection was refused.                          *)
Apart ==
  main \in Early =>
    /\ head \in live /\ wpc # "head refused" => fd[head] \in open
    /\ tail \in live /\ wpc # "tail refused" => fd[tail] \in open
    /\ head \in live /\ tail \in live /\ wpc # "tail refused" => fd[head] # fd[tail]

LEMMA ApartStep == TypeInv /\ Stages /\ Apart /\ [Next]_vars => Apart'
<1> SUFFICES ASSUME TypeInv, Stages, Apart, [Next]_vars, main' \in Early PROVE Apart'
  BY DEF Apart
<1> USE DEF Gone, Early, Calling, Running, chain, session, links, sockets, pointers, command, watcher
<1>0. Shapes /\ Hears /\ Connected
  BY Parts DEF TypeInv
<1>1. head \in live => head \in Link
  BY <1>0 DEF Shapes
<1>2. tail \in live => tail \in Link
  BY <1>0 DEF Shapes
<1>3. CASE MainList
  BY <1>3 DEF MainList, Apart
<1>4. CASE MainHead
  <2>1. PICK l \in Link : New(l, First(mlist)) /\ head' = l
    BY <1>4 DEF MainHead
  <2>2. /\ l \in live' /\ l # tail /\ open' = open \cup {fd'[l]} /\ fd'[l] \notin open
        /\ (tail \in live' => tail \in live /\ fd'[tail] = fd[tail])
    BY <1>0, <1>2, <2>1, NewMakes
  <2>3. main = "listed" /\ UNCHANGED <<tail, wpc>>
    BY <1>4 DEF MainHead
  <2>4. QED
    BY <2>1, <2>2, <2>3 DEF Apart
<1>5. CASE MainConnectHead
  <2>1. open' = open
    BY <1>0, <1>5, ConnectMakes DEF MainConnectHead, Shapes
  <2>2. QED
    BY <1>5, <2>1 DEF MainConnectHead, Apart
<1>6. CASE MainTail \/ MainConnectTail
  BY <1>6 DEF MainTail, MainConnectTail
<1>7. CASE Quit \/ Interrupt
  BY <1>7 DEF Quit, Interrupt, Exit
<1>8. CASE Fetch
  BY <1>8 DEF Fetch, Apart
<1>9. CASE DropHead
  <2>1. /\ live' = live \ {head} /\ main' \in {main, "crashed"}
        /\ open' = IF head \in live THEN open \ {fd[head]} ELSE open
        /\ \A k \in live' : fd'[k] = fd[k]
    BY <1>0, <1>9, DisconnectMakes DEF DropHead, Shapes
  <2>2. QED
    BY <1>9, <2>1 DEF DropHead, Apart
<1>10. CASE DropTail
  <2>1. /\ live' = live \ {tail} /\ main' \in {main, "crashed"}
        /\ open' = IF tail \in live THEN open \ {fd[tail]} ELSE open
        /\ \A k \in live' : fd'[k] = fd[k]
    BY <1>0, <1>10, DisconnectMakes DEF DropTail, Shapes
  <2>2. QED
    BY <1>10, <2>1 DEF DropTail, Apart
<1>11. CASE OpenHead
  <2>1. PICK l \in Link, n \in Target(First(wlist)) : New(l, n) /\ head' = l /\ UNCHANGED main
    BY <1>11 DEF OpenHead
  <2>2. l # tail /\ open' = open \cup {fd'[l]} /\ live' = live \cup {l}
    BY <1>0, <2>1, NewMakes
  <2>3. tail \notin live'
    BY <1>11, <2>1, <2>2 DEF OpenHead, Stages
  <2>4. QED
    BY <1>11, <2>1, <2>2, <2>3 DEF OpenHead, Apart
<1>12. CASE ConnectHead
  <2>1. PICK c \in BOOLEAN : /\ Connect(head, c) \/ StrayConnect(head, c)
                             /\ wpc' = IF c THEN "headed" ELSE "head refused"
    BY <1>12 DEF ConnectHead
  <2>2. head \in live /\ tail \notin live
    BY <1>12 DEF ConnectHead, Stages
  <2>3. c => open' = open
    BY <1>0, <2>1, ConnectMakes DEF Shapes
  <2>4. QED
    BY <1>12, <2>1, <2>2, <2>3 DEF ConnectHead, Apart
<1>13. CASE FreeHead
  <2>1. head \notin live' /\ live' \subseteq live
    BY <1>13 DEF FreeHead, Free
  <2>2. tail \notin live
    BY <1>13 DEF FreeHead, Stages
  <2>3. QED
    BY <1>13, <2>1, <2>2 DEF FreeHead, Apart
<1>14. CASE OpenTail
  <2>1. PICK l \in Link, n \in Target(Last(wlist)) : New(l, n) /\ tail' = l
    BY <1>14 DEF OpenTail
  <2>2. /\ l # head /\ open' = open \cup {fd'[l]} /\ fd'[l] \notin open
        /\ (head \in live' => head \in live /\ fd'[head] = fd[head])
    BY <1>0, <1>1, <2>1, NewMakes
  <2>3. wpc = "headed" /\ wpc' = "tailing" /\ UNCHANGED <<head, main>>
    BY <1>14 DEF OpenTail
  <2>4. QED
    BY <2>1, <2>2, <2>3 DEF Apart
<1>15. CASE ConnectTail
  <2>1. PICK c \in BOOLEAN : /\ Connect(tail, c) \/ StrayConnect(tail, c)
                             /\ wpc' = IF c THEN "idle" ELSE "tail refused"
    BY <1>15 DEF ConnectTail
  <2>2. tail \in live
    BY <1>15 DEF ConnectTail, Stages
  <2>3. /\ c => open' = open
        /\ ~c => open' = open \ {fd[tail]}
    BY <1>0, <2>1, <2>2, ConnectMakes DEF Shapes
  <2>4. QED
    BY <1>15, <2>1, <2>2, <2>3 DEF ConnectTail, Apart
<1>16. CASE FreeTail
  <2>1. tail \notin live' /\ live' \subseteq live /\ (head \in live' => fd'[head] = fd[head])
    BY <1>1, <1>16 DEF FreeTail, Free
  <2>2. QED
    BY <1>16, <2>1 DEF FreeTail, Apart
<1>17. CASE Aside
  BY <1>17 DEF Aside, Apart
<1>18. QED
  BY <1>3, <1>4, <1>5, <1>6, <1>7, <1>8, <1>9, <1>10, <1>11, <1>12, <1>13, <1>14, <1>15, <1>16, <1>17, AsideSteps
     DEF Next, Main, Watcher, User
-----------------------------------------------------------------------------
(* What the two threads know of /chain while nothing is left to hear.      *)
(* child_watcher() works on the present list; so does main(), unless       *)
(* child_watcher() has been there first.  A link is right as soon as it is *)
(* connected, and the two share a socket only after a command has failed.  *)
Good(l, n) == l \in live /\ fd[l] \in open => peer[fd[l]] = n
HeadGood   == Good(head, First(nodes))
TailGood   == Good(tail, Last(nodes))

WatcherKnows ==
    /\ wpc = "heading" => to[head] = First(nodes)
    /\ wpc = "headed" => HeadGood
    /\ wpc \in {"tailing", "tail refused"} => HeadGood \/ Mixed
    /\ wpc = "tailing" => to[tail] = Last(nodes)
    /\ wpc = "tail refused" => fd[tail] \notin open

MainKnows ==
    /\ main \in {"listed", "heading", "headed"} => mlist = nodes
    /\ main = "heading" => head \in live /\ to[head] = First(nodes)
    /\ main \in {"headed", "tailing"} \/ Running => HeadGood \/ Mixed
    /\ main = "tailing" /\ tail \in live =>
          to[tail] = Last(nodes) /\ (fd[tail] \in open => peer[fd[tail]] \in {0, Last(nodes)})
    /\ Running => TailGood \/ Mixed

FollowInv ==
  ~event /\ ~Gone =>
    /\ wpc # "idle" => wlist = nodes
    /\ ~overtaken /\ nodes # {} => WatcherKnows /\ (wpc = "idle" => MainKnows)

(* A link that leads to a server keeps to it, whatever socket is closed or *)
(* connected.                                                              *)
LEMMA GoodKept ==
  ASSUME Shapes, NEW l, NEW n \in Node, Good(l, n), SocketsKept, UNCHANGED links
  PROVE  Good(l, n)'
<1>1. l \in live => fd[l] \in Socket \cup {0}
  BY DEF Shapes
<1>2. n # 0
  BY Ranges
<1>3. QED
  BY <1>1, <1>2 DEF Good, SocketsKept, links

LEMMA FollowStep ==
  ASSUME TypeInv, Stages, Apart, FollowInv, [Next]_vars
  PROVE  FollowInv'
<1> USE DEF Gone, Calling, Running, chain, session, links, sockets, pointers, command, watcher
<1>0. Shapes /\ Hears /\ Connected
  BY Parts DEF TypeInv
<1>a. nodes # {} => First(nodes) \in Node /\ Last(nodes) \in Node /\ First(nodes) # 0 /\ Last(nodes) # 0
  BY <1>0, Ends, Ranges
<1>b. /\ head \in live => head \in Link /\ fd[head] \in Socket \cup {0}
      /\ tail \in live => tail \in Link /\ fd[tail] \in Socket \cup {0}
      /\ \A f \in Socket : f \notin open => peer[f] = 0
      /\ open \subseteq Socket
  BY <1>0 DEF Shapes, Connected
<1>1. CASE MainList
  BY <1>0, <1>1 DEF MainList, FollowInv, WatcherKnows, MainKnows, Connected
<1>2. CASE MainHead
  <2>1. PICK l \in Link : New(l, First(mlist)) /\ head' = l
    BY <1>2 DEF MainHead
  <2>2. to'[l] = First(mlist) /\ l \in live'
    BY <1>0, <2>1, NewMakes
  <2>3. main = "listed" /\ main' = "heading" /\ UNCHANGED <<nodes, event, mlist, wpc, wlist, overtaken>>
    BY <1>2 DEF MainHead
  <2>4. wpc \in {"heading", "headed", "tailing", "tail refused"} => overtaken
    BY <2>3 DEF Stages
  <2>5. QED
    BY <2>1, <2>2, <2>3, <2>4 DEF FollowInv, WatcherKnows, MainKnows
<1>3. CASE MainTail
  <2>1. PICK l \in Link : New(l, Last(mlist)) /\ tail' = l
    BY <1>3 DEF MainTail
  <2>2. /\ to'[l] = Last(mlist) /\ l # head /\ peer' = peer
        /\ fd'[l] \in Socket /\ fd'[l] \notin open /\ open' = open \cup {fd'[l]}
        /\ (head \in live' => head \in live /\ fd'[head] = fd[head] /\ to'[head] = to[head])
    BY <1>0, <1>b, <2>1, NewMakes
  <2>3. /\ main = "headed" /\ main' = "tailing"
        /\ UNCHANGED <<nodes, event, head, mlist, wpc, wlist, overtaken>>
    BY <1>3 DEF MainTail
  <2>4. wpc \in {"tailing", "tail refused"} => overtaken
    BY <2>3 DEF Stages
  <2>5. wpc # "head refused" => (HeadGood => HeadGood') /\ (HeadGood \/ Mixed => HeadGood \/ wpc = "tail refused")
    BY <2>2, <2>3 DEF Apart, Early, HeadGood, Good, Mixed
  <2>6. wpc = "heading" => head \in live'
    BY <1>0, <2>1, <2>3, NewMakes DEF Stages
  <2>7. peer'[fd'[l]] = 0
    BY <1>b, <2>2
  <2>8. QED
    BY <2>1, <2>2, <2>3, <2>4, <2>5, <2>6, <2>7 DEF FollowInv, WatcherKnows, MainKnows
<1>4. CASE MainConnectHead
  <2>1. PICK c \in BOOLEAN : /\ Connect(head, c) \/ StrayConnect(head, c)
                             /\ main' = IF c THEN "headed" ELSE "ended"
    BY <1>4 DEF MainConnectHead
  <2>2. /\ SocketsKept
        /\ head \in live /\ c => peer'[fd[head]] = to[head]
    BY <1>0, <2>1, ConnectMakes DEF Shapes
  <2>3. main = "heading" /\ UNCHANGED <<nodes, event, live, to, fd, head, tail, mlist, wpc, wlist, overtaken>>
    BY <1>4 DEF MainConnectHead
  <2>4. nodes # {} /\ HeadGood => HeadGood'
    BY <1>0, <1>a, <2>2, <2>3, GoodKept DEF HeadGood
  <2>5. wpc \in {"tailing", "tail refused"} => overtaken
    BY <2>3 DEF Stages
  <2>6. c /\ main = "heading" /\ head \in live /\ to[head] = First(nodes) => HeadGood'
    BY <2>2, <2>3 DEF HeadGood, Good
  <2>7. QED
    BY <2>1, <2>3, <2>4, <2>5, <2>6 DEF FollowInv, WatcherKnows, MainKnows
<1>5. CASE MainConnectTail
  <2>1. PICK c \in BOOLEAN : /\ Connect(tail, c) \/ StrayConnect(tail, c)
                             /\ main' = IF c THEN "prompt" ELSE "ended"
    BY <1>5 DEF MainConnectTail
  <2>2. /\ SocketsKept
        /\ tail \in live /\ c => peer'[fd[tail]] = to[tail]
    BY <1>0, <2>1, ConnectMakes DEF Shapes
  <2>3. main = "tailing" /\ UNCHANGED <<nodes, event, live, to, fd, head, tail, wpc, wlist, overtaken>>
    BY <1>5 DEF MainConnectTail
  <2>4. nodes # {} /\ HeadGood => HeadGood'
    BY <1>0, <1>a, <2>2, <2>3, GoodKept DEF HeadGood
  <2>5. Mixed' = Mixed /\ open' \subseteq open
    BY <2>2, <2>3 DEF Mixed, SocketsKept
  <2>6. c /\ (tail \in live => to[tail] = Last(nodes)) => TailGood'
    BY <2>2, <2>3 DEF TailGood, Good
  <2>7. QED
    BY <2>1, <2>3, <2>4, <2>5, <2>6 DEF FollowInv, WatcherKnows, MainKnows
<1>6. CASE Quit \/ Interrupt
  BY <1>6 DEF Quit, Interrupt, Exit, FollowInv
<1>7. CASE Fetch
  BY <1>7 DEF Fetch, FollowInv, WatcherKnows
<1>8. CASE DropHead \/ DropTail
  <2>1. main' \in {main, "crashed"}
    BY <1>8 DEF DropHead, DropTail, Disconnect
  <2>2. QED
    BY <1>8, <2>1 DEF DropHead, DropTail, FollowInv, WatcherKnows
<1>9. CASE OpenHead
  <2>1. CASE main' = "crashed"
    BY <2>1 DEF FollowInv
  <2>2. ASSUME NEW l \in Link, NEW n \in Target(First(wlist)), New(l, n), head' = l, UNCHANGED main
        PROVE  FollowInv'
    <3>1. to'[l] = n
      BY <1>0, <2>2, NewMakes
    <3>2. wpc = "dropped" /\ wpc' = "heading" /\ UNCHANGED <<nodes, event, wlist>>
      BY <1>9 DEF OpenHead
    <3>3. wlist # {} => n = First(wlist)
      BY <2>2 DEF Target
    <3>4. QED
      BY <2>2, <3>1, <3>2, <3>3 DEF FollowInv, WatcherKnows
  <2>3. QED
    BY <1>9, <2>1, <2>2 DEF OpenHead
<1>10. CASE ConnectHead
  <2>1. PICK c \in BOOLEAN : /\ Connect(head, c) \/ StrayConnect(head, c)
                             /\ wpc' = IF c THEN "headed" ELSE "head refused"
    BY <1>10 DEF ConnectHead
  <2>2. head \in live => (c => peer'[fd[head]] = to[head])
    BY <1>0, <2>1, ConnectMakes DEF Shapes
  <2>3. wpc = "heading" /\ UNCHANGED <<nodes, event, live, to, fd, head, tail, main, wlist, overtaken>>
    BY <1>10 DEF ConnectHead
  <2>4. c /\ to[head] = First(nodes) => HeadGood'
    BY <2>2, <2>3 DEF HeadGood, Good
  <2>5. QED
    BY <2>1, <2>3, <2>4 DEF FollowInv, WatcherKnows
<1>11. CASE FreeHead
  <2>1. HeadGood'
    BY <1>11 DEF FreeHead, Free, HeadGood, Good
  <2>2. QED
    BY <1>11, <2>1 DEF FreeHead, FollowInv, WatcherKnows
<1>12. CASE OpenTail
  <2>1. PICK l \in Link, n \in Target(Last(wlist)) : New(l, n) /\ tail' = l
    BY <1>12 DEF OpenTail
  <2>2. /\ to'[l] = n /\ l # head /\ l \in live' /\ peer' = peer /\ open' = open \cup {fd'[l]}
        /\ live' = live \cup {l}
        /\ (head \in live => fd'[head] = fd[head])
    BY <1>0, <1>b, <2>1, NewMakes
  <2>3. wpc = "headed" /\ wpc' = "tailing" /\ UNCHANGED <<nodes, event, head, main, wlist>>
    BY <1>12 DEF OpenTail
  <2>4. HeadGood => HeadGood' \/ Mixed'
    BY <2>1, <2>2, <2>3 DEF HeadGood, Good, Mixed
  <2>5. wlist # {} => n = Last(wlist)
    BY <2>1 DEF Target
  <2>6. ~overtaken' => ~overtaken
    BY <1>12 DEF OpenTail
  <2>7. QED
    BY <2>1, <2>2, <2>3, <2>4, <2>5, <2>6 DEF FollowInv, WatcherKnows
<1>13. CASE ConnectTail
  <2>1. PICK c \in BOOLEAN : /\ Connect(tail, c) \/ StrayConnect(tail, c)
                             /\ wpc' = IF c THEN "idle" ELSE "tail refused"
    BY <1>13 DEF ConnectTail
  <2>2. wpc = "tailing" /\ UNCHANGED <<nodes, event, live, to, fd, head, tail, main, overtaken>>
        /\ (wpc' # "idle" => wlist' = wlist)
    BY <1>13 DEF ConnectTail
  <2>3. tail \in live
    BY <1>13 DEF ConnectTail, Stages
  <2>4. /\ SocketsKept
        /\ c => peer'[fd[tail]] = to[tail]
        /\ ~c => open' = open \ {fd[tail]}
    BY <1>0, <2>1, <2>3, ConnectMakes DEF Shapes
  <2>5. nodes # {} /\ HeadGood => HeadGood'
    BY <1>0, <1>a, <2>2, <2>4, GoodKept DEF HeadGood
  <2>6. Mixed' = Mixed
    BY <2>2 DEF Mixed
  <2>7. c /\ to[tail] = Last(nodes) => TailGood'
    BY <2>2, <2>4 DEF TailGood, Good
  <2>8. main \in {"listed", "heading", "headed"} => overtaken
    BY <2>2 DEF Stages
  <2>9. CASE ~c
    BY <2>1, <2>2, <2>4, <2>5, <2>6, <2>9 DEF FollowInv, WatcherKnows
  <2>10. CASE c
    BY <1>a, <2>1, <2>2, <2>4, <2>5, <2>6, <2>7, <2>8, <2>10 DEF FollowInv, WatcherKnows, MainKnows
  <2>11. QED
    BY <2>9, <2>10
<1>14. CASE FreeTail
  <2>1. wpc = "tail refused" /\ wpc' = "idle" /\ UNCHANGED <<nodes, event, open, peer, head, tail, main, overtaken>>
    BY <1>14 DEF FreeTail
  <2>2. /\ tail \notin live' /\ live' \subseteq live
        /\ (head \in live' => fd'[head] = fd[head])
    BY <1>b, <1>14 DEF FreeTail, Free
  <2>3. TailGood'
    BY <2>1, <2>2 DEF TailGood, Good
  <2>4. (HeadGood \/ Mixed) /\ fd[tail] \notin open => HeadGood'
    BY <2>1, <2>2 DEF HeadGood, Good, Mixed
  <2>5. main \in {"listed", "heading", "headed"} => overtaken
    BY <2>1 DEF Stages
  <2>6. QED
    BY <2>1, <2>2, <2>3, <2>4, <2>5 DEF FollowInv, WatcherKnows, MainKnows
<1>15. CASE Aside
  <2>1. CASE event' \/ main = "start" \/ Gone
    BY <1>0, <1>15, <2>1 DEF Aside, FollowInv, WatcherKnows, MainKnows, Connected
  <2>2. CASE UNCHANGED <<nodes, event>>
    <3>1. /\ UNCHANGED <<live, to, fd, head, tail, mlist, wpc, wlist, overtaken>>
          /\ SocketsKept /\ open' \subseteq open
          /\ main' = main \/ (Running /\ main' \in Calling \cup {"prompt", "crashed"})
          /\ main \notin Calling => UNCHANGED <<open, peer>>
      BY <1>15 DEF Aside, SocketsKept
    <3>2. nodes # {} => (HeadGood => HeadGood') /\ (TailGood => TailGood') /\ Mixed' = Mixed
      BY <1>0, <1>a, <2>2, <3>1, GoodKept DEF HeadGood, TailGood, Mixed
    <3>3. nodes # {} /\ ~Gone' /\ WatcherKnows => WatcherKnows'
      BY <2>2, <3>1, <3>2 DEF WatcherKnows
    <3>4. nodes # {} /\ ~Gone' /\ MainKnows => MainKnows'
      BY <2>2, <3>1, <3>2 DEF MainKnows
    <3>5. QED
      BY <2>2, <3>1, <3>3, <3>4 DEF FollowInv
  <2>3. QED
    BY <1>15, <2>1, <2>2 DEF Aside
<1>16. QED
  BY <1>1, <1>2, <1>3, <1>4, <1>5, <1>6, <1>7, <1>8, <1>9, <1>10, <1>11, <1>12, <1>13, <1>14, <1>15, AsideSteps
     DEF Next, Main, Watcher, User

ThreadInv == TypeInv /\ Stages /\ Apart

LEMMA ThreadInvariant == Spec => []ThreadInv
<1>1. Init => Stages /\ Apart
  BY DEF Init, Stages, Apart, Early
<1>2. QED
  BY <1>1, TypeInit, TypeStep, StagesStep, ApartStep, PTL DEF Spec, ThreadInv

(* With no change of /chain to hear of or to act on, the links lead to the *)
(* head and to the tail of the chain, or nowhere, but for the exceptions   *)
(* of LinksFollowChain.                                                    *)
THEOREM LinksFollow == Spec => []LinksFollowChain
<1>1. Init => FollowInv
  BY DEF Init, FollowInv
<1>2. ThreadInv /\ FollowInv /\ [Next]_vars => FollowInv'
  BY FollowStep DEF ThreadInv
<1>3. FollowInv => LinksFollowChain
  BY DEF FollowInv, MainKnows, LinksFollowChain, AtTheEnds, HeadGood, TailGood, Good, Right,
         Running, Gone, Calling
<1>4. QED
  BY <1>1, <1>2, <1>3, ThreadInvariant, PTL DEF Spec
-----------------------------------------------------------------------------
(* A link is orphaned when a thread stores a new one over its pointer.     *)
(* Each of the two calls of main() does so at most once: either it stores  *)
(* over a link of child_watcher(), or child_watcher(), which has dropped   *)
(* the old links by then, stores over its link.                            *)
Orphans == live \ {head, tail}

(* The calls of main() that are still to come; its links that are about to *)
(* be stored over.                                                         *)
MainCalls  == IF main \in {"start", "listed"} THEN 2
              ELSE IF main \in {"heading", "headed"} THEN 1 ELSE 0
HeadAtRisk == IF head \in live /\ wpc \in {"headless", "dropped"} THEN 1 ELSE 0
TailAtRisk == IF tail \in live /\ wpc \in {"dropped", "heading", "head refused", "headed"}
              THEN 1 ELSE 0

OrphanInv == Cardinality(Orphans) + MainCalls + HeadAtRisk + TailAtRisk <= 2

(* A socket is leaked when the number of one that was closed, given out    *)
(* again to main(), is then freed with the link of child_watcher().        *)
Leaked == open \ {fd[l] : l \in live}

HeadShared == wpc = "head refused" /\ fd[head] \in open
TailShared == wpc = "tail refused" /\ fd[tail] \in open
HeadLeaks  == IF HeadShared THEN 1 ELSE 0
TailLeaks  == IF TailShared THEN 1 ELSE 0

LeakInv == Cardinality(Leaked) + MainCalls + HeadLeaks + TailLeaks <= 2

LEMMA OrphansFinite ==
  ASSUME Shapes
  PROVE  IsFiniteSet(Orphans) /\ Cardinality(Orphans) \in Nat
<1>1. IsFiniteSet(Link)
  BY FS_Interval, ClientAssumption DEF Link
<1>2. Orphans \in SUBSET Link
  BY DEF Orphans, Shapes
<1>3. QED
  BY <1>1, <1>2, FS_Subset, FS_CardinalityType

LEMMA LeakedFinite ==
  ASSUME Shapes
  PROVE  IsFiniteSet(Leaked) /\ Cardinality(Leaked) \in Nat
<1>1. IsFiniteSet(Socket)
  BY FS_Interval, ClientAssumption DEF Socket
<1>2. Leaked \in SUBSET Socket
  BY DEF Leaked, Shapes
<1>3. QED
  BY <1>1, <1>2, FS_Subset, FS_CardinalityType

LEMMA Numbers ==
    /\ MainCalls \in 0 .. 2 /\ MainCalls' \in 0 .. 2
    /\ HeadAtRisk \in 0 .. 1 /\ HeadAtRisk' \in 0 .. 1
    /\ TailAtRisk \in 0 .. 1 /\ TailAtRisk' \in 0 .. 1
    /\ HeadLeaks \in 0 .. 1 /\ HeadLeaks' \in 0 .. 1
    /\ TailLeaks \in 0 .. 1 /\ TailLeaks' \in 0 .. 1
BY DEF MainCalls, HeadAtRisk, TailAtRisk, HeadLeaks, TailLeaks

(* One of the two at most has been refused.                                *)
LEMMA OneShared ==
    /\ HeadLeaks' = 0 \/ TailLeaks' = 0
    /\ wpc \notin {"head refused", "tail refused"} => HeadLeaks = 0 /\ TailLeaks = 0
    /\ wpc' \notin {"head refused", "tail refused"} => HeadLeaks' = 0 /\ TailLeaks' = 0
<1>1. ~(HeadShared' /\ TailShared')
  BY DEF HeadShared, TailShared
<1>2. wpc \notin {"head refused", "tail refused"} => ~HeadShared /\ ~TailShared
  BY DEF HeadShared, TailShared
<1>3. wpc' \notin {"head refused", "tail refused"} => ~HeadShared' /\ ~TailShared'
  BY DEF HeadShared, TailShared
<1>4. HeadLeaks' = 0 \/ TailLeaks' = 0
  BY <1>1 DEF HeadLeaks, TailLeaks
<1>5. /\ ~HeadShared => HeadLeaks = 0
      /\ ~TailShared => TailLeaks = 0
      /\ ~HeadShared' => HeadLeaks' = 0
      /\ ~TailShared' => TailLeaks' = 0
  BY DEF HeadLeaks, TailLeaks
<1>6. QED
  BY <1>2, <1>3, <1>4, <1>5

(* A new link is stored over the pointer p; the other pointer is q.        *)
LEMMA StoredOver ==
  ASSUME Shapes, NEW p \in {head, tail}, NEW q \in {head, tail}, {head, tail} = {p, q},
         NEW l, l \notin live \cup {head, tail}, live' = live \cup {l},
         {head', tail'} = {l, q}
  PROVE  Cardinality(Orphans') \in Nat /\ Cardinality(Orphans') <=
           Cardinality(Orphans) + (IF p \in live THEN 1 ELSE 0)
<1>1. CASE p \in live /\ p # q
  <2>1. Orphans' = Orphans \cup {p} /\ p \notin Orphans
    BY <1>1 DEF Orphans
  <2>2. QED
    BY <1>1, <2>1, OrphansFinite, FS_AddElement
<1>2. CASE ~(p \in live /\ p # q)
  <2>1. Orphans' = Orphans
    BY <1>2 DEF Orphans
  <2>2. QED
    BY <2>1, OrphansFinite
<1>3. QED
  BY <1>1, <1>2

(* No socket is leaked by a step that frees none, nor by one that closes   *)
(* the socket of the link it frees.                                        *)
LEMMA NotLeaked ==
  ASSUME Shapes, Leaked' \subseteq Leaked
  PROVE  Cardinality(Leaked') \in Nat /\ Cardinality(Leaked') <= Cardinality(Leaked)
<1>1. IsFiniteSet(Leaked) /\ Leaked' \in SUBSET Leaked
  BY LeakedFinite
<1>2. IsFiniteSet(Leaked') /\ Cardinality(Leaked') <= Cardinality(Leaked)
  BY <1>1, FS_Subset
<1>3. QED
  BY <1>2, FS_CardinalityType

LEMMA NewNotLeaked ==
  ASSUME Shapes, NEW l \in Link, NEW n, New(l, n)
  PROVE  Cardinality(Leaked') \in Nat /\ Cardinality(Leaked') <= Cardinality(Leaked)
<1>1. /\ l \notin live /\ live' = live \cup {l} /\ open' = open \cup {fd'[l]}
      /\ \A k \in Link \ {l} : fd'[k] = fd[k]
  BY NewMakes
<1>2. live \subseteq Link
  BY DEF Shapes
<1>3. Leaked' \subseteq Leaked
  BY <1>1, <1>2 DEF Leaked
<1>4. QED
  BY <1>3, NotLeaked

LEMMA FreeLeaks ==
  ASSUME Shapes, NEW l \in live, Free(l), open' = open
  PROVE  Cardinality(Leaked') \in Nat /\ Cardinality(Leaked') <=
           Cardinality(Leaked) + (IF fd[l] \in open THEN 1 ELSE 0)
<1>1. live' = live \ {l} /\ (\A k \in live' : fd'[k] = fd[k])
  BY FreeMakes DEF Shapes
<1>2. Leaked' \subseteq Leaked \cup (IF fd[l] \in open THEN {fd[l]} ELSE {})
  BY <1>1 DEF Leaked
<1>3. CASE fd[l] \in open
  <2>1. /\ IsFiniteSet(Leaked \cup {fd[l]})
        /\ Cardinality(Leaked \cup {fd[l]}) \in Nat
        /\ Cardinality(Leaked \cup {fd[l]}) <= Cardinality(Leaked) + 1
    BY LeakedFinite, FS_AddElement
  <2>2. Leaked' \subseteq Leaked \cup {fd[l]}
    BY <1>2, <1>3
  <2>3. IsFiniteSet(Leaked') /\ Cardinality(Leaked') \in Nat
        /\ Cardinality(Leaked') <= Cardinality(Leaked \cup {fd[l]})
    BY <2>1, <2>2, FS_Subset, FS_CardinalityType
  <2>4. QED
    BY <1>3, <2>1, <2>3, LeakedFinite
<1>4. CASE fd[l] \notin open
  <2>1. Leaked' \subseteq Leaked
    BY <1>2, <1>4
  <2>2. Cardinality(Leaked') \in Nat /\ Cardinality(Leaked') <= Cardinality(Leaked)
    BY <2>1, NotLeaked
  <2>3. QED
    BY <1>4, <2>2, LeakedFinite
<1>5. QED
  BY <1>3, <1>4

LEMMA BoundStep ==
  ASSUME TypeInv, Stages, OrphanInv, LeakInv, [Next]_vars
  PROVE  OrphanInv' /\ LeakInv'
<1> USE DEF chain, session, links, sockets, pointers, command, watcher
<1>0. Shapes /\ Hears /\ Connected
  BY Parts DEF TypeInv
<1>a. /\ Cardinality(Orphans) \in Nat /\ Cardinality(Leaked) \in Nat
      /\ Cardinality(Orphans) + MainCalls + HeadAtRisk + TailAtRisk <= 2
      /\ Cardinality(Leaked) + MainCalls + HeadLeaks + TailLeaks <= 2
  BY <1>0, OrphansFinite, LeakedFinite DEF OrphanInv, LeakInv
(* The sums do not grow.                                                   *)
<1>b. ASSUME Cardinality(Orphans') \in Nat, Cardinality(Leaked') \in Nat,
             Cardinality(Leaked') + MainCalls' + HeadLeaks' + TailLeaks' <=
               Cardinality(Leaked) + MainCalls + HeadLeaks + TailLeaks,
             Cardinality(Orphans') + MainCalls' + HeadAtRisk' + TailAtRisk' <=
               Cardinality(Orphans) + MainCalls + HeadAtRisk + TailAtRisk
      PROVE  OrphanInv' /\ LeakInv'
  BY <1>a, <1>b, Numbers DEF OrphanInv, LeakInv
(* Nothing is stored and nothing is freed.                                 *)
<1>c. ASSUME UNCHANGED <<live, fd, head, tail>>, open' \subseteq open,
             MainCalls' <= MainCalls,
             HeadAtRisk' = HeadAtRisk, TailAtRisk' = TailAtRisk,
             HeadShared' => HeadShared, TailShared' => TailShared
      PROVE  OrphanInv' /\ LeakInv'
  <2>1. Orphans' = Orphans /\ Leaked' \subseteq Leaked
    BY <1>c DEF Orphans, Leaked
  <2>2. Cardinality(Leaked') \in Nat /\ Cardinality(Leaked') <= Cardinality(Leaked)
    BY <1>0, <2>1, NotLeaked
  <2>3. HeadLeaks' <= HeadLeaks /\ TailLeaks' <= TailLeaks
    BY <1>c DEF HeadLeaks, TailLeaks
  <2>4. QED
    BY <1>a, <1>b, <1>c, <2>1, <2>2, <2>3, Numbers
<1>1. CASE MainList
  <2>1. UNCHANGED <<live, fd, head, tail, open, wpc>> /\ main = "start"
    BY <1>1 DEF MainList
  <2>2. MainCalls' <= MainCalls
    BY <2>1, Numbers DEF MainCalls
  <2>3. HeadAtRisk' = HeadAtRisk /\ TailAtRisk' = TailAtRisk
    BY <2>1 DEF HeadAtRisk, TailAtRisk
  <2>4. QED
    BY <1>c, <2>1, <2>2, <2>3 DEF HeadShared, TailShared
<1>2. CASE MainHead
  <2>1. PICK l \in Link : New(l, First(mlist)) /\ head' = l
    BY <1>2 DEF MainHead
  <2>2. l \notin live \cup {head, tail} /\ live' = live \cup {l}
    BY <1>0, <2>1, NewMakes
  <2>3. Cardinality(Leaked') \in Nat /\ Cardinality(Leaked') <= Cardinality(Leaked)
    BY <1>0, <2>1, NewNotLeaked
  <2>4. main = "listed" /\ main' = "heading" /\ UNCHANGED <<tail, wpc>>
    BY <1>2 DEF MainHead
  <2>5. /\ Cardinality(Orphans') \in Nat
        /\ Cardinality(Orphans') <= Cardinality(Orphans) + (IF head \in live THEN 1 ELSE 0)
    BY <1>0, <2>1, <2>2, <2>4, StoredOver
  <2>6. TailAtRisk' = TailAtRisk /\ MainCalls = 2 /\ MainCalls' = 1
    BY <2>2, <2>4 DEF TailAtRisk, MainCalls
  <2>7. head \in live => HeadAtRisk' = 0
    BY <2>4 DEF HeadAtRisk, Stages, Gone
  <2>8. HeadLeaks' = 0 \/ TailLeaks' = 0
    BY OneShared
  <2>9. Cardinality(Orphans') + HeadAtRisk' <= Cardinality(Orphans) + HeadAtRisk + 1
    BY <1>a, <2>5, <2>7, Numbers
  <2>10. Cardinality(Leaked') + MainCalls' + HeadLeaks' + TailLeaks' <= 2
    BY <1>a, <2>3, <2>6, <2>8, Numbers
  <2>11. Cardinality(Orphans') + MainCalls' + HeadAtRisk' + TailAtRisk' <= 2
    BY <1>a, <2>5, <2>6, <2>9, Numbers
  <2>12. QED
    BY <2>10, <2>11 DEF OrphanInv, LeakInv
<1>3. CASE MainTail
  <2>1. PICK l \in Link : New(l, Last(mlist)) /\ tail' = l
    BY <1>3 DEF MainTail
  <2>2. l \notin live \cup {head, tail} /\ live' = live \cup {l}
    BY <1>0, <2>1, NewMakes
  <2>3. Cardinality(Leaked') \in Nat /\ Cardinality(Leaked') <= Cardinality(Leaked)
    BY <1>0, <2>1, NewNotLeaked
  <2>4. main = "headed" /\ main' = "tailing" /\ UNCHANGED <<head, wpc>>
    BY <1>3 DEF MainTail
  <2>5. /\ Cardinality(Orphans') \in Nat
        /\ Cardinality(Orphans') <= Cardinality(Orphans) + (IF tail \in live THEN 1 ELSE 0)
    BY <1>0, <2>1, <2>2, <2>4, StoredOver
  <2>6. HeadAtRisk' = HeadAtRisk /\ MainCalls = 1 /\ MainCalls' = 0
    BY <2>2, <2>4 DEF HeadAtRisk, MainCalls
  <2>7. tail \in live => TailAtRisk' = 0
    BY <2>4 DEF TailAtRisk, Stages, Gone, Early
  <2>8. HeadLeaks' = 0 \/ TailLeaks' = 0
    BY OneShared
  <2>9. Cardinality(Orphans') + TailAtRisk' <= Cardinality(Orphans) + TailAtRisk + 1
    BY <1>a, <2>5, <2>7, Numbers
  <2>10. Cardinality(Leaked') + MainCalls' + HeadLeaks' + TailLeaks' <= 2
    BY <1>a, <2>3, <2>6, <2>8, Numbers
  <2>11. Cardinality(Orphans') + MainCalls' + HeadAtRisk' + TailAtRisk' <= 2
    BY <1>a, <2>5, <2>6, <2>9, Numbers
  <2>12. QED
    BY <2>10, <2>11 DEF OrphanInv, LeakInv
<1>4. CASE MainConnectHead \/ MainConnectTail
  <2>1. open' \subseteq open
    BY <1>0, <1>4, ConnectMakes DEF MainConnectHead, MainConnectTail, SocketsKept, Shapes
  <2>2. /\ UNCHANGED <<live, fd, head, tail, wpc>>
        /\ \/ main = "heading" /\ main' \in {"headed", "ended"}
           \/ main = "tailing" /\ main' \in {"prompt", "ended"}
    BY <1>4 DEF MainConnectHead, MainConnectTail
  <2>3. MainCalls' <= MainCalls
    BY <2>2 DEF MainCalls
  <2>4. HeadAtRisk' = HeadAtRisk /\ TailAtRisk' = TailAtRisk
    BY <2>2 DEF HeadAtRisk, TailAtRisk
  <2>5. QED
    BY <1>c, <2>1, <2>2, <2>3, <2>4 DEF HeadShared, TailShared
<1>5. CASE Quit \/ Interrupt
  <2>1. Orphans' = {} /\ Leaked' = {} /\ live' = {} /\ main' = "ended" /\ wpc' = "idle"
    BY <1>5 DEF Quit, Interrupt, Exit, Orphans, Leaked
  <2>2. Cardinality(Orphans') = 0 /\ Cardinality(Leaked') = 0
    BY <2>1, FS_EmptySet
  <2>3. MainCalls' = 0 /\ HeadAtRisk' = 0 /\ TailAtRisk' = 0
    BY <2>1 DEF MainCalls, HeadAtRisk, TailAtRisk
  <2>4. HeadLeaks' = 0 /\ TailLeaks' = 0
    BY <2>1, OneShared
  <2>5. QED
    BY <2>2, <2>3, <2>4 DEF OrphanInv, LeakInv
<1>6. CASE Fetch
  <2>1. wpc = "idle" /\ wpc' = "fetched" /\ UNCHANGED <<live, fd, open, head, tail, main>>
    BY <1>6 DEF Fetch
  <2>2. HeadAtRisk' = HeadAtRisk /\ TailAtRisk' = TailAtRisk /\ MainCalls' = MainCalls
    BY <2>1 DEF HeadAtRisk, TailAtRisk, MainCalls
  <2>3. QED
    BY <1>c, <2>1, <2>2, Numbers DEF HeadShared, TailShared
<1>7. CASE DropHead \/ DropTail
  <2>1. PICK l :
           /\ l \in {head, tail} /\ Disconnect(l) /\ UNCHANGED <<head, tail>>
           /\ \/ wpc = "fetched" /\ wpc' = "headless" /\ l = head
              \/ wpc = "headless" /\ wpc' = "dropped" /\ l = tail
    BY <1>7 DEF DropHead, DropTail
  <2>2. /\ live' = live \ {l} /\ main' \in {main, "crashed"}
        /\ open' = IF l \in live THEN open \ {fd[l]} ELSE open
        /\ \A k \in live' : fd'[k] = fd[k]
    BY <1>0, <2>1, DisconnectMakes DEF Shapes
  <2>3. Orphans' = Orphans /\ Leaked' \subseteq Leaked
    BY <2>1, <2>2 DEF Orphans, Leaked
  <2>4. Cardinality(Leaked') \in Nat /\ Cardinality(Leaked') <= Cardinality(Leaked)
    BY <1>0, <2>3, NotLeaked
  <2>5. MainCalls' <= MainCalls
    BY <2>2, Numbers DEF MainCalls
  <2>6. HeadAtRisk' \in {0, HeadAtRisk} /\ TailAtRisk' = 0
    <3>1. wpc \in {"fetched", "headless"} /\ UNCHANGED <<head, tail>>
      BY <2>1
    <3>2. wpc' = "headless" => head \notin live'
      BY <2>1, <2>2
    <3>3. wpc' = "dropped" => tail \notin live' /\ wpc = "headless" /\ (head \in live' => head \in live)
      BY <2>1, <2>2
    <3>4. wpc' \in {"headless", "dropped"}
      BY <2>1
    <3>5. TailAtRisk' = 0
      BY <3>1, <3>3, <3>4 DEF TailAtRisk
    <3>6. HeadAtRisk' \in {0, HeadAtRisk}
      BY <3>1, <3>2, <3>3, <3>4 DEF HeadAtRisk
    <3>7. QED
      BY <3>5, <3>6
  <2>7. HeadLeaks' = 0 /\ TailLeaks' = 0
    BY <2>1, OneShared
  <2>8. QED
    BY <1>a, <1>b, <2>3, <2>4, <2>5, <2>6, <2>7, Numbers
<1>8. CASE OpenHead
  <2>1. wpc = "dropped" /\ wpc' = "heading" /\ UNCHANGED tail
    BY <1>8 DEF OpenHead
  <2>2. HeadLeaks' = 0 /\ TailLeaks' = 0
    BY <2>1, OneShared
  <2>3. CASE UNCHANGED <<links, sockets, head>> /\ main' = "crashed"
    <3>1. Orphans' = Orphans /\ Leaked' = Leaked
      BY <2>1, <2>3 DEF Orphans, Leaked
    <3>2. MainCalls' = 0 /\ HeadAtRisk' = 0 /\ TailAtRisk' = TailAtRisk
      BY <2>1, <2>3 DEF MainCalls, HeadAtRisk, TailAtRisk
    <3>3. QED
      BY <1>a, <1>b, <2>2, <3>1, <3>2, Numbers
  <2>4. ASSUME NEW l \in Link, NEW n, New(l, n), head' = l, UNCHANGED main
        PROVE  OrphanInv' /\ LeakInv'
    <3>1. l \notin live \cup {head, tail} /\ live' = live \cup {l}
      BY <1>0, <2>4, NewMakes
    <3>2. Cardinality(Leaked') \in Nat /\ Cardinality(Leaked') <= Cardinality(Leaked)
      BY <1>0, <2>4, NewNotLeaked
    <3>3. /\ Cardinality(Orphans') \in Nat
          /\ Cardinality(Orphans') <= Cardinality(Orphans) + (IF head \in live THEN 1 ELSE 0)
      BY <1>0, <2>1, <2>4, <3>1, StoredOver
    <3>4. /\ MainCalls' = MainCalls /\ TailAtRisk' = TailAtRisk
          /\ HeadAtRisk = (IF head \in live THEN 1 ELSE 0) /\ HeadAtRisk' = 0
      BY <2>1, <2>4, <3>1 DEF MainCalls, HeadAtRisk, TailAtRisk
    <3>5. QED
      BY <1>a, <1>b, <2>2, <3>2, <3>3, <3>4, Numbers
  <2>5. QED
    BY <1>8, <2>3, <2>4 DEF OpenHead
<1>9. CASE OpenTail
  <2>1. PICK l \in Link, n \in Target(Last(wlist)) : New(l, n) /\ tail' = l
    BY <1>9 DEF OpenTail
  <2>2. l \notin live \cup {head, tail} /\ live' = live \cup {l}
    BY <1>0, <2>1, NewMakes
  <2>3. Cardinality(Leaked') \in Nat /\ Cardinality(Leaked') <= Cardinality(Leaked)
    BY <1>0, <2>1, NewNotLeaked
  <2>4. wpc = "headed" /\ wpc' = "tailing" /\ UNCHANGED <<head, main>>
    BY <1>9 DEF OpenTail
  <2>5. /\ Cardinality(Orphans') \in Nat
        /\ Cardinality(Orphans') <= Cardinality(Orphans) + (IF tail \in live THEN 1 ELSE 0)
    BY <1>0, <2>1, <2>2, <2>4, StoredOver
  <2>6. /\ MainCalls' = MainCalls /\ HeadAtRisk' = 0
        /\ TailAtRisk = (IF tail \in live THEN 1 ELSE 0) /\ TailAtRisk' = 0
    BY <2>4 DEF MainCalls, HeadAtRisk, TailAtRisk
  <2>7. HeadLeaks' = 0 /\ TailLeaks' = 0
    BY <2>4, OneShared
  <2>8. QED
    BY <1>a, <1>b, <2>3, <2>5, <2>6, <2>7, Numbers
<1>10. CASE ConnectHead \/ ConnectTail
  <2>1. \/ /\ wpc = "heading" /\ head \in live
           /\ \/ wpc' = "headed" /\ open' \subseteq open
              \/ wpc' = "head refused" /\ open' = open \ {fd[head]}
        \/ /\ wpc = "tailing" /\ tail \in live
           /\ \/ wpc' = "idle" /\ open' \subseteq open
              \/ wpc' = "tail refused" /\ open' = open \ {fd[tail]}
    <3>1. CASE ConnectHead
      <4>1. PICK c \in BOOLEAN : /\ Connect(head, c) \/ StrayConnect(head, c)
                                 /\ wpc' = IF c THEN "headed" ELSE "head refused"
        BY <3>1 DEF ConnectHead
      <4>2. wpc = "heading" /\ head \in live
        BY <3>1 DEF ConnectHead, Stages
      <4>3. QED
        BY <1>0, <4>1, <4>2, ConnectMakes DEF SocketsKept, Shapes
    <3>2. CASE ConnectTail
      <4>1. PICK c \in BOOLEAN : /\ Connect(tail, c) \/ StrayConnect(tail, c)
                                 /\ wpc' = IF c THEN "idle" ELSE "tail refused"
        BY <3>2 DEF ConnectTail
      <4>2. wpc = "tailing" /\ tail \in live
        BY <3>2 DEF ConnectTail, Stages
      <4>3. QED
        BY <1>0, <4>1, <4>2, ConnectMakes DEF SocketsKept, Shapes
    <3>3. QED
      BY <1>10, <3>1, <3>2
  <2>2. UNCHANGED <<live, fd, head, tail, main>>
    BY <1>10 DEF ConnectHead, ConnectTail
  <2>3. HeadAtRisk' = HeadAtRisk /\ MainCalls' = MainCalls
    BY <2>1, <2>2 DEF HeadAtRisk, MainCalls
  <2>4. TailAtRisk' = TailAtRisk
    BY <2>1, <2>2 DEF TailAtRisk
  <2>5. ~HeadShared' /\ ~TailShared'
    BY <2>1, <2>2 DEF HeadShared, TailShared
  <2>6. open' \subseteq open
    BY <2>1
  <2>7. QED
    BY <1>c, <2>2, <2>3, <2>4, <2>5, <2>6, Numbers
<1>11. CASE FreeHead
  <2>1. /\ head \in live /\ wpc = "head refused" /\ wpc' = "headed" /\ Free(head)
        /\ UNCHANGED <<open, head, tail, main>>
    BY <1>11 DEF FreeHead, Stages
  <2>2. live' = live \ {head}
    BY <2>1 DEF Free
  <2>3. Orphans' = Orphans /\ MainCalls' = MainCalls
    BY <2>1, <2>2 DEF Orphans, MainCalls
  <2>4. HeadAtRisk' = 0 /\ TailAtRisk' \in {0, TailAtRisk}
    <3>1. wpc = "head refused" /\ wpc' = "headed" /\ (tail' \in live' => tail \in live)
      BY <2>1, <2>2
    <3>2. QED
      BY <3>1 DEF HeadAtRisk, TailAtRisk
  <2>5. /\ Cardinality(Leaked') \in Nat
        /\ Cardinality(Leaked') <= Cardinality(Leaked) + (IF fd[head] \in open THEN 1 ELSE 0)
    BY <1>0, <2>1, FreeLeaks
  <2>6. HeadShared <=> fd[head] \in open
    BY <2>1 DEF HeadShared
  <2>7. Cardinality(Leaked') <= Cardinality(Leaked) + HeadLeaks
    BY <2>5, <2>6 DEF HeadLeaks
  <2>8. HeadLeaks' = 0 /\ TailLeaks' = 0
    BY <2>1, OneShared
  <2>9. QED
    BY <1>a, <1>b, <2>3, <2>4, <2>5, <2>7, <2>8, Numbers
<1>12. CASE FreeTail
  <2>1. /\ tail \in live /\ wpc = "tail refused" /\ wpc' = "idle" /\ Free(tail)
        /\ UNCHANGED <<open, head, tail, main>>
    BY <1>12 DEF FreeTail, Stages
  <2>2. live' = live \ {tail}
    BY <2>1 DEF Free
  <2>3. Orphans' = Orphans /\ MainCalls' = MainCalls
    BY <2>1, <2>2 DEF Orphans, MainCalls
  <2>4. HeadAtRisk' = 0 /\ TailAtRisk' = 0
    BY <2>1 DEF HeadAtRisk, TailAtRisk
  <2>5. /\ Cardinality(Leaked') \in Nat
        /\ Cardinality(Leaked') <= Cardinality(Leaked) + (IF fd[tail] \in open THEN 1 ELSE 0)
    BY <1>0, <2>1, FreeLeaks
  <2>6. TailShared <=> fd[tail] \in open
    BY <2>1 DEF TailShared
  <2>7. Cardinality(Leaked') <= Cardinality(Leaked) + TailLeaks
    BY <2>5, <2>6 DEF TailLeaks
  <2>8. HeadLeaks' = 0 /\ TailLeaks' = 0
    BY <2>1, OneShared
  <2>9. QED
    BY <1>a, <1>b, <2>3, <2>4, <2>5, <2>7, <2>8, Numbers
<1>13. CASE Aside
  <2>1. /\ UNCHANGED <<live, fd, head, tail, wpc>> /\ open' \subseteq open
        /\ main' = main \/ main' \in Calling \cup {"prompt", "crashed"}
    BY <1>13 DEF Aside, SocketsKept
  <2>2. MainCalls' <= MainCalls
    BY <2>1, Numbers DEF MainCalls, Calling
  <2>3. HeadAtRisk' = HeadAtRisk /\ TailAtRisk' = TailAtRisk
    BY <2>1 DEF HeadAtRisk, TailAtRisk
  <2>4. QED
    BY <1>c, <2>1, <2>2, <2>3 DEF HeadShared, TailShared
<1>14. QED
  BY <1>1, <1>2, <1>3, <1>4, <1>5, <1>6, <1>7, <1>8, <1>9, <1>10, <1>11, <1>12, <1>13, AsideSteps
     DEF Next, Main, Watcher, User

(* However often the chain changes, at most two links are left behind, and *)
(* at most two sockets.                                                    *)
THEOREM LinksAreBounded == Spec => []LinksBounded
<1>1. Init => OrphanInv /\ LeakInv
  <2> SUFFICES ASSUME Init PROVE OrphanInv /\ LeakInv
    OBVIOUS
  <2>1. Orphans = {} /\ Leaked = {} /\ live = {} /\ main = "start" /\ wpc = "idle"
    BY DEF Init, Orphans, Leaked
  <2>2. Cardinality(Orphans) = 0 /\ Cardinality(Leaked) = 0
    BY <2>1, FS_EmptySet
  <2>3. MainCalls = 2 /\ HeadAtRisk = 0 /\ TailAtRisk = 0
    BY <2>1 DEF MainCalls, HeadAtRisk, TailAtRisk
  <2>4. HeadLeaks = 0 /\ TailLeaks = 0
    BY <2>1, OneShared
  <2>5. QED
    BY <2>2, <2>3, <2>4 DEF OrphanInv, LeakInv
<1>2. ThreadInv /\ OrphanInv /\ LeakInv /\ [Next]_vars => OrphanInv' /\ LeakInv'
  BY BoundStep DEF ThreadInv
<1>3. ThreadInv /\ OrphanInv /\ LeakInv => LinksBounded
  <2> SUFFICES ASSUME ThreadInv, OrphanInv, LeakInv PROVE LinksBounded
    OBVIOUS
  <2>1. Shapes
    BY Parts DEF ThreadInv, TypeInv
  <2>2. Cardinality(Orphans) \in Nat /\ Cardinality(Leaked) \in Nat
    BY <2>1, OrphansFinite, LeakedFinite
  <2>3. Cardinality(Orphans) <= 2 /\ Cardinality(Leaked) <= 2
    BY <2>2, Numbers DEF OrphanInv, LeakInv
  <2>4. QED
    BY <2>3 DEF LinksBounded, Orphans, Leaked
<1>4. QED
  BY <1>1, <1>2, <1>3, ThreadInvariant, PTL DEF Spec
=============================================================================
