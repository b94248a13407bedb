------------------------- MODULE ConnectionsProofs -------------------------
(***************************************************************************)
(* Proofs about Connections, for any number of connections and any limit.  *)
(***************************************************************************)
EXTENDS Connections, FiniteSetTheorems, TLAPS

(* The connections that the server has taken in its life.                  *)
Taken == In(Handling \cup {"returned", "closed"})

(* The connections whose client connected_clients should count.            *)
Served == In(Handling \cup {"returned"})
-----------------------------------------------------------------------------
LEMMA Nought == 0 \in 0 .. MaxThreads /\ 0 % 2 = 0 /\ -1 \in Int
BY ConnectionsAssumption

LEMMA TypeInit == Init => TypeOK
<1> SUFFICES ASSUME Init PROVE TypeOK
  OBVIOUS
<1> USE DEF Init, Main, Thread
<1>1. client \in [Conn -> {"away"}] /\ pc \in [Conn -> {"none"}]
  OBVIOUS
<1>2. read \in [Thread -> Int] /\ \A c \in Conn : read[c] = -1
  BY Nought
<1>3. open \in [Conn -> BOOLEAN] /\ sent \in [Conn -> 0 .. MaxRequests]
  BY ConnectionsAssumption
<1>4. interrupted = {} /\ entering = {} /\ process = "running" /\ thread_count = 0
  OBVIOUS
<1>5. shown = 0 /\ crossed = FALSE /\ hung = FALSE
  OBVIOUS
<1> HIDE DEF Init, Thread, Main
<1>6. interrupted \in AtMostOne(Thread \cup {Watcher}) /\ entering \in AtMostOne(Conn)
  BY <1>4 DEF AtMostOne
<1>7. process = "running" /\ process \notin Ending
  BY <1>4 DEF Ending
<1>8. /\ client \in [Conn -> {"away", "connecting", "connected", "waiting", "refused", "left", "gone"}]
      /\ pc \in [Conn -> {"none", "refused", "returned", "closed"} \cup Handling]
  BY <1>1
<1>9. thread_count \in 0 .. MaxThreads /\ thread_count % 2 = 0 /\ entering = {}
  BY <1>4, Nought
<1>10. shown \in Int
  BY <1>5
<1>11. crossed \in BOOLEAN /\ hung \in BOOLEAN /\ (hung => process \in Ending)
  BY <1>5, Zenon
<1>12. process \in {"running", "dead"} \cup Ending /\ (interrupted # {} <=> process \in Ending)
  BY <1>4, <1>7
<1>13. entering # {} => thread_count + 1 < MaxThreads
  BY <1>9
<1>14. \A c \in Conn : pc[c] # "counting" => read[c] = -1
  BY <1>2
<1>15. QED
  BY <1>2, <1>3, <1>6, <1>8, <1>9, <1>10, <1>12, <1>13, <1>14, <1>11, ZenonT(60) DEF TypeOK

(* Every step keeps the types.  The limit is even and so is thread_count:  *)
(* a connection that finds a place finds two.                              *)
LEMMA TypeStep == TypeOK /\ [Next]_vars => TypeOK'
<1> SUFFICES ASSUME TypeOK, [Next]_vars PROVE TypeOK'
  OBVIOUS
<1> USE ConnectionsAssumption DEF TypeOK, Thread, Main, Ending, Handling, AtMostOne, counting, life
<1>1. ASSUME NEW c \in Conn, Accept(c) PROVE TypeOK'
  <2>1. thread_count + 1 < MaxThreads
    BY <1>1 DEF Accept
  <2>2. QED
    BY <1>1, <2>1 DEF Accept, ReadShown
<1>2. ASSUME NEW c \in Conn, Refuse(c) PROVE TypeOK'
  BY <1>2 DEF Refuse
<1>3. ASSUME NEW c \in Conn, CountIn(c) PROVE TypeOK'
  BY <1>3 DEF CountIn, WriteShown
<1>4. ASSUME NEW c \in Conn, Record(c) PROVE TypeOK'
  <2>1. thread_count + 2 \in 0 .. MaxThreads /\ (thread_count + 2) % 2 = 0
    BY <1>4 DEF Record
  <2>2. QED
    BY <1>4, <2>1 DEF Record
<1>5. ASSUME Dies PROVE TypeOK'
  <2>1. client' \in [Conn -> {"away", "connecting", "connected", "waiting", "refused", "left", "gone"}]
    BY <1>5 DEF Dies
  <2>2. read' \in [Thread -> Int] /\ \A c \in Conn : read'[c] = -1
    BY <1>5, Nought DEF Dies
  <2>3. pc' \in [Conn -> {"none"}] /\ open' \in [Conn -> BOOLEAN]
    BY <1>5 DEF Dies
  <2>4. interrupted' = {} /\ entering' = {} /\ process' = "dead"
    BY <1>5 DEF Dies
  <2>5. thread_count' = 0 /\ shown' = 0 /\ crossed' = FALSE /\ hung' = FALSE /\ sent' = sent
    BY <1>5 DEF Dies
  <2>6. interrupted' \in AtMostOne(Thread \cup {Watcher}) /\ entering' \in AtMostOne(Conn)
    BY <2>4
  <2>7. pc' \in [Conn -> {"none", "refused", "returned", "closed"} \cup Handling]
    BY <2>3
  <2>8. process' = "dead" /\ process' \notin Ending
    BY <2>4
  <2> HIDE DEF Thread, Main, Ending, Handling, AtMostOne
  <2>9. thread_count' \in 0 .. MaxThreads /\ thread_count' % 2 = 0 /\ entering' = {}
    BY <2>4, <2>5, Nought
  <2>10. crossed' \in BOOLEAN /\ hung' \in BOOLEAN /\ (hung' => process' \in Ending)
    BY <2>5, Zenon
  <2>11. shown' \in Int /\ sent' \in [Conn -> 0 .. MaxRequests]
    BY <2>5
  <2>12. process' \in {"running", "dead"} \cup Ending /\ (interrupted' # {} <=> process' \in Ending)
    BY <2>4, <2>8
  <2>13. entering' # {} => thread_count' + 1 < MaxThreads
    BY <2>4
  <2>14. \A c \in Conn : pc'[c] # "counting" => read'[c] = -1
    BY <2>2
  <2>15. QED
    BY <2>1, <2>2, <2>3, <2>6, <2>7, <2>9, <2>10, <2>11, <2>12, <2>13, <2>14, ZenonT(60)
<1>6. CASE End
  BY <1>5, <1>6 DEF End
<1>7. ASSUME Hang \/ \E t \in Thread \cup {Watcher} : Interrupt(t) PROVE TypeOK'
  BY <1>7 DEF Hang, Interrupt, Watcher
<1>8. ASSUME NEW c \in Conn, Receive(c) \/ Invoke(c) \/ Send(c) PROVE TypeOK'
  BY <1>8 DEF Receive, Invoke, Send, Step
<1>9. ASSUME NEW c \in Conn, ReceiveEnd(c) PROVE TypeOK'
  BY <1>9 DEF ReceiveEnd, ReadShown, Step
<1>10. ASSUME NEW c \in Conn, SendInVain(c) PROVE TypeOK'
  BY <1>5, <1>10 DEF SendInVain, Step
<1>11. ASSUME NEW c \in Conn, CountOut(c) PROVE TypeOK'
  BY <1>11 DEF CountOut, WriteShown, Step
<1>12. ASSUME NEW c \in Conn, UseDestroyed(c) PROVE TypeOK'
  BY <1>5, <1>12 DEF UseDestroyed
<1>13. ASSUME NEW c \in Conn, Connect(c) \/ Ask(c) \/ Leave(c) PROVE TypeOK'
  BY <1>13 DEF Connect, Ask, Leave
<1>14. CASE UNCHANGED vars
  BY <1>14 DEF vars, life
<1>15. QED
  BY <1>1, <1>2, <1>3, <1>4, <1>6, <1>7, <1>8, <1>9, <1>10, <1>11, <1>12, <1>13, <1>14
     DEF Next, MainLoop, Handle

(* The types of the variables: no thread_array or client_array is overrun. *)
THEOREM TypeCorrect == Spec => []TypeOK
BY TypeInit, TypeStep, PTL DEF Spec
-----------------------------------------------------------------------------
(* Every step but those named below leaves each connection in its place.   *)
LEMMA SocketStep == TypeOK /\ SocketsOwned /\ [Next]_vars => SocketsOwned'
<1> SUFFICES ASSUME TypeOK, SocketsOwned, [Next]_vars PROVE SocketsOwned'
  OBVIOUS
<1> USE DEF TypeOK, SocketsOwned, Ending, Handling, AtMostOne, counting, life
<1>1. ASSUME NEW c \in Conn, Accept(c) PROVE SocketsOwned'
  BY <1>1 DEF Accept, ReadShown
<1>2. ASSUME NEW c \in Conn, Refuse(c) PROVE SocketsOwned'
  BY <1>2 DEF Refuse
<1>3. ASSUME NEW c \in Conn, CountIn(c) PROVE SocketsOwned'
  BY <1>3 DEF CountIn, WriteShown
<1>4. ASSUME NEW c \in Conn, Record(c) PROVE SocketsOwned'
  BY <1>4 DEF Record
<1>5. ASSUME Dies PROVE SocketsOwned'
  BY <1>5 DEF Dies
<1>6. CASE End
  BY <1>5, <1>6 DEF End
<1>7. ASSUME Hang \/ \E t \in Thread \cup {Watcher} : Interrupt(t) PROVE SocketsOwned'
  BY <1>7 DEF Hang, Interrupt
<1>8. ASSUME NEW c \in Conn, Receive(c) \/ Invoke(c) \/ Send(c) PROVE SocketsOwned'
  BY <1>8 DEF Receive, Invoke, Send, Step
<1>9. ASSUME NEW c \in Conn, ReceiveEnd(c) PROVE SocketsOwned'
  BY <1>9 DEF ReceiveEnd, Step
<1>10. ASSUME NEW c \in Conn, SendInVain(c) PROVE SocketsOwned'
  BY <1>5, <1>10 DEF SendInVain, Step
<1>11. ASSUME NEW c \in Conn, CountOut(c) PROVE SocketsOwned'
  BY <1>11 DEF CountOut, Step
<1>12. ASSUME NEW c \in Conn, UseDestroyed(c) PROVE SocketsOwned'
  BY <1>5, <1>12 DEF UseDestroyed
<1>13. ASSUME NEW c \in Conn, Connect(c) \/ Ask(c) \/ Leave(c) PROVE SocketsOwned'
  BY <1>13 DEF Connect, Ask, Leave
<1>14. CASE UNCHANGED vars
  BY <1>14 DEF vars, life
<1>15. QED
  BY <1>1, <1>2, <1>3, <1>4, <1>6, <1>7, <1>8, <1>9, <1>10, <1>11, <1>12, <1>13, <1>14
     DEF Next, MainLoop, Handle

(* An open socket of the server has a connection to serve, or a handler    *)
(* that returned from the middle of its loop.                              *)
THEOREM SocketsAreOwned == Spec => []SocketsOwned
<1>1. Init => SocketsOwned
  BY DEF Init, SocketsOwned, Handling
<1>2. QED
  BY <1>1, SocketStep, TypeCorrect, PTL DEF Spec
-----------------------------------------------------------------------------
LEMMA InFinite == ASSUME NEW stages PROVE IsFiniteSet(In(stages))
BY ConnectionsAssumption, FS_Subset DEF In

(* The counter follows the connections that are served, step by step, as   *)
(* long as no thread changes it between another's read and write.          *)
LEMMA CountStep == TypeOK /\ ClientsCounted /\ [Next]_vars => ClientsCounted'
<1> SUFFICES ASSUME TypeOK, ClientsCounted, [Next]_vars PROVE ClientsCounted'
  OBVIOUS
<1> USE DEF TypeOK, Served, ClientsCounted
<1>1. ASSUME Served' = Served, shown' = shown, crossed' = crossed PROVE ClientsCounted'
  BY <1>1
<1>2. ASSUME NEW c \in Conn, CountIn(c), ~crossed' PROVE shown' = Cardinality(Served')
  <2>1. ~crossed /\ shown' = shown + 1
    BY <1>2 DEF CountIn, WriteShown
  <2>2. c \notin Served /\ Served' = Served \cup {c}
    BY <1>2 DEF CountIn, In, Handling
  <2>3. Cardinality(Served') = Cardinality(Served) + 1
    BY <2>2, InFinite, FS_AddElement
  <2>4. QED
    BY <2>1, <2>3
<1>3. ASSUME NEW c \in Conn, CountOut(c), ~crossed' PROVE shown' = Cardinality(Served')
  <2>1. ~crossed /\ shown' = shown - 1
    BY <1>3 DEF CountOut, WriteShown
  <2>2. c \in Served /\ Served' = Served \ {c}
    BY <1>3 DEF CountOut, Step, In, Handling
  <2>3. Cardinality(Served') = Cardinality(Served) - 1
    BY <2>2, InFinite, FS_RemoveElement
  <2>4. QED
    BY <2>1, <2>3
<1>4. ASSUME Dies PROVE ClientsCounted'
  <2>1. Served' = {} /\ shown' = 0
    BY <1>4 DEF Dies, In, Handling
  <2>2. QED
    BY <2>1, FS_EmptySet
<1>5. ASSUME NEW c \in Conn, Accept(c) \/ Refuse(c) \/ Record(c) PROVE ClientsCounted'
  <2>1. Served' = Served
    BY <1>5 DEF Accept, Refuse, Record, In, Handling
  <2>2. QED
    BY <1>1, <1>5, <2>1 DEF Accept, Refuse, Record, ReadShown, counting, life
<1>6. ASSUME NEW c \in Conn, Receive(c) \/ Invoke(c) \/ Send(c) PROVE ClientsCounted'
  <2>1. Served' = Served
    BY <1>6 DEF Receive, Invoke, Send, Step, In, Handling
  <2>2. QED
    BY <1>1, <1>6, <2>1 DEF Receive, Invoke, Send, counting, life
<1>7. ASSUME NEW c \in Conn, ReceiveEnd(c) PROVE ClientsCounted'
  <2>1. Served' = Served
    BY <1>7 DEF ReceiveEnd, Step, In, Handling
  <2>2. QED
    BY <1>1, <1>7, <2>1 DEF ReceiveEnd, ReadShown
<1>8. ASSUME NEW c \in Conn, SendInVain(c) PROVE ClientsCounted'
  <2>1. CASE Dies
    BY <1>4, <2>1
  <2>2. CASE ~Dies
    <3>1. Served' = Served /\ UNCHANGED counting
      BY <1>8, <2>2 DEF SendInVain, Step, In, Handling
    <3>2. QED
      BY <1>1, <3>1 DEF counting, life
  <2>3. QED
    BY <2>1, <2>2
<1>9. CASE End
  <2>1. CASE Dies
    BY <1>4, <2>1
  <2>2. CASE UNCHANGED <<counting, pc>>
    BY <1>1, <2>2 DEF counting, life, In
  <2>3. QED
    BY <1>9, <2>1, <2>2 DEF End
<1>10. CASE UNCHANGED <<counting, pc>>
  BY <1>1, <1>10 DEF counting, life, In
<1>11. ASSUME Hang \/ \E t \in Thread \cup {Watcher} : Interrupt(t) PROVE ClientsCounted'
  BY <1>10, <1>11 DEF Hang, Interrupt
<1>12. ASSUME NEW c \in Conn, Connect(c) \/ Ask(c) \/ Leave(c) PROVE ClientsCounted'
  BY <1>10, <1>12 DEF Connect, Ask, Leave
<1>13. ASSUME NEW c \in Conn, UseDestroyed(c) PROVE ClientsCounted'
  BY <1>4, <1>13 DEF UseDestroyed
<1>14. CASE UNCHANGED vars
  BY <1>10, <1>14 DEF vars, life
<1>15. QED
  BY <1>2, <1>3, <1>5, <1>6, <1>7, <1>8, <1>9, <1>11, <1>12, <1>13, <1>14
     DEF Next, MainLoop, Handle

(* As long as no two updates cross, connected_clients is the number of     *)
(* connections that are served.                                            *)
THEOREM ClientsAreCounted == Spec => []ClientsCounted
<1>1. Init => ClientsCounted
  <2> SUFFICES ASSUME Init PROVE ClientsCounted
    OBVIOUS
  <2>1. Served = {} /\ shown = 0
    BY DEF Init, Served, In, Handling
  <2>2. QED
    BY <2>1, FS_EmptySet DEF ClientsCounted, Served
<1>2. QED
  BY <1>1, CountStep, TypeCorrect, PTL DEF Spec
-----------------------------------------------------------------------------
(* The main thread has started the handler of a connection and not yet     *)
(* recorded it.                                                            *)
Started == \E c \in entering : pc[c] # "none"

(* Each connection that was taken has two places, the one that is being    *)
(* recorded excepted.                                                      *)
TwoPlaces == 2 * Cardinality(Taken) = thread_count + (IF Started THEN 2 ELSE 0)

(* A step that neither starts nor records a connection.                    *)
LEMMA PlacesKept ==
  ASSUME TwoPlaces, thread_count' = thread_count, entering' = entering, Taken' = Taken,
         \A c \in entering : pc'[c] = "none" <=> pc[c] = "none"
  PROVE  TwoPlaces'
BY DEF TwoPlaces, Started

LEMMA PlacesStep == TypeOK /\ TwoPlaces /\ [Next]_vars => TwoPlaces'
<1> SUFFICES ASSUME TypeOK, TwoPlaces, [Next]_vars PROVE TwoPlaces'
  OBVIOUS
<1> USE DEF TypeOK, AtMostOne
<1>1. ASSUME NEW c \in Conn, Accept(c) PROVE TwoPlaces'
  <2>1. Taken' = Taken /\ ~Started /\ ~Started' /\ thread_count' = thread_count
    BY <1>1 DEF Accept, Taken, In, Started
  <2>2. QED
    BY <2>1 DEF TwoPlaces
<1>2. ASSUME NEW c \in Conn, Refuse(c) PROVE TwoPlaces'
  <2>1. Taken' = Taken
    BY <1>2 DEF Refuse, Taken, In, Handling
  <2>2. QED
    BY <1>2, <2>1, PlacesKept DEF Refuse
<1>3. ASSUME NEW c \in Conn, CountIn(c) PROVE TwoPlaces'
  <2>1. ~Started /\ Started' /\ thread_count' = thread_count
    BY <1>3 DEF CountIn, Started
  <2>2. c \notin Taken /\ Taken' = Taken \cup {c}
    BY <1>3 DEF CountIn, Taken, In, Handling
  <2>3. Cardinality(Taken') = Cardinality(Taken) + 1
    BY <2>2, InFinite, FS_AddElement DEF Taken
  <2>4. Cardinality(Taken) \in Nat
    BY InFinite, FS_CardinalityType DEF Taken
  <2>5. QED
    BY <2>1, <2>3, <2>4 DEF TwoPlaces
<1>4. ASSUME NEW c \in Conn, Record(c) PROVE TwoPlaces'
  <2>1. Started /\ ~Started' /\ thread_count' = thread_count + 2 /\ Taken' = Taken
    BY <1>4 DEF Record, Started, Taken, In
  <2>2. QED
    BY <2>1 DEF TwoPlaces
<1>5. ASSUME Dies PROVE TwoPlaces'
  <2>1. Taken' = {} /\ ~Started' /\ thread_count' = 0
    BY <1>5 DEF Dies, Taken, In, Handling, Started
  <2>2. QED
    BY <2>1, FS_EmptySet DEF TwoPlaces
<1>6. CASE UNCHANGED <<thread_count, entering, pc>>
  BY <1>6, PlacesKept DEF Taken, In
<1>7. CASE End
  BY <1>5, <1>6, <1>7 DEF End
<1>8. ASSUME Hang \/ \E t \in Thread \cup {Watcher} : Interrupt(t) PROVE TwoPlaces'
  BY <1>6, <1>8 DEF Hang, Interrupt
<1>9. ASSUME NEW c \in Conn, Receive(c) \/ ReceiveEnd(c) \/ Invoke(c) \/ Send(c) PROVE TwoPlaces'
  <2>1. Taken' = Taken /\ \A d \in Conn : pc'[d] = "none" <=> pc[d] = "none"
    BY <1>9 DEF Receive, ReceiveEnd, Invoke, Send, Step, Taken, In, Handling
  <2>2. thread_count' = thread_count /\ entering' = entering
    BY <1>9 DEF Receive, ReceiveEnd, Invoke, Send
  <2>3. QED
    BY <2>1, <2>2, PlacesKept
<1>10. ASSUME NEW c \in Conn, SendInVain(c) PROVE TwoPlaces'
  <2>1. CASE Dies
    BY <1>5, <2>1
  <2>2. CASE ~Dies
    <3>1. Taken' = Taken /\ \A d \in Conn : pc'[d] = "none" <=> pc[d] = "none"
      BY <1>10, <2>2 DEF SendInVain, Step, Taken, In, Handling
    <3>2. thread_count' = thread_count /\ entering' = entering
      BY <1>10, <2>2 DEF SendInVain
    <3>3. QED
      BY <3>1, <3>2, PlacesKept
  <2>3. QED
    BY <2>1, <2>2
<1>11. ASSUME NEW c \in Conn, CountOut(c) PROVE TwoPlaces'
  <2>1. Taken' = Taken /\ \A d \in Conn : pc'[d] = "none" <=> pc[d] = "none"
    BY <1>11 DEF CountOut, Step, Taken, In, Handling
  <2>2. QED
    BY <1>11, <2>1, PlacesKept DEF CountOut
<1>12. ASSUME NEW c \in Conn, Connect(c) \/ Ask(c) \/ Leave(c) PROVE TwoPlaces'
  BY <1>6, <1>12 DEF Connect, Ask, Leave
<1>13. ASSUME NEW c \in Conn, UseDestroyed(c) PROVE TwoPlaces'
  BY <1>5, <1>13 DEF UseDestroyed
<1>14. CASE UNCHANGED vars
  BY <1>6, <1>14 DEF vars, life
<1>15. QED
  BY <1>1, <1>2, <1>3, <1>4, <1>7, <1>8, <1>9, <1>10, <1>11, <1>12, <1>13, <1>14
     DEF Next, MainLoop, Handle

(* Only network_main_loop() refuses, and then both arrays are full.        *)
LEMMA RefusalStep ==
  ASSUME TypeOK, TwoPlaces, [Next]_vars, NEW c \in Conn, pc[c] # "refused", pc'[c] = "refused"
  PROVE  2 * Cardinality(Taken) = MaxThreads
<1> USE DEF TypeOK
<1>1. PICK d \in Conn : Refuse(d)
  <2>1. CASE UNCHANGED vars
    BY <2>1 DEF vars, life
  <2>2. ASSUME Dies PROVE FALSE
    BY <2>2 DEF Dies
  <2>3. ASSUME NEW d \in Conn, Accept(d) \/ CountIn(d) \/ Record(d) PROVE FALSE
    BY <2>3 DEF Accept, CountIn, Record
  <2>4. ASSUME NEW d \in Conn, Handle(d) \/ UseDestroyed(d) PROVE FALSE
    BY <2>2, <2>4 DEF Handle, Receive, ReceiveEnd, Invoke, Send, SendInVain, CountOut, Step, UseDestroyed
  <2>5. ASSUME NEW d \in Conn, Connect(d) \/ Ask(d) \/ Leave(d) PROVE FALSE
    BY <2>5 DEF Connect, Ask, Leave
  <2>6. ASSUME End \/ Hang \/ \E t \in Thread \cup {Watcher} : Interrupt(t) PROVE FALSE
    BY <2>2, <2>6 DEF End, Hang, Interrupt
  <2>7. QED
    BY <2>1, <2>3, <2>4, <2>5, <2>6 DEF Next, MainLoop
<1>2. thread_count = MaxThreads /\ ~Started
  BY <1>1, ConnectionsAssumption DEF Refuse, Started
<1>3. Cardinality(Taken) \in Nat
  BY InFinite, FS_CardinalityType DEF Taken
<1>4. QED
  BY <1>2, <1>3 DEF TwoPlaces

(* A server that refuses has taken MaxThreads / 2 connections in its life, *)
(* so it refuses for ever.                                                 *)
THEOREM RefusalsAreForEver == Spec => RefusalIsForEver
<1>1. Init => TwoPlaces
  <2> SUFFICES ASSUME Init PROVE TwoPlaces
    OBVIOUS
  <2>1. Taken = {} /\ ~Started /\ thread_count = 0
    BY DEF Init, Taken, In, Handling, Started
  <2>2. QED
    BY <2>1, FS_EmptySet DEF TwoPlaces
<1>2. TypeOK /\ TwoPlaces /\ [Next]_vars =>
        \A c \in Conn : pc[c] # "refused" /\ pc'[c] = "refused" =>
          2 * Cardinality(In(Handling \cup {"returned", "closed"})) = MaxThreads
  BY RefusalStep DEF Taken
<1>3. QED
  BY <1>1, <1>2, PlacesStep, TypeCorrect, PTL DEF Spec, RefusalIsForEver
=============================================================================
