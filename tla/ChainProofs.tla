---------------------------- MODULE ChainProofs ----------------------------
(***************************************************************************)
(* Proofs about Chain, for every number of servers, clients, keys and      *)
(* values: its invariants, and that it implements KVStore.                 *)
(***************************************************************************)
EXTENDS Chain, Integers, FiniteSetTheorems, TLAPS

(* The stages only a writer, or only a reader, passes through.             *)
WriterStage == {"announced", "retire"} \cup Holding
ReaderStage == {"waiting", "entering", "reading", "disturbed", "leaving"}

(* The write of s is on its way to s + 1 or further down.                  *)
Awaiting(s) == mutex[s] # None /\ pc[s][mutex[s]] = "awaiting"

-----------------------------------------------------------------------------
(* The control state: who holds which mutex, and which handlers are at     *)
(* work.  The range of writers is found in Counting below.                 *)
TypeBase ==
    /\ table \in [Server -> Table]
    /\ mutex \in [Server -> Peer \cup {None}]
    /\ writers \in [Server -> Int]
    /\ dup \in [Server -> BOOLEAN]
    /\ target \in [Server -> Server \cup {None}]
    /\ pc \in [Server -> [Peer -> Stage]]
    /\ req \in [Server -> [Peer -> Request \cup {NoRequest}]]
    /\ res \in [Server -> [Peer -> Result \cup {Garbled, NoResult}]]
    /\ sent \in [Client -> 0 .. MaxRequests]

NextFixed == next = [s \in Server |-> IF s < N THEN s + 1 ELSE None]

MutexHeld ==
    \A s \in Server, x \in Peer : pc[s][x] \in Holding <=> mutex[s] = x

(* Only clients at the two ends, and each server at its successor, have a  *)
(* handler at work.                                                        *)
Active ==
    \A s \in Server, x \in Peer : pc[s][x] # "idle" =>
        /\ req[s][x] \in Request
        /\ IF IsWrite(req[s][x]) THEN (s = 1 /\ x \in Client) \/ (s > 1 /\ x = s - 1)
                                 ELSE s = N /\ x \in Client
        /\ pc[s][x] \in WriterStage => IsWrite(req[s][x])
        /\ pc[s][x] \in ReaderStage => ~IsWrite(req[s][x])

(* A server is at work for its predecessor exactly while that one waits.   *)
Link ==
    \A s \in Server :
        /\ s < N => (pc[s + 1][s] # "idle" <=> Awaiting(s))
        /\ Awaiting(s) => /\ s < N /\ target[s] = s + 1
                          /\ req[s + 1][s] = req[s][mutex[s]]

Control == TypeBase /\ NextFixed /\ MutexHeld /\ Active /\ Link

LEMMA ConstantFacts ==
    /\ N \in Nat /\ N >= 1
    /\ Server = 1 .. N /\ Server \subseteq Peer /\ Client \subseteq Peer
    /\ None \notin Peer
    /\ \A c \in Client : c \notin Server
    /\ IsFiniteSet(Peer)
<1>1. N \in Nat /\ N >= 1
  BY ChainAssumption
<1>2. None \notin Peer /\ \A c \in Client : c \notin Server
  BY <1>1, ChainAssumption DEF Server, Peer, None
<1>3. IsFiniteSet(Server)
  BY <1>1, FS_Interval DEF Server
<1>4. IsFiniteSet(Peer)
  BY <1>3, FS_Union, ChainAssumption DEF Peer
<1>5. QED
  BY <1>1, <1>2, <1>4 DEF Server, Peer

LEMMA InitControl == Init => Control
<1> SUFFICES ASSUME Init PROVE Control
  OBVIOUS
<1> USE ConstantFacts
<1>1. TypeBase
  BY ChainAssumption DEF Init, TypeBase, Table, Stage
<1>2. NextFixed
  BY DEF Init, NextFixed
<1>3. MutexHeld
  BY DEF Init, MutexHeld, Holding
<1>4. Active
  BY DEF Init, Active
<1>5. Link
  <2>1. \A s \in Server : s < N => s + 1 \in Server
    OBVIOUS
  <2>2. QED
    BY <2>1 DEF Init, Link, Awaiting
<1>6. QED
  BY <1>1, <1>2, <1>3, <1>4, <1>5 DEF Control
LEMMA DataFacts ==
    /\ \A r \in Request, t \in Table :
          /\ Effect(r, t) \in Table
          /\ Answer(r, t) \in Result
    /\ \A r \in WriteRequest : r \in Request /\ IsWrite(r)
    /\ \A r \in ReadRequest : r \in Request /\ ~IsWrite(r)
BY DEF Request, WriteRequest, ReadRequest, Table, Effect, Answer, Result, IsWrite

LEMMA NextType == Control /\ [Next]_vars => TypeBase'
<1> SUFFICES ASSUME Control, [Next]_vars PROVE TypeBase'
  OBVIOUS
<1> USE ConstantFacts DEF Control, TypeBase, Stage, Holding, Written
<1>1. ASSUME NEW c \in Client, SendWrite(c) PROVE TypeBase'
  <2>1. PICK r \in Request : Send(c, 1, r)
    BY <1>1, DataFacts DEF SendWrite
  <2>2. QED
    BY <2>1, ChainAssumption DEF Send
<1>2. ASSUME NEW c \in Client, SendRead(c) PROVE TypeBase'
  <2>1. PICK r \in Request : Send(c, N, r)
    BY <1>2, DataFacts DEF SendRead
  <2>2. QED
    BY <2>1, ChainAssumption DEF Send
<1>3. ASSUME NEW c \in Client, ReceiveReply(c) PROVE TypeBase'
  BY <1>3 DEF ReceiveReply
<1>4. ASSUME NEW s \in Server, NEW x \in Peer, IncrementWriters(s, x) PROVE TypeBase'
  BY <1>4 DEF IncrementWriters
<1>5. ASSUME NEW s \in Server, NEW x \in Peer, Lock(s, x) PROVE TypeBase'
  BY <1>5 DEF Lock, Duplicates
<1>6. ASSUME NEW s \in Server, NEW x \in Peer, Apply(s, x) PROVE TypeBase'
  <2>1. req[s][x] \in Request
    BY <1>6 DEF Apply, Active
  <2>2. Effect(req[s][x], table[s]) \in Table /\ Answer(req[s][x], table[s]) \in Result
    BY <2>1, DataFacts
  <2>3. QED
    BY <1>6, <2>2 DEF Apply
<1>7. ASSUME NEW s \in Server, NEW x \in Peer, Forward(s, x) PROVE TypeBase'
  <2>1. next[s] \in Server
    BY <1>7 DEF Forward, NextFixed
  <2>2. pc' \in [Server -> [Peer -> Stage]]
    BY <1>7, <2>1 DEF Forward
  <2>3. req' \in [Server -> [Peer -> Request \cup {NoRequest}]]
    BY <1>7, <2>1 DEF Forward
  <2>4. QED
    BY <1>7, <2>1, <2>2, <2>3 DEF Forward
<1>8. ASSUME NEW s \in Server, NEW x \in Peer, ForwardDone(s, x) PROVE TypeBase'
  <2> DEFINE retired == [pc EXCEPT ![s][x] = "retire"]
  <2>1. retired \in [Server -> [Peer -> Stage]]
    OBVIOUS
  <2>2. pc' = [retired EXCEPT ![target[s]][s] = "idle"]
    BY <1>8 DEF ForwardDone
  <2>3. pc' \in [Server -> [Peer -> Stage]]
    <3> HIDE DEF retired
    <3>1. QED
      BY <2>1, <2>2
  <2>4. QED
    BY <1>8, <2>3 DEF ForwardDone
<1>9. ASSUME NEW s \in Server, NEW x \in Peer, UnlockTail(s, x) PROVE TypeBase'
  BY <1>9 DEF UnlockTail
<1>10. ASSUME NEW s \in Server, NEW x \in Peer, DecrementWriters(s, x) PROVE TypeBase'
  <2>1. pc' \in [Server -> [Peer -> Stage]]
    BY <1>10 DEF DecrementWriters
  <2>2. QED
    BY <1>10, <2>1 DEF DecrementWriters
<1>11. ASSUME NEW s \in Server, NEW x \in Peer, WaitWriters(s, x) PROVE TypeBase'
  BY <1>11 DEF WaitWriters
<1>12. ASSUME NEW s \in Server, NEW x \in Peer, SpuriousWake(s, x) PROVE TypeBase'
  BY <1>12 DEF SpuriousWake
<1>13. ASSUME NEW s \in Server, NEW x \in Peer, IncrementReaders(s, x) PROVE TypeBase'
  BY <1>13 DEF IncrementReaders
<1>14. ASSUME NEW s \in Server, NEW x \in Peer, Read(s, x) PROVE TypeBase'
  <2>1. req[s][x] \in Request
    BY <1>14 DEF Read, Active
  <2>2. Effect(req[s][x], table[s]) \in Table /\ Answer(req[s][x], table[s]) \in Result
    BY <2>1, DataFacts
  <2>3. QED
    BY <1>14, <2>2 DEF Read
<1>15. ASSUME NEW s \in Server, NEW x \in Peer, DecrementReaders(s, x) PROVE TypeBase'
  BY <1>15 DEF DecrementReaders
<1>16. ASSUME NEW s \in Server, NEW x \in Peer, AddTime(s, x) PROVE TypeBase'
  BY <1>16 DEF AddTime
<1>17. CASE UNCHANGED vars
  BY <1>17 DEF vars
<1>18. QED
  BY <1>1, <1>2, <1>3, <1>4, <1>5, <1>6, <1>7, <1>8, <1>9, <1>10, <1>11, <1>12, <1>13, <1>14, <1>15, <1>16, <1>17 DEF Next, Handle

(* A step inside the handlers of one server, by which no handler starts or *)
(* ends, takes or releases the mutex, or begins or stops to wait for the   *)
(* successor.                                                              *)
LocalMove(t, y) ==
    /\ pc[t][y] \notin {"idle", "awaiting"}
    /\ pc'[t][y] \notin {"idle", "awaiting"}
    /\ pc[t][y] \in Holding <=> pc'[t][y] \in Holding
    /\ pc'[t][y] \in WriterStage => IsWrite(req[t][y])
    /\ pc'[t][y] \in ReaderStage => ~IsWrite(req[t][y])

Local ==
    /\ next' = next /\ mutex' = mutex /\ target' = target /\ req' = req
    /\ \A t \in Server, y \in Peer : pc'[t][y] = pc[t][y] \/ LocalMove(t, y)

LEMMA LocalStep == Control /\ TypeBase' /\ Local => Control'
<1> SUFFICES ASSUME Control, TypeBase', Local PROVE Control'
  OBVIOUS
<1> USE ConstantFacts DEF Control
<1>1. NextFixed'
  BY DEF NextFixed, Local
<1>2. MutexHeld'
  BY DEF MutexHeld, Local, LocalMove
<1>3. Active'
  BY DEF Active, Local, LocalMove
<1>4. Link'
  <2>1. \A s \in Server : Awaiting(s)' <=> Awaiting(s)
    BY DEF Awaiting, TypeBase, Local, LocalMove
  <2>2. \A s \in Server : s < N => s + 1 \in Server
    OBVIOUS
  <2>3. \A s \in Server : s < N => (pc'[s + 1][s] = "idle" <=> pc[s + 1][s] = "idle")
    BY <2>2 DEF Local, LocalMove
  <2>4. QED
    BY <2>1, <2>2, <2>3 DEF Link, Local
<1>5. QED
  BY <1>1, <1>2, <1>3, <1>4

LEMMA NextLocal ==
    ASSUME Control, NEW s \in Server, NEW x \in Peer,
           \/ IncrementWriters(s, x)
           \/ Apply(s, x)
           \/ DecrementWriters(s, x)
           \/ WaitWriters(s, x)
           \/ SpuriousWake(s, x)
           \/ IncrementReaders(s, x)
           \/ Read(s, x)
           \/ DecrementReaders(s, x)
           \/ AddTime(s, x)
    PROVE  Local
<1> USE DEF Control, Local, LocalMove, Holding, WriterStage, ReaderStage
<1>1. CASE IncrementWriters(s, x)
  <2>1. IsWrite(req[s][x]) <=> TRUE
    BY <1>1 DEF IncrementWriters, Active
  <2>2. QED
    BY <1>1, <2>1 DEF IncrementWriters, TypeBase
<1>2. CASE Apply(s, x)
  <2>1. IsWrite(req[s][x]) <=> TRUE
    BY <1>2 DEF Apply, Active
  <2>2. QED
    BY <1>2, <2>1 DEF Apply, TypeBase, Active
<1>3. CASE DecrementWriters(s, x)
  <2>1. IsWrite(req[s][x]) <=> TRUE
    BY <1>3 DEF DecrementWriters, Active
  <2>2. QED
    BY <1>3, <2>1 DEF DecrementWriters, TypeBase, Active
<1>4. CASE WaitWriters(s, x)
  <2>1. IsWrite(req[s][x]) <=> FALSE
    BY <1>4 DEF WaitWriters, Active
  <2>2. QED
    BY <1>4, <2>1 DEF WaitWriters, TypeBase
<1>5. CASE SpuriousWake(s, x)
  <2>1. IsWrite(req[s][x]) <=> FALSE
    BY <1>5 DEF SpuriousWake, Active
  <2>2. QED
    BY <1>5, <2>1 DEF SpuriousWake, TypeBase
<1>6. CASE IncrementReaders(s, x)
  <2>1. IsWrite(req[s][x]) <=> FALSE
    BY <1>6 DEF IncrementReaders, Active
  <2>2. QED
    BY <1>6, <2>1 DEF IncrementReaders, TypeBase
<1>7. CASE Read(s, x)
  <2>1. IsWrite(req[s][x]) <=> FALSE
    BY <1>7 DEF Read, Active
  <2>2. QED
    BY <1>7, <2>1 DEF Read, TypeBase
<1>8. CASE DecrementReaders(s, x)
  <2>1. IsWrite(req[s][x]) <=> FALSE
    BY <1>8 DEF DecrementReaders, Active
  <2>2. QED
    BY <1>8, <2>1 DEF DecrementReaders, TypeBase
<1>9. CASE AddTime(s, x)
  <2>1. IsWrite(req[s][x]) <=> IsWrite(req[s][x])
    BY <1>9 DEF AddTime, Active
  <2>2. QED
    BY <1>9, <2>1 DEF AddTime, TypeBase
<1>10. QED
  BY <1>1, <1>2, <1>3, <1>4, <1>5, <1>6, <1>7, <1>8, <1>9

LEMMA NextControl == Control /\ [Next]_vars => Control'
<1> SUFFICES ASSUME Control, [Next]_vars PROVE Control'
  OBVIOUS
<1> USE ConstantFacts DEF Control
<1>1. TypeBase'
  BY NextType
<1>2. ASSUME NEW c \in Client, NEW r \in Request, Send(c, 1, r), IsWrite(r)
      PROVE  Control'
  <2>1. \A t \in Server, y \in Peer :
          /\ pc'[t][y] = IF t = 1 /\ y = c THEN "received" ELSE pc[t][y]
          /\ req'[t][y] = IF t = 1 /\ y = c THEN r ELSE req[t][y]
    BY <1>2 DEF Send, TypeBase
  <2>2. pc[1][c] = "idle"
    BY <1>2 DEF Send, Busy
  <2>3. MutexHeld'
    BY <1>2, <2>1, <2>2 DEF Send, MutexHeld, Holding
  <2>4. Active'
    <3>1. SUFFICES ASSUME NEW t \in Server, NEW y \in Peer, pc'[t][y] # "idle"
                   PROVE  Active!(t, y)'
      BY DEF Active
    <3>2. CASE t = 1 /\ y = c
      <4>1. req'[t][y] = r /\ pc'[t][y] = "received"
        BY <2>1, <3>2
      <4>2. IsWrite(req'[t][y])
        BY <1>2, <4>1
      <4>3. QED
        BY <3>2, <4>1, <4>2 DEF WriterStage, ReaderStage, Holding
    <3>3. CASE ~(t = 1 /\ y = c)
      BY <2>1, <3>1, <3>3 DEF Active
    <3>4. QED
      BY <3>2, <3>3
  <2>5. Link'
    <3>1. \A t \in Server : Awaiting(t)' <=> Awaiting(t)
      BY <1>2, <2>1, <2>2 DEF Send, Awaiting, TypeBase
    <3>2. \A t \in Server : Awaiting(t) => ~(t = 1 /\ mutex[t] = c)
      BY <2>2 DEF Awaiting
    <3>3. QED
      BY <1>2, <2>1, <3>1, <3>2 DEF Send, TypeBase, Link, Awaiting
  <2>6. QED
    BY <1>1, <1>2, <2>3, <2>4, <2>5 DEF Send, NextFixed
<1>3. ASSUME NEW c \in Client, NEW r \in Request, Send(c, N, r), ~IsWrite(r)
      PROVE  Control'
  <2>1. \A t \in Server, y \in Peer :
          /\ pc'[t][y] = IF t = N /\ y = c THEN "received" ELSE pc[t][y]
          /\ req'[t][y] = IF t = N /\ y = c THEN r ELSE req[t][y]
    BY <1>3 DEF Send, TypeBase
  <2>2. pc[N][c] = "idle"
    BY <1>3 DEF Send, Busy
  <2>3. MutexHeld'
    BY <1>3, <2>1, <2>2 DEF Send, MutexHeld, Holding
  <2>4. Active'
    BY <1>3, <2>1, <2>2 DEF Send, Active, WriterStage, ReaderStage, Holding
  <2>5. Link'
    <3>1. \A t \in Server : Awaiting(t)' <=> Awaiting(t)
      BY <1>3, <2>1, <2>2 DEF Send, Awaiting, TypeBase
    <3>2. \A t \in Server : Awaiting(t) => ~(t = N /\ mutex[t] = c)
      BY <2>2 DEF Awaiting
    <3>3. QED
      BY <1>3, <2>1, <3>1, <3>2 DEF Send, TypeBase, Link, Awaiting
  <2>6. QED
    BY <1>1, <1>3, <2>3, <2>4, <2>5 DEF Send, NextFixed
<1>4. ASSUME NEW c \in Client, ReceiveReply(c) PROVE Control'
  <2>1. PICK s \in Server : pc[s][c] = "replied" /\ pc' = [pc EXCEPT ![s][c] = "idle"]
    BY <1>4 DEF ReceiveReply
  <2>2. \A t \in Server, y \in Peer :
          pc'[t][y] = IF t = s /\ y = c THEN "idle" ELSE pc[t][y]
    BY <2>1 DEF TypeBase
  <2>3. MutexHeld'
    BY <1>4, <2>1, <2>2 DEF ReceiveReply, MutexHeld, Holding
  <2>4. Active'
    BY <1>4, <2>1, <2>2 DEF ReceiveReply, Active, WriterStage, ReaderStage, Holding
  <2>5. Link'
    <3>1. \A t \in Server : Awaiting(t)' <=> Awaiting(t)
      BY <1>4, <2>1, <2>2 DEF ReceiveReply, Awaiting, TypeBase
    <3>2. QED
      BY <1>4, <2>2, <3>1 DEF ReceiveReply, TypeBase, Link
  <2>6. QED
    BY <1>1, <1>4, <2>3, <2>4, <2>5 DEF ReceiveReply, NextFixed
<1>5. ASSUME NEW s \in Server, NEW x \in Peer, Lock(s, x) PROVE Control'
  <2>1. \A t \in Server, y \in Peer :
          pc'[t][y] = IF t = s /\ y = x THEN "locked" ELSE pc[t][y]
    BY <1>5 DEF Lock, TypeBase
  <2>2. \A t \in Server : mutex'[t] = IF t = s THEN x ELSE mutex[t]
    BY <1>5 DEF Lock, TypeBase
  <2>3. \A t \in Server : Awaiting(t)' <=> Awaiting(t)
    BY <1>5, <2>1, <2>2 DEF Lock, TypeBase, Awaiting
  <2>4. MutexHeld'
    BY <1>5, <2>1, <2>2 DEF Lock, MutexHeld, Holding
  <2>5. Active'
    BY <1>5, <2>1 DEF Lock, Active, WriterStage, ReaderStage, Holding
  <2>6. Link'
    <3>1. target' = target /\ req' = req /\ pc[s][x] = "announced" /\ mutex[s] = None
      BY <1>5 DEF Lock
    <3>2. \A t \in Server : t < N => (pc'[t + 1][t] # "idle" <=> pc[t + 1][t] # "idle")
      BY <2>1, <3>1
    <3>3. \A t \in Server : Awaiting(t) => mutex'[t] = mutex[t]
      BY <2>2, <3>1 DEF Awaiting
    <3>4. QED
      BY <2>3, <3>1, <3>2, <3>3 DEF Link
  <2>7. QED
    BY <1>1, <1>5, <2>4, <2>5, <2>6 DEF Lock, NextFixed
<1>6. ASSUME NEW s \in Server, NEW x \in Peer, Forward(s, x) PROVE Control'
  <2>1. s < N /\ next[s] = s + 1 /\ s + 1 \in Server
    BY <1>6 DEF Forward, NextFixed
  <2>2. mutex[s] = x /\ ~Awaiting(s)
    BY <1>6 DEF Forward, MutexHeld, Holding, Awaiting
  <2>3. pc[s + 1][s] = "idle" /\ IsWrite(req[s][x]) /\ req[s][x] \in Request
    BY <1>6, <2>1, <2>2 DEF Forward, Link, Active, Holding, WriterStage
  <2>4. \A t \in Server, y \in Peer :
          /\ pc'[t][y] = IF t = s /\ y = x THEN "awaiting"
                         ELSE IF t = s + 1 /\ y = s THEN "received" ELSE pc[t][y]
          /\ req'[t][y] = IF t = s + 1 /\ y = s THEN req[s][x] ELSE req[t][y]
    BY <1>6, <2>1 DEF Forward, TypeBase
  <2>5. \A t \in Server : target'[t] = IF t = s THEN s + 1 ELSE target[t]
    BY <1>6, <2>1 DEF Forward, TypeBase
  <2>6. pc[s][x] = "applied" /\ ~(x = s /\ s = s + 1) /\ s + 1 # s
    BY <1>6, <2>1 DEF Forward
  <2>7. MutexHeld'
    <3>1. \A t \in Server, y \in Peer : pc'[t][y] \in Holding <=> pc[t][y] \in Holding
      BY <2>3, <2>4, <2>6 DEF Holding
    <3>2. QED
      BY <1>6, <3>1 DEF Forward, MutexHeld
  <2>8. Active'
    <3>1. SUFFICES ASSUME NEW t \in Server, NEW y \in Peer, pc'[t][y] # "idle"
                   PROVE  Active!(t, y)'
      BY DEF Active
    <3>2. CASE t = s + 1 /\ y = s
      BY <2>1, <2>3, <2>4, <2>6, <3>2 DEF WriterStage, ReaderStage, Holding
    <3>3. CASE t = s /\ y = x
      BY <1>6, <2>1, <2>3, <2>4, <2>6, <3>3 DEF Active, WriterStage, ReaderStage, Holding
    <3>4. CASE ~(t = s + 1 /\ y = s) /\ ~(t = s /\ y = x)
      BY <2>4, <3>1, <3>4 DEF Active
    <3>5. QED
      BY <3>2, <3>3, <3>4
  <2>9. Link'
    <3>1. \A t \in Server : Awaiting(t) => t # s /\ ~(t = s + 1 /\ mutex[t] = s)
      BY <2>2, <2>3 DEF Awaiting
    <3>2. \A t \in Server : Awaiting(t)' <=> (t = s \/ Awaiting(t))
      <4>1. SUFFICES ASSUME NEW t \in Server
                     PROVE  Awaiting(t)' <=> (t = s \/ Awaiting(t))
        OBVIOUS
      <4>2. mutex'[t] = mutex[t] /\ mutex[t] \in Peer \cup {None}
        BY <1>6 DEF Forward, TypeBase
      <4>3. CASE t = s
        BY <2>2, <2>4, <4>2, <4>3 DEF Awaiting
      <4>4. CASE t # s
        <5>1. CASE mutex[t] = None
          BY <4>2, <4>4, <5>1 DEF Awaiting
        <5>2. CASE mutex[t] \in Peer
          <6>1. pc'[t][mutex[t]] = IF t = s + 1 /\ mutex[t] = s THEN "received"
                                   ELSE pc[t][mutex[t]]
            BY <2>4, <4>4, <5>2
          <6>2. QED
            BY <2>3, <4>2, <4>4, <5>2, <6>1 DEF Awaiting
        <5>3. QED
          BY <4>2, <5>1, <5>2
      <4>5. QED
        BY <4>3, <4>4
    <3>3. \A t \in Server : t < N => t + 1 \in Server /\ t + 1 # t
      OBVIOUS
    <3>4. \A t \in Server : t < N => (pc'[t + 1][t] # "idle" <=> (t = s \/ Awaiting(t)))
      <4>1. SUFFICES ASSUME NEW t \in Server, t < N
                     PROVE  pc'[t + 1][t] # "idle" <=> (t = s \/ Awaiting(t))
        OBVIOUS
      <4>2. pc[t + 1][t] # "idle" <=> Awaiting(t)
        BY <4>1 DEF Link
      <4>3. CASE t = s
        BY <2>4, <3>3, <4>1, <4>3
      <4>4. CASE t # s
        <5>1. pc'[t + 1][t] # "idle" <=> pc[t + 1][t] # "idle"
          BY <2>4, <2>6, <3>3, <4>1, <4>4
        <5>2. QED
          BY <4>2, <4>4, <5>1
      <4>5. QED
        BY <4>3, <4>4
    <3>5. \A t \in Server : Awaiting(t) /\ t < N =>
             req'[t + 1][t] = req[t + 1][t] /\ req'[t][mutex[t]] = req[t][mutex[t]]
      <4>1. SUFFICES ASSUME NEW t \in Server, Awaiting(t), t < N
                     PROVE  /\ req'[t + 1][t] = req[t + 1][t]
                            /\ req'[t][mutex[t]] = req[t][mutex[t]]
        OBVIOUS
      <4>2. mutex[t] \in Peer
        BY <4>1 DEF Awaiting, TypeBase
      <4>3. t # s /\ ~(t = s + 1 /\ mutex[t] = s)
        BY <3>1, <4>1
      <4>4. t + 1 \in Server /\ t + 1 # s + 1
        BY <3>3, <4>1, <4>3
      <4>5. QED
        BY <2>4, <4>2, <4>3, <4>4
    <3>6. req'[s + 1][s] = req[s][x] /\ req'[s][x] = req[s][x]
      BY <2>1, <2>4, <2>6
    <3>7. ASSUME NEW t \in Server, Awaiting(t)'
          PROVE  t < N /\ target'[t] = t + 1 /\ req'[t + 1][t] = req'[t][mutex'[t]]
      BY <1>6, <2>1, <2>2, <2>5, <3>2, <3>5, <3>6, <3>7 DEF Forward, Link
    <3>8. QED
      BY <3>2, <3>4, <3>7 DEF Link
  <2>10. QED
    BY <1>1, <1>6, <2>7, <2>8, <2>9 DEF Forward, NextFixed
<1>7. ASSUME NEW s \in Server, NEW x \in Peer, ForwardDone(s, x) PROVE Control'
  <2>1. mutex[s] = x /\ Awaiting(s) /\ IsWrite(req[s][x])
    BY <1>7 DEF ForwardDone, MutexHeld, Holding, Awaiting, Active, WriterStage
  <2>2. s < N /\ target[s] = s + 1 /\ s + 1 \in Server /\ s + 1 # s
    BY <2>1 DEF Link
  <2>3. pc[s][x] = "awaiting" /\ pc[s + 1][s] = "replied"
    BY <1>7, <2>2 DEF ForwardDone
  <2>4. \A t \in Server, y \in Peer :
          pc'[t][y] = IF t = s /\ y = x THEN "retire"
                      ELSE IF t = s + 1 /\ y = s THEN "idle" ELSE pc[t][y]
    BY <1>7, <2>2 DEF ForwardDone, TypeBase
  <2>5. \A t \in Server : /\ mutex'[t] = IF t = s THEN None ELSE mutex[t]
                          /\ target'[t] = IF t = s THEN None ELSE target[t]
    BY <1>7 DEF ForwardDone, TypeBase
  <2>6. \A t \in Server : Awaiting(t)' <=> t # s /\ Awaiting(t)
    <3>1. SUFFICES ASSUME NEW t \in Server
                   PROVE  Awaiting(t)' <=> t # s /\ Awaiting(t)
      OBVIOUS
    <3>2. CASE t = s
      BY <2>5, <3>2 DEF Awaiting
    <3>3. CASE t # s
      <4>1. mutex'[t] = mutex[t] /\ mutex[t] \in Peer \cup {None}
        BY <2>5, <3>3 DEF TypeBase
      <4>2. pc[s + 1][s] # "awaiting"
        BY <2>3
      <4>3. QED
        <5>1. CASE mutex[t] = None
          BY <3>3, <4>1, <5>1 DEF Awaiting
        <5>2. CASE mutex[t] \in Peer
          <6>1. pc'[t][mutex[t]] = IF t = s + 1 /\ mutex[t] = s THEN "idle"
                                   ELSE pc[t][mutex[t]]
            BY <2>4, <3>3, <5>2
          <6>2. QED
            BY <3>3, <4>1, <4>2, <5>2, <6>1 DEF Awaiting
        <5>3. QED
          BY <4>1, <5>1, <5>2
    <3>4. QED
      BY <3>2, <3>3
  <2>7. MutexHeld'
    BY <2>1, <2>3, <2>4, <2>5 DEF MutexHeld, Holding
  <2>8. Active'
    <3>1. req' = req
      BY <1>7 DEF ForwardDone
    <3>2. \A t \in Server, y \in Peer : pc'[t][y] # pc[t][y] /\ pc'[t][y] # "idle" =>
             t = s /\ y = x /\ pc'[t][y] = "retire"
      BY <2>4
    <3>3. QED
      BY <2>1, <2>3, <3>1, <3>2 DEF Active, WriterStage, ReaderStage, Holding
  <2>9. Link'
    <3>1. \A t \in Server : t < N => (pc'[t + 1][t] # "idle" <=> t # s /\ Awaiting(t))
      BY <2>2, <2>3, <2>4 DEF Link
    <3>2. QED
      BY <1>7, <2>5, <2>6, <3>1 DEF ForwardDone, Link, TypeBase
  <2>10. QED
    BY <1>1, <1>7, <2>7, <2>8, <2>9 DEF ForwardDone, NextFixed
<1>8. ASSUME NEW s \in Server, NEW x \in Peer, UnlockTail(s, x) PROVE Control'
  <2>1. mutex[s] = x /\ IsWrite(req[s][x])
    BY <1>8 DEF UnlockTail, MutexHeld, Holding, Active, WriterStage
  <2>2. \A t \in Server, y \in Peer :
          pc'[t][y] = IF t = s /\ y = x THEN "retire" ELSE pc[t][y]
    BY <1>8 DEF UnlockTail, TypeBase
  <2>3. \A t \in Server : mutex'[t] = IF t = s THEN None ELSE mutex[t]
    BY <1>8 DEF UnlockTail, TypeBase
  <2>4. \A t \in Server : Awaiting(t)' <=> Awaiting(t)
    BY <1>8, <2>1, <2>2, <2>3 DEF UnlockTail, TypeBase, Awaiting
  <2>5. QED
    BY <1>1, <1>8, <2>1, <2>2, <2>3, <2>4 DEF UnlockTail, TypeBase, NextFixed, MutexHeld, Active, Link,
       Awaiting, Holding, WriterStage, ReaderStage
<1>9. CASE UNCHANGED vars
  <2>1. /\ next' = next /\ mutex' = mutex /\ target' = target
        /\ pc' = pc /\ req' = req
    BY <1>9 DEF vars
  <2>2. NextFixed' /\ MutexHeld' /\ Active'
    BY <2>1 DEF NextFixed, MutexHeld, Active
  <2>3. Link'
    BY <2>1 DEF Link, Awaiting
  <2>4. QED
    BY <1>1, <2>2, <2>3
<1>10. QED
  BY <1>1, <1>2, <1>3, <1>4, <1>5, <1>6, <1>7, <1>8, <1>9, NextLocal, LocalStep, DataFacts
     DEF Next, Handle, SendWrite, SendRead
-----------------------------------------------------------------------------
(* The counter of writers counts the handlers that are in the writer       *)
(* branch, and is positive while a reader sleeps.                          *)
Counting ==
    /\ \A s \in Server : writers[s] = Cardinality(Writing(s))
    /\ \A s \in Server, x \in Peer : pc[s][x] = "waiting" => writers[s] > 0

LEMMA WritingFacts ==
    /\ \A s \in Server : IsFiniteSet(Writing(s)) /\ Cardinality(Writing(s)) \in Nat
    /\ \A s \in Server, y \in Peer : y \in Writing(s) <=> pc[s][y] \in WriterStage
<1>1. \A s \in Server : Writing(s) \subseteq Peer
  BY DEF Writing
<1>2. \A s \in Server : IsFiniteSet(Writing(s))
  BY <1>1, FS_Subset, ConstantFacts
<1>3. QED
  BY <1>2, FS_CardinalityType DEF Writing, WriterStage

LEMMA InitCounting == Init => Counting
<1> SUFFICES ASSUME Init PROVE Counting
  OBVIOUS
<1>1. \A s \in Server : Writing(s) = {}
  BY DEF Init, Writing, Holding
<1>2. QED
  BY <1>1, FS_EmptySet DEF Init, Counting

(* A step that leaves the counter alone, moves no handler into or out of   *)
(* the writer branch, and puts a reader to sleep only while writers remain.*)
LEMMA SameCounting ==
    ASSUME Counting, writers' = writers,
           \A t \in Server, y \in Peer :
              /\ pc'[t][y] \in WriterStage <=> pc[t][y] \in WriterStage
              /\ pc'[t][y] = "waiting" => pc[t][y] = "waiting" \/ writers[t] > 0
    PROVE  Counting'
<1>1. \A t \in Server : Writing(t)' = Writing(t)
  BY DEF Writing, WriterStage
<1>2. QED
  BY <1>1 DEF Counting

LEMMA NextCounting == Control /\ Counting /\ [Next]_vars => Counting'
<1> SUFFICES ASSUME Control, Counting, [Next]_vars PROVE Counting'
  OBVIOUS
<1>1. ASSUME NEW c \in Client, NEW r \in Request, NEW s \in Server, Send(c, s, r)
      PROVE  Counting'
  <2>1. pc[s][c] = "idle"
    BY <1>1 DEF Send, Busy
  <2>2. QED
    BY <1>1, <2>1, SameCounting, ConstantFacts DEF Send, Control, TypeBase, WriterStage, Holding
<1>2. ASSUME NEW c \in Client, ReceiveReply(c) PROVE Counting'
  BY <1>2, SameCounting, ConstantFacts DEF ReceiveReply, Control, TypeBase, WriterStage, Holding
<1>3. ASSUME NEW s \in Server, NEW x \in Peer, IncrementWriters(s, x) PROVE Counting'
  <2>1. \A t \in Server, y \in Peer :
          pc'[t][y] = IF t = s /\ y = x THEN "announced" ELSE pc[t][y]
    BY <1>3 DEF IncrementWriters, Control, TypeBase
  <2>2. \A t \in Server : writers'[t] = IF t = s THEN writers[t] + 1 ELSE writers[t]
    BY <1>3 DEF IncrementWriters, Control, TypeBase
  <2>3. x \notin Writing(s)
    BY <1>3 DEF IncrementWriters, Writing, Holding
  <2>4. Writing(s)' = Writing(s) \cup {x}
    BY <2>1 DEF Writing, Holding
  <2>5. Cardinality(Writing(s)') = Cardinality(Writing(s)) + 1
    BY <2>3, <2>4, WritingFacts, FS_AddElement
  <2>6. \A t \in Server : t # s => Writing(t)' = Writing(t)
    BY <2>1 DEF Writing
  <2>7. \A t \in Server : writers'[t] = Cardinality(Writing(t))'
    BY <2>2, <2>5, <2>6 DEF Counting
  <2>8. \A t \in Server, y \in Peer : pc'[t][y] = "waiting" => writers'[t] > 0
    <3>1. \A t \in Server, y \in Peer : pc'[t][y] = "waiting" => pc[t][y] = "waiting"
      BY <2>1
    <3>2. \A t \in Server : writers[t] \in Int
      BY DEF Control, TypeBase
    <3>3. \A t \in Server : writers[t] > 0 => writers'[t] > 0
      BY <2>2, <3>2
    <3>4. QED
      BY <3>1, <3>3 DEF Counting
  <2>9. QED
    BY <2>7, <2>8 DEF Counting
<1>4. ASSUME NEW s \in Server, NEW x \in Peer, DecrementWriters(s, x) PROVE Counting'
  <2>1. \A t \in Server, y \in Peer :
          pc'[t][y] = IF t = s /\ y = x THEN "timing"
                      ELSE IF t = s /\ pc[t][y] = "waiting" /\ writers[s] = 1 THEN "received"
                      ELSE pc[t][y]
    BY <1>4 DEF DecrementWriters, Control, TypeBase
  <2>2. \A t \in Server : writers'[t] = IF t = s THEN writers[t] - 1 ELSE writers[t]
    BY <1>4 DEF DecrementWriters, Control, TypeBase
  <2>3. x \in Writing(s)
    BY <1>4 DEF DecrementWriters, Writing
  <2>4. Writing(s)' = Writing(s) \ {x}
    BY <2>1 DEF Writing, Holding
  <2>5. Cardinality(Writing(s)') = Cardinality(Writing(s)) - 1
    BY <2>3, <2>4, WritingFacts, FS_RemoveElement
  <2>6. \A t \in Server : t # s => Writing(t)' = Writing(t)
    BY <2>1 DEF Writing
  <2>7. \A t \in Server : writers'[t] = Cardinality(Writing(t))'
    BY <2>2, <2>5, <2>6 DEF Counting
  <2>8. Cardinality(Writing(s)) # 0
    BY <2>3, WritingFacts, FS_EmptySet
  <2>9. writers[s] \in Nat \ {0}
    BY <2>8, WritingFacts DEF Counting
  <2>10. \A t \in Server, y \in Peer : pc'[t][y] = "waiting" => writers'[t] > 0
    <3>1. SUFFICES ASSUME NEW t \in Server, NEW y \in Peer, pc'[t][y] = "waiting"
                   PROVE  writers'[t] > 0
      OBVIOUS
    <3>2. pc[t][y] = "waiting" /\ ~(t = s /\ writers[s] = 1)
      BY <2>1, <3>1
    <3>3. writers[t] > 0
      BY <3>2 DEF Counting
    <3>4. QED
      BY <2>2, <2>9, <3>2, <3>3
  <2>11. QED
    BY <2>7, <2>10 DEF Counting
<1>5. ASSUME NEW s \in Server, NEW x \in Peer, Forward(s, x) PROVE Counting'
  <2>1. next[s] = s + 1 /\ s + 1 \in Server /\ s + 1 # s
    BY <1>5, ConstantFacts DEF Forward, Control, NextFixed
  <2>2. mutex[s] = x /\ ~Awaiting(s)
    BY <1>5 DEF Forward, Control, MutexHeld, Holding, Awaiting
  <2>3. pc[s + 1][s] = "idle"
    BY <2>1, <2>2, ConstantFacts DEF Control, Link
  <2>4. QED
    BY <1>5, <2>1, <2>3, SameCounting, ConstantFacts
       DEF Forward, Control, TypeBase, WriterStage, Holding
<1>6. ASSUME NEW s \in Server, NEW x \in Peer, ForwardDone(s, x) PROVE Counting'
  <2>1. mutex[s] = x /\ Awaiting(s)
    BY <1>6, ConstantFacts DEF ForwardDone, Control, MutexHeld, Holding, Awaiting
  <2>2. target[s] = s + 1 /\ s + 1 \in Server /\ s + 1 # s
    BY <2>1, ConstantFacts DEF Control, Link
  <2>3. QED
    BY <1>6, <2>2, SameCounting, ConstantFacts
       DEF ForwardDone, Control, TypeBase, WriterStage, Holding
<1>7. ASSUME NEW s \in Server, NEW x \in Peer, Lock(s, x) PROVE Counting'
  BY <1>7, SameCounting DEF Lock, Control, TypeBase, WriterStage, Holding
<1>8. ASSUME NEW s \in Server, NEW x \in Peer, Apply(s, x) PROVE Counting'
  BY <1>8, SameCounting DEF Apply, Control, TypeBase, WriterStage, Holding
<1>9. ASSUME NEW s \in Server, NEW x \in Peer, UnlockTail(s, x) PROVE Counting'
  BY <1>9, SameCounting DEF UnlockTail, Control, TypeBase, WriterStage, Holding
<1>10. ASSUME NEW s \in Server, NEW x \in Peer, WaitWriters(s, x) PROVE Counting'
  BY <1>10, SameCounting DEF WaitWriters, Control, TypeBase, WriterStage, Holding
<1>11. ASSUME NEW s \in Server, NEW x \in Peer, SpuriousWake(s, x) PROVE Counting'
  BY <1>11, SameCounting DEF SpuriousWake, Control, TypeBase, WriterStage, Holding
<1>12. ASSUME NEW s \in Server, NEW x \in Peer, IncrementReaders(s, x) PROVE Counting'
  BY <1>12, SameCounting DEF IncrementReaders, Control, TypeBase, WriterStage, Holding
<1>13. ASSUME NEW s \in Server, NEW x \in Peer, Read(s, x) PROVE Counting'
  BY <1>13, SameCounting DEF Read, Control, TypeBase, WriterStage, Holding
<1>14. ASSUME NEW s \in Server, NEW x \in Peer, DecrementReaders(s, x) PROVE Counting'
  BY <1>14, SameCounting DEF DecrementReaders, Control, TypeBase, WriterStage, Holding
<1>15. ASSUME NEW s \in Server, NEW x \in Peer, AddTime(s, x) PROVE Counting'
  BY <1>15, SameCounting DEF AddTime, Control, TypeBase, WriterStage, Holding
<1>16. CASE UNCHANGED vars
  BY <1>16, SameCounting DEF vars
<1>17. QED
  BY <1>1, <1>2, <1>3, <1>4, <1>5, <1>6, <1>7, <1>8, <1>9, <1>10, <1>11, <1>12, <1>13, <1>14, <1>15, <1>16, ConstantFacts, DataFacts
     DEF Next, Handle, SendWrite, SendRead
-----------------------------------------------------------------------------
(* While a server works for its predecessor, every server before it waits  *)
(* with the same request.  (The request travels from one server to the     *)
(* next; stating the invariant for all pairs s < t spares an induction.)   *)
Descent ==
    \A s, t \in Server : s < t /\ pc[t][t - 1] # "idle" =>
        Awaiting(s) /\ req[t][t - 1] = req[s][mutex[s]]

(* s has applied the write that the head is executing: its own handler     *)
(* says so, or that of a server up to s that is done with the write.       *)
AppliedHere(s) == mutex[s] # None /\ pc[s][mutex[s]] \in {"applied", "awaiting"}

Applied(s) == AppliedHere(s) \/ \E u \in 2 .. s : pc[u][u - 1] \in Written

(* Any two tables are equal, but for the write that the first server has   *)
(* and the second has not yet applied.                                     *)
Agreement ==
    \A s, t \in Server : s < t =>
        table[s] = IF Applied(s) /\ ~Applied(t)
                     THEN Effect(req[1][mutex[1]], table[t]) ELSE table[t]

Replicas == Descent /\ Agreement

LEMMA InitReplicas == Init => Replicas
BY ConstantFacts DEF Init, Replicas, Descent, Agreement, AppliedHere, Applied, Written

LEMMA HolderFacts ==
    ASSUME Control
    PROVE  /\ \A t \in Server : t > 1 => t - 1 \in Server /\ t - 1 \in Peer
           /\ \A t \in Server : t < N => t + 1 \in Server
           /\ \A t \in Server : mutex[t] # None =>
                 /\ mutex[t] \in Peer /\ pc[t][mutex[t]] \in Holding
                 /\ t > 1 => mutex[t] = t - 1
           /\ \A t \in Server : t > 1 => (Awaiting(t) <=> pc[t][t - 1] = "awaiting")
           /\ \A t \in Server : t > 1 /\ pc[t][t - 1] = "idle" => mutex[t] = None
<1> USE ConstantFacts DEF Control
<1>1. \A t \in Server :
         /\ t > 1 => t - 1 \in Server /\ t - 1 \in Peer
         /\ t < N => t + 1 \in Server
  OBVIOUS
<1>2. \A t \in Server : mutex[t] # None =>
         mutex[t] \in Peer /\ pc[t][mutex[t]] \in Holding
  <2>1. \A t \in Server : mutex[t] # None => mutex[t] \in Peer
    BY DEF TypeBase
  <2>2. QED
    BY <2>1 DEF MutexHeld
<1>3. \A t \in Server : mutex[t] # None /\ t > 1 => mutex[t] = t - 1
  BY <1>2 DEF Active, WriterStage, Holding
<1>4. \A t \in Server : t > 1 => (Awaiting(t) <=> pc[t][t - 1] = "awaiting")
  BY <1>1, <1>3 DEF Awaiting, MutexHeld, Holding
<1>5. \A t \in Server : t > 1 /\ pc[t][t - 1] = "idle" => mutex[t] = None
  BY <1>1, <1>2, <1>3 DEF Holding
<1>6. QED
  BY <1>1, <1>2, <1>3, <1>4, <1>5

(* A handler that is not waiting is the deepest one at work.               *)
LEMMA Deepest ==
    ASSUME Control, Descent, NEW s \in Server, ~Awaiting(s)
    PROVE  \A t \in Server : s < t => pc[t][t - 1] = "idle" /\ mutex[t] = None
<1>1. \A t \in Server : s < t => pc[t][t - 1] = "idle" /\ t > 1
  BY ConstantFacts DEF Descent
<1>2. QED
  BY <1>1, HolderFacts

(* Steps that start, end, and forward no work of one server for another.   *)
LEMMA SameDescent ==
    ASSUME Control, Descent,
           \A t \in Server : t > 1 =>
              /\ pc'[t][t - 1] = "idle" <=> pc[t][t - 1] = "idle"
              /\ req'[t][t - 1] = req[t][t - 1],
           \A t \in Server : Awaiting(t) =>
              Awaiting(t)' /\ req'[t][mutex'[t]] = req[t][mutex[t]]
    PROVE  Descent'
<1>1. \A s, t \in Server : s < t => t > 1
  BY ConstantFacts
<1>2. QED
  BY <1>1 DEF Descent

LEMMA SameApplied ==
    ASSUME \A t \in Server :
              /\ AppliedHere(t)' <=> AppliedHere(t)
              /\ t > 1 => (pc'[t][t - 1] \in Written <=> pc[t][t - 1] \in Written)
    PROVE  \A t \in Server : Applied(t)' <=> Applied(t)
<1>1. \A t \in Server : \A u \in 2 .. t : u \in Server /\ u > 1
  BY ConstantFacts
<1>2. \A t \in Server : \A u \in 2 .. t :
         pc'[u][u - 1] \in Written <=> pc[u][u - 1] \in Written
  BY <1>1, ConstantFacts
<1>3. QED
  BY <1>2, ConstantFacts DEF Applied

LEMMA SameAgreement ==
    ASSUME Agreement, table' = table,
           \A t \in Server : Applied(t)' <=> Applied(t),
           \A t \in Server : Applied(t) => req'[1][mutex'[1]] = req[1][mutex[1]]
    PROVE  Agreement'
BY DEF Agreement

(* Only while the head holds its mutex is there a write to have applied.   *)
LEMMA AppliedMeansBusy ==
    ASSUME Control, Descent, NEW t \in Server, Applied(t)
    PROVE  mutex[1] # None
<1>1. CASE AppliedHere(t)
  <2>1. t > 1 => t - 1 \in Peer /\ pc[t][t - 1] # "idle"
    BY <1>1, HolderFacts DEF AppliedHere, Holding
  <2>2. t > 1 => Awaiting(1)
    BY <2>1, ConstantFacts DEF Descent
  <2>3. QED
    BY <1>1, <2>2, ConstantFacts DEF AppliedHere, Awaiting
<1>2. CASE \E u \in 2 .. t : pc[u][u - 1] \in Written
  <2>1. PICK u \in 2 .. t : pc[u][u - 1] \in Written
    BY <1>2
  <2>2. u \in Server /\ 1 \in Server /\ 1 < u /\ pc[u][u - 1] # "idle"
    BY <2>1, ConstantFacts DEF Written
  <2>3. QED
    BY <2>2 DEF Descent, Awaiting
<1>3. QED
  BY <1>1, <1>2 DEF Applied

(* A step that concerns no handler that holds a mutex, and by which no     *)
(* server starts or ends its work for another.                             *)
Aside ==
    /\ table' = table
    /\ \A t \in Server : t > 1 =>
          /\ pc'[t][t - 1] = "idle" <=> pc[t][t - 1] = "idle"
          /\ pc'[t][t - 1] \in Written <=> pc[t][t - 1] \in Written
          /\ req'[t][t - 1] = req[t][t - 1]
    /\ \A t \in Server : mutex[t] # None =>
          /\ mutex'[t] = mutex[t]
          /\ pc'[t][mutex[t]] = pc[t][mutex[t]]
          /\ req'[t][mutex[t]] = req[t][mutex[t]]
    /\ \A t \in Server : mutex[t] = None => ~AppliedHere(t)'

LEMMA AsideStep == ASSUME Control, Replicas, Aside PROVE Replicas'
<1>1. \A t \in Server : Awaiting(t) => Awaiting(t)' /\ req'[t][mutex'[t]] = req[t][mutex[t]]
  BY DEF Aside, Awaiting
<1>2. Descent'
  BY <1>1, SameDescent DEF Aside, Replicas
<1>3. \A t \in Server : AppliedHere(t)' <=> AppliedHere(t)
  BY DEF Aside, AppliedHere
<1>4. \A t \in Server : Applied(t)' <=> Applied(t)
  BY <1>3, SameApplied DEF Aside
<1>5. \A t \in Server : Applied(t) => req'[1][mutex'[1]] = req[1][mutex[1]]
  BY AppliedMeansBusy, ConstantFacts DEF Aside, Replicas
<1>6. Agreement'
  BY <1>4, <1>5, SameAgreement DEF Aside, Replicas
<1>7. QED
  BY <1>2, <1>6 DEF Replicas

LEMMA NextAside ==
    ASSUME Control, NEW s \in Server, NEW x \in Peer,
           \/ IncrementWriters(s, x) \/ Lock(s, x) \/ DecrementWriters(s, x)
           \/ WaitWriters(s, x) \/ SpuriousWake(s, x) \/ IncrementReaders(s, x)
           \/ Read(s, x) \/ DecrementReaders(s, x) \/ AddTime(s, x)
    PROVE  Aside
<1>1. ASSUME UNCHANGED <<table, mutex, req>>,
             \A t \in Server, y \in Peer : pc'[t][y] # pc[t][y] =>
                 /\ pc[t][y] \notin Holding /\ pc[t][y] # "idle" /\ pc'[t][y] # "idle"
                 /\ pc[t][y] \in Written <=> pc'[t][y] \in Written
      PROVE  Aside
  BY <1>1, HolderFacts DEF Aside, AppliedHere
<1>2. CASE IncrementWriters(s, x)
  BY <1>1, <1>2 DEF IncrementWriters, Control, TypeBase, Holding, Written
<1>3. CASE DecrementWriters(s, x)
  BY <1>1, <1>3 DEF DecrementWriters, Control, TypeBase, Holding, Written
<1>4. CASE WaitWriters(s, x)
  BY <1>1, <1>4 DEF WaitWriters, Control, TypeBase, Holding, Written
<1>5. CASE SpuriousWake(s, x)
  BY <1>1, <1>5 DEF SpuriousWake, Control, TypeBase, Holding, Written
<1>6. CASE IncrementReaders(s, x)
  BY <1>1, <1>6 DEF IncrementReaders, Control, TypeBase, Holding, Written
<1>7. CASE Read(s, x)
  BY <1>1, <1>7 DEF Read, Control, TypeBase, Holding, Written
<1>8. CASE AddTime(s, x)
  BY <1>1, <1>8 DEF AddTime, Control, TypeBase, Holding, Written
<1>9. CASE DecrementReaders(s, x)
  <2>1. \A t \in Server, y \in Peer : pc'[t][y] = IF t = s /\ y = x THEN "timing" ELSE pc[t][y]
    BY <1>9 DEF DecrementReaders, Control, TypeBase
  <2>2. x \in Client
    BY <1>9 DEF DecrementReaders, Control, Active, ReaderStage
  <2>3. \A t \in Server : t > 1 => pc'[t][t - 1] = pc[t][t - 1]
    BY <2>1, <2>2, ConstantFacts, HolderFacts
  <2>4. \A t \in Server : mutex[t] # None => pc'[t][mutex[t]] = pc[t][mutex[t]]
    BY <1>9, <2>1, HolderFacts DEF DecrementReaders, Holding
  <2>5. QED
    BY <1>9, <2>3, <2>4 DEF DecrementReaders, Aside, AppliedHere
<1>10. CASE Lock(s, x)
  <2>1. \A t \in Server, y \in Peer : pc'[t][y] = IF t = s /\ y = x THEN "locked" ELSE pc[t][y]
    BY <1>10 DEF Lock, Control, TypeBase
  <2>2. \A t \in Server : mutex'[t] = IF t = s THEN x ELSE mutex[t]
    BY <1>10 DEF Lock, Control, TypeBase
  <2>3. QED
    BY <1>10, <2>1, <2>2, HolderFacts DEF Lock, Aside, AppliedHere, Holding, Written
<1>11. QED
  BY <1>2, <1>3, <1>4, <1>5, <1>6, <1>7, <1>8, <1>9, <1>10

(* The steps of a client are none of the writers' business.                *)
LEMMA ClientAside ==
    ASSUME Control, NEW c \in Client,
           (\E s \in Server, r \in Request : Send(c, s, r)) \/ ReceiveReply(c)
    PROVE  Aside
<1> USE ConstantFacts, HolderFacts
<1>1. ASSUME NEW r \in Request, NEW s \in Server, Send(c, s, r)
      PROVE  Aside
  <2>1. \A t \in Server, y \in Peer :
          /\ pc'[t][y] = IF t = s /\ y = c THEN "received" ELSE pc[t][y]
          /\ req'[t][y] = IF t = s /\ y = c THEN r ELSE req[t][y]
    BY <1>1 DEF Send, Control, TypeBase
  <2>2. pc[s][c] = "idle" /\ mutex' = mutex /\ table' = table
    BY <1>1 DEF Send, Busy
  <2>3. \A t \in Server : t > 1 =>
           pc'[t][t - 1] = pc[t][t - 1] /\ req'[t][t - 1] = req[t][t - 1]
    BY <2>1
  <2>4. \A t \in Server : mutex[t] # None =>
           /\ pc'[t][mutex[t]] = pc[t][mutex[t]]
           /\ req'[t][mutex[t]] = req[t][mutex[t]]
    <3>1. SUFFICES ASSUME NEW t \in Server, mutex[t] # None
                   PROVE  /\ pc'[t][mutex[t]] = pc[t][mutex[t]]
                          /\ req'[t][mutex[t]] = req[t][mutex[t]]
      OBVIOUS
    <3>2. mutex[t] \in Peer /\ pc[t][mutex[t]] # "idle"
      BY <3>1 DEF Holding
    <3>3. QED
      BY <2>1, <2>2, <3>2
  <2>5. QED
    BY <2>2, <2>3, <2>4 DEF Aside, AppliedHere
<1>2. CASE ReceiveReply(c)
  <2>1. PICK s \in Server : pc[s][c] = "replied" /\ pc' = [pc EXCEPT ![s][c] = "idle"]
    BY <1>2 DEF ReceiveReply
  <2>2. \A t \in Server, y \in Peer :
          pc'[t][y] = IF t = s /\ y = c THEN "idle" ELSE pc[t][y]
    BY <2>1 DEF Control, TypeBase
  <2>3. mutex' = mutex /\ table' = table /\ req' = req
    BY <1>2 DEF ReceiveReply
  <2>4. \A t \in Server : t > 1 => pc'[t][t - 1] = pc[t][t - 1]
    BY <2>2
  <2>5. \A t \in Server : mutex[t] # None => pc'[t][mutex[t]] = pc[t][mutex[t]]
    BY <2>1, <2>2 DEF Holding
  <2>6. QED
    BY <2>3, <2>4, <2>5 DEF Aside, AppliedHere
<1>3. QED
  BY <1>1, <1>2

(* The write of x reaches the table of s: every server before s has it, and *)
(* none behind s.                                                          *)
LEMMA ApplyFacts ==
    ASSUME Control, Replicas, NEW s \in Server, NEW x \in Peer, Apply(s, x)
    PROVE  /\ mutex[s] = x /\ mutex' = mutex /\ req' = req
           /\ \A t \in Server : table'[t] = IF t = s THEN Effect(req[s][x], table[s]) ELSE table[t]
           /\ \A t \in Server, y \in Peer :
                 pc'[t][y] = IF t = s /\ y = x THEN "applied"
                             ELSE IF t = s /\ pc[t][y] = "reading" THEN "disturbed" ELSE pc[t][y]
           /\ s > 1 => x = s - 1
           /\ \A t \in Server : t < s => Awaiting(t)
           /\ req[s][x] = req[1][mutex[1]]
           /\ \A t \in Server : t > 1 => (pc'[t][t - 1] = "idle" <=> pc[t][t - 1] = "idle")
           /\ \A t \in Server : Awaiting(t)' <=> Awaiting(t)
           /\ \A t \in Server : (Applied(t) <=> t < s) /\ (Applied(t)' <=> t <= s)
<1> USE ConstantFacts, HolderFacts DEF Replicas
<1>1. mutex[s] = x /\ ~Awaiting(s) /\ ~AppliedHere(s)
  BY DEF Apply, Control, MutexHeld, Holding, Awaiting, AppliedHere
<1>2. /\ mutex' = mutex /\ req' = req
      /\ \A t \in Server : table'[t] = IF t = s THEN Effect(req[s][x], table[s]) ELSE table[t]
  BY DEF Apply, Control, TypeBase
<1>3. \A t \in Server, y \in Peer :
        pc'[t][y] = IF t = s /\ y = x THEN "applied"
                    ELSE IF t = s /\ pc[t][y] = "reading" THEN "disturbed" ELSE pc[t][y]
  BY DEF Apply, Control, TypeBase
<1>4. \A t \in Server : s < t => pc[t][t - 1] = "idle" /\ mutex[t] = None
  BY <1>1, Deepest
<1>5. s > 1 => x = s - 1 /\ pc[s][s - 1] = "locked"
  BY <1>1 DEF Apply
<1>6. \A t \in Server : t < s => Awaiting(t)
  BY <1>5 DEF Descent
<1>7. req[s][x] = req[1][mutex[1]]
  BY <1>1, <1>5 DEF Descent
<1>8. \A t \in Server : t > 1 =>
         /\ pc'[t][t - 1] = "idle" <=> pc[t][t - 1] = "idle"
         /\ pc'[t][t - 1] \in Written <=> pc[t][t - 1] \in Written
  BY <1>3, <1>5 DEF Written
<1>9. \A t \in Server : Awaiting(t)' <=> Awaiting(t)
  <2>1. SUFFICES ASSUME NEW t \in Server PROVE Awaiting(t)' <=> Awaiting(t)
    OBVIOUS
  <2>2. CASE mutex[t] = None
    BY <1>2, <2>2 DEF Awaiting
  <2>3. CASE mutex[t] # None
    <3>1. pc'[t][mutex[t]] = IF t = s THEN "applied" ELSE pc[t][mutex[t]]
      BY <1>1, <1>3, <2>3
    <3>2. QED
      BY <1>1, <1>2, <3>1 DEF Awaiting
  <2>4. QED
    BY <2>2, <2>3
<1>10. \A t \in Server : t > 1 => pc[t][t - 1] \notin Written
  BY <1>4, <1>5, <1>6 DEF Written
<1>11. \A t \in Server : \A u \in 2 .. t : u \in Server /\ u > 1
  OBVIOUS
<1>12. \A t \in Server : (Applied(t) <=> AppliedHere(t)) /\ (Applied(t)' <=> AppliedHere(t)')
  BY <1>8, <1>10, <1>11 DEF Applied
<1>13. \A t \in Server : AppliedHere(t) <=> t < s
  BY <1>1, <1>4, <1>6 DEF AppliedHere, Awaiting
<1>14. \A t \in Server : AppliedHere(t)' <=> t <= s
  <2>1. AppliedHere(s)'
    BY <1>1, <1>2, <1>3 DEF AppliedHere
  <2>2. \A t \in Server : t # s => (AppliedHere(t)' <=> AppliedHere(t))
    BY <1>2, <1>3 DEF AppliedHere
  <2>3. QED
    BY <1>13, <2>1, <2>2
<1>15. QED
  BY <1>1, <1>2, <1>3, <1>5, <1>6, <1>7, <1>8, <1>9, <1>12, <1>13, <1>14

LEMMA ForwardFacts ==
    ASSUME Control, Replicas, NEW s \in Server, NEW x \in Peer, Forward(s, x)
    PROVE  /\ s < N /\ s + 1 \in Server /\ mutex[s] = x /\ mutex' = mutex /\ table' = table
           /\ \A t \in Server, y \in Peer :
                 /\ pc'[t][y] = IF t = s /\ y = x THEN "awaiting"
                                ELSE IF t = s + 1 /\ y = s THEN "received" ELSE pc[t][y]
                 /\ req'[t][y] = IF t = s + 1 /\ y = s THEN req[s][x] ELSE req[t][y]
           /\ \A t \in Server : mutex[t] # None =>
                 /\ req'[t][mutex[t]] = req[t][mutex[t]]
                 /\ pc'[t][mutex[t]] = IF t = s THEN "awaiting" ELSE pc[t][mutex[t]]
           /\ \A t \in Server : Awaiting(t)' <=> t = s \/ Awaiting(t)
           /\ s > 1 => x = s - 1 /\ pc[s][s - 1] = "applied"
           /\ \A t \in Server : t < s => Awaiting(t) /\ req[s][x] = req[t][mutex[t]]
           /\ \A t \in Server : Applied(t)' <=> Applied(t)
<1> USE ConstantFacts, HolderFacts DEF Replicas
<1>1. next[s] = s + 1 /\ s < N /\ s + 1 \in Server /\ s + 1 > 1
  BY DEF Forward, Control, NextFixed
<1>2. mutex[s] = x /\ ~Awaiting(s) /\ AppliedHere(s)
  BY DEF Forward, Control, MutexHeld, Holding, Awaiting, AppliedHere
<1>3. pc[s + 1][s] = "idle" /\ mutex[s + 1] = None
  BY <1>1, <1>2, Deepest
<1>4. mutex' = mutex /\ table' = table
  BY DEF Forward
<1>5. \A t \in Server, y \in Peer :
        /\ pc'[t][y] = IF t = s /\ y = x THEN "awaiting"
                       ELSE IF t = s + 1 /\ y = s THEN "received" ELSE pc[t][y]
        /\ req'[t][y] = IF t = s + 1 /\ y = s THEN req[s][x] ELSE req[t][y]
  <2>1. pc \in [Server -> [Peer -> Stage]] /\ req \in [Server -> [Peer -> Request \cup {NoRequest}]]
    BY DEF Control, TypeBase
  <2>2. /\ pc' = [pc EXCEPT ![s][x] = "awaiting", ![s + 1][s] = "received"]
        /\ req' = [req EXCEPT ![s + 1][s] = req[s][x]]
    BY <1>1 DEF Forward
  <2>3. QED
    BY <1>1, <2>1, <2>2
<1>6. \A t \in Server : mutex[t] # None =>
         /\ req'[t][mutex[t]] = req[t][mutex[t]]
         /\ pc'[t][mutex[t]] = IF t = s THEN "awaiting" ELSE pc[t][mutex[t]]
  <2>1. SUFFICES ASSUME NEW t \in Server, mutex[t] # None
                 PROVE  /\ req'[t][mutex[t]] = req[t][mutex[t]]
                        /\ pc'[t][mutex[t]] = IF t = s THEN "awaiting" ELSE pc[t][mutex[t]]
    OBVIOUS
  <2>2. mutex[t] \in Peer /\ t # s + 1
    BY <1>3, <2>1
  <2>3. CASE t = s
    BY <1>1, <1>2, <1>5, <2>2, <2>3
  <2>4. CASE t # s
    BY <1>5, <2>2, <2>4
  <2>5. QED
    BY <2>3, <2>4
<1>7. \A t \in Server : Awaiting(t)' <=> t = s \/ Awaiting(t)
  BY <1>2, <1>4, <1>6 DEF Awaiting
<1>8. s > 1 => x = s - 1 /\ pc[s][s - 1] = "applied"
  BY <1>2 DEF Forward
<1>9. \A t \in Server : t < s => Awaiting(t) /\ req[s][x] = req[t][mutex[t]]
  BY <1>8 DEF Descent
<1>10. \A t \in Server : AppliedHere(t)' <=> AppliedHere(t)
  BY <1>2, <1>4, <1>6 DEF AppliedHere
<1>11. \A t \in Server : t > 1 => (pc'[t][t - 1] \in Written <=> pc[t][t - 1] \in Written)
  BY <1>3, <1>5, <1>8 DEF Written
<1>12. \A t \in Server : Applied(t)' <=> Applied(t)
  BY <1>10, <1>11, SameApplied
<1>13. QED
  BY <1>1, <1>2, <1>4, <1>5, <1>6, <1>7, <1>8, <1>9, <1>12

(* Every server has the write when the answer comes; at the head it ends.   *)
LEMMA ForwardDoneFacts ==
    ASSUME Control, Replicas, NEW s \in Server, NEW x \in Peer, ForwardDone(s, x)
    PROVE  /\ s < N /\ s + 1 \in Server /\ mutex[s] = x /\ pc[s][x] = "awaiting"
           /\ table' = table /\ req' = req
           /\ \A t \in Server : mutex'[t] = IF t = s THEN None ELSE mutex[t]
           /\ \A t \in Server, y \in Peer :
                 pc'[t][y] = IF t = s /\ y = x THEN "retire"
                             ELSE IF t = s + 1 /\ y = s THEN "idle" ELSE pc[t][y]
           /\ s > 1 => x = s - 1 /\ pc[s][s - 1] = "awaiting"
           /\ \A t \in Server : t > 1 =>
                 pc'[t][t - 1] = IF t = s THEN "retire" ELSE IF t > s THEN "idle" ELSE pc[t][t - 1]
           /\ \A t \in Server : t # s /\ mutex[t] # None =>
                 mutex'[t] = mutex[t] /\ pc'[t][mutex[t]] = pc[t][mutex[t]]
           /\ \A t \in Server : Applied(t) /\ (Applied(t)' <=> s > 1)
<1> USE ConstantFacts, HolderFacts DEF Replicas
<1>1. mutex[s] = x /\ Awaiting(s) /\ pc[s][x] = "awaiting"
  BY DEF ForwardDone, Control, MutexHeld, Holding, Awaiting
<1>2. s < N /\ target[s] = s + 1 /\ s + 1 \in Server /\ s + 1 > 1
  BY <1>1 DEF Control, Link
<1>3. pc[s + 1][s] = "replied"
  BY <1>2 DEF ForwardDone
<1>4. table' = table /\ req' = req
  BY DEF ForwardDone
<1>5. \A t \in Server : mutex'[t] = IF t = s THEN None ELSE mutex[t]
  BY DEF ForwardDone, Control, TypeBase
<1>6. \A t \in Server, y \in Peer :
        pc'[t][y] = IF t = s /\ y = x THEN "retire"
                    ELSE IF t = s + 1 /\ y = s THEN "idle" ELSE pc[t][y]
  <2>1. pc \in [Server -> [Peer -> Stage]]
    BY DEF Control, TypeBase
  <2>2. pc' = [pc EXCEPT ![s][x] = "retire", ![s + 1][s] = "idle"]
    BY <1>2 DEF ForwardDone
  <2>3. QED
    BY <1>2, <2>1, <2>2
<1>7. ~Awaiting(s + 1)
  BY <1>2, <1>3
<1>8. \A t \in Server : s + 1 < t => pc[t][t - 1] = "idle" /\ mutex[t] = None
  BY <1>2, <1>7, Deepest
<1>9. mutex[s + 1] = None
  BY <1>2, <1>3 DEF Holding
<1>10. s > 1 => x = s - 1 /\ pc[s][s - 1] = "awaiting"
  BY <1>1
<1>11. \A t \in Server : t > 1 =>
         pc'[t][t - 1] = IF t = s THEN "retire" ELSE IF t > s THEN "idle" ELSE pc[t][t - 1]
  BY <1>6, <1>8, <1>10
<1>12. \A t \in Server : t < s => mutex[t] # None /\ AppliedHere(t)
  BY <1>10 DEF Descent, Awaiting, AppliedHere
<1>13. \A t \in Server : t # s /\ mutex[t] # None =>
         mutex'[t] = mutex[t] /\ pc'[t][mutex[t]] = pc[t][mutex[t]]
  BY <1>5, <1>6, <1>9
<1>14. \A t \in Server : \A u \in 2 .. t : u \in Server /\ u > 1
  OBVIOUS
<1>15. \A t \in Server : Applied(t)
  <2>1. \A t \in Server : t <= s => AppliedHere(t)
    BY <1>1, <1>12 DEF AppliedHere, Awaiting
  <2>2. \A t \in Server : t > s => s + 1 \in 2 .. t /\ pc[s + 1][(s + 1) - 1] \in Written
    BY <1>2, <1>3 DEF Written
  <2>3. \A t \in Server : t > s => \E u \in 2 .. t : pc[u][u - 1] \in Written
    BY <2>2
  <2>4. QED
    <3>1. \A t \in Server : t <= s \/ t > s
      OBVIOUS
    <3>2. QED
      BY <2>1, <2>3, <3>1 DEF Applied
<1>16. \A t \in Server : Applied(t)' <=> s > 1
  <2>1. CASE s = 1
    <3>1. \A t \in Server : ~AppliedHere(t)'
      BY <1>5, <1>8, <1>9, <2>1 DEF AppliedHere
    <3>2. \A t \in Server : t > 1 => pc'[t][t - 1] \notin Written
      BY <1>11, <2>1 DEF Written
    <3>3. \A t \in Server : ~Applied(t)'
      BY <1>14, <3>1, <3>2 DEF Applied
    <3>4. QED
      BY <2>1, <3>3
  <2>2. CASE s > 1
    <3>1. \A t \in Server : t < s => AppliedHere(t)'
      BY <1>12, <1>13 DEF AppliedHere
    <3>2. \A t \in Server : t >= s => s \in 2 .. t /\ pc'[s][s - 1] \in Written
      BY <1>11, <2>2 DEF Written
    <3>3. \A t \in Server : Applied(t)'
      BY <3>1, <3>2 DEF Applied
    <3>4. QED
      BY <2>2, <3>3
  <2>3. QED
    BY <2>1, <2>2
<1>17. QED
  BY <1>1, <1>2, <1>4, <1>5, <1>6, <1>10, <1>11, <1>13, <1>15, <1>16

LEMMA UnlockTailFacts ==
    ASSUME Control, Replicas, NEW s \in Server, NEW x \in Peer, UnlockTail(s, x)
    PROVE  /\ s = N /\ mutex[s] = x /\ pc[s][x] = "applied" /\ table' = table /\ req' = req
           /\ \A t \in Server : mutex'[t] = IF t = s THEN None ELSE mutex[t]
           /\ \A t \in Server, y \in Peer :
                 pc'[t][y] = IF t = s /\ y = x THEN "retire" ELSE pc[t][y]
           /\ N > 1 => x = s - 1
           /\ Applied(N) /\ (N > 1 => \A t \in Server : Applied(t)' <=> Applied(t))
<1> USE ConstantFacts, HolderFacts DEF Replicas
<1>1. s = N /\ mutex[s] = x /\ pc[s][x] = "applied"
  BY DEF UnlockTail, Control, NextFixed, MutexHeld, Holding, None
<1>2. table' = table /\ req' = req
  BY DEF UnlockTail
<1>3. \A t \in Server : mutex'[t] = IF t = s THEN None ELSE mutex[t]
  BY DEF UnlockTail, Control, TypeBase
<1>4. \A t \in Server, y \in Peer :
        pc'[t][y] = IF t = s /\ y = x THEN "retire" ELSE pc[t][y]
  BY DEF UnlockTail, Control, TypeBase
<1>5. Applied(N)
  BY <1>1 DEF Applied, AppliedHere
<1>6. CASE N > 1
  <2>1. x = s - 1
    BY <1>1, <1>6
  <2>2. \A t \in Server : t > 1 =>
           pc'[t][t - 1] = IF t = s THEN "retire" ELSE pc[t][t - 1]
    BY <1>4, <2>1
  <2>3. \A t \in Server : t # s /\ mutex[t] # None =>
           mutex'[t] = mutex[t] /\ pc'[t][mutex[t]] = pc[t][mutex[t]]
    BY <1>3, <1>4
  <2>4. \A t \in Server : t < s => (Applied(t)' <=> Applied(t))
    <3>1. \A t \in Server : t < s => (AppliedHere(t)' <=> AppliedHere(t))
      BY <1>3, <2>3 DEF AppliedHere
    <3>2. \A t \in Server : t < s => \A u \in 2 .. t : pc'[u][u - 1] = pc[u][u - 1]
      BY <2>2
    <3>3. QED
      BY <3>1, <3>2 DEF Applied
  <2>5. Applied(s) /\ Applied(s)'
    <3>1. s \in 2 .. s /\ pc'[s][s - 1] \in Written
      BY <1>1, <1>6, <2>2 DEF Written
    <3>2. QED
      BY <1>1, <3>1 DEF Applied, AppliedHere
  <2>6. \A t \in Server : Applied(t)' <=> Applied(t)
    BY <1>1, <2>4, <2>5
  <2>7. QED
    BY <1>1, <1>2, <1>3, <1>4, <1>5, <1>6, <2>1, <2>6
<1>7. CASE N = 1
  BY <1>1, <1>2, <1>3, <1>4, <1>5, <1>7
<1>8. QED
  BY <1>6, <1>7

LEMMA NextReplicas ==
    ASSUME Control, Control', Replicas, [Next]_vars PROVE Replicas'
<1> USE ConstantFacts, HolderFacts DEF Replicas
<1>1. ASSUME NEW c \in Client, NEW r \in Request, NEW s \in Server, Send(c, s, r)
      PROVE  Replicas'
  BY <1>1, ClientAside, AsideStep
<1>2. ASSUME NEW c \in Client, ReceiveReply(c) PROVE Replicas'
  BY <1>2, ClientAside, AsideStep
<1>3. ASSUME NEW s \in Server, NEW x \in Peer, Apply(s, x) PROVE Replicas'
  <2> DEFINE r == req[1][mutex[1]]
  <2>1. /\ mutex' = mutex /\ req' = req /\ req[s][x] = r
        /\ \A t \in Server : table'[t] = IF t = s THEN Effect(r, table[s]) ELSE table[t]
        /\ \A t \in Server : t > 1 => (pc'[t][t - 1] = "idle" <=> pc[t][t - 1] = "idle")
        /\ \A t \in Server : Awaiting(t)' <=> Awaiting(t)
        /\ \A t \in Server : (Applied(t) <=> t < s) /\ (Applied(t)' <=> t <= s)
    BY <1>3, ApplyFacts
  <2>2. Descent'
    BY <2>1, SameDescent
  <2>3. \A a, b \in Server : a < b =>
           table[a] = IF a < s /\ s <= b THEN Effect(r, table[b]) ELSE table[b]
    BY <2>1 DEF Agreement
  <2>4. \A a, b \in Server : a < b =>
           table'[a] = IF a <= s /\ s < b THEN Effect(r, table'[b]) ELSE table'[b]
    <3>1. ASSUME NEW a \in Server, NEW b \in Server, a < b
          PROVE  table'[a] = IF a <= s /\ s < b THEN Effect(r, table'[b]) ELSE table'[b]
      <4>1. table[a] = IF a < s /\ s <= b THEN Effect(r, table[b]) ELSE table[b]
        BY <2>3, <3>1
      <4>2. /\ table'[a] = IF a = s THEN Effect(r, table[s]) ELSE table[a]
            /\ table'[b] = IF b = s THEN Effect(r, table[s]) ELSE table[b]
        BY <2>1
      <4>3. QED
        BY <3>1, <4>1, <4>2
    <3>2. QED
      BY <3>1
  <2>5. Agreement'
    BY <2>1, <2>4 DEF Agreement
  <2>6. QED
    BY <2>2, <2>5
<1>4. ASSUME NEW s \in Server, NEW x \in Peer, Forward(s, x) PROVE Replicas'
  <2>1. s < N /\ s + 1 \in Server /\ s + 1 > 1 /\ mutex' = mutex /\ table' = table
    BY <1>4, ForwardFacts
  <2>2. mutex[s] = x
    BY <1>4, ForwardFacts
  <2>3. \A t \in Server, y \in Peer :
          /\ pc'[t][y] = IF t = s /\ y = x THEN "awaiting"
                         ELSE IF t = s + 1 /\ y = s THEN "received" ELSE pc[t][y]
          /\ req'[t][y] = IF t = s + 1 /\ y = s THEN req[s][x] ELSE req[t][y]
    BY <1>4, ForwardFacts
  <2>4. \A t \in Server : mutex[t] # None =>
           /\ req'[t][mutex[t]] = req[t][mutex[t]]
           /\ pc'[t][mutex[t]] = IF t = s THEN "awaiting" ELSE pc[t][mutex[t]]
    BY <1>4, ForwardFacts
  <2>5. \A t \in Server : Awaiting(t)' <=> t = s \/ Awaiting(t)
    BY <1>4, ForwardFacts
  <2>6. s > 1 => x = s - 1 /\ pc[s][s - 1] = "applied"
    BY <1>4, ForwardFacts
  <2>7. \A t \in Server : t < s => Awaiting(t) /\ req[s][x] = req[t][mutex[t]]
    BY <1>4, ForwardFacts
  <2>8. Descent'
    <3>1. SUFFICES ASSUME NEW a \in Server, NEW t \in Server, a < t, pc'[t][t - 1] # "idle"
                   PROVE  Awaiting(a)' /\ req'[t][t - 1] = req'[a][mutex'[a]]
      BY DEF Descent
    <3>2. t > 1 /\ t - 1 \in Peer
      BY <3>1
    <3>3. CASE t = s + 1
      <4>1. a = s \/ a < s
        BY <3>1, <3>3
      <4>2. t - 1 = s /\ t # s
        BY <3>3
      <4>3. req'[t][t - 1] = req[s][x]
        BY <2>1, <2>3, <3>2, <3>3, <4>2
      <4>4. QED
        BY <2>1, <2>2, <2>4, <2>5, <2>7, <4>1, <4>3 DEF Awaiting
    <3>4. CASE t # s + 1
      <4>1. pc[t][t - 1] # "idle" /\ req'[t][t - 1] = req[t][t - 1]
        BY <2>3, <2>6, <3>1, <3>2, <3>4
      <4>2. Awaiting(a) /\ req[t][t - 1] = req[a][mutex[a]]
        BY <3>1, <4>1 DEF Descent
      <4>3. QED
        BY <2>1, <2>4, <2>5, <4>1, <4>2 DEF Awaiting
    <3>5. QED
      BY <3>3, <3>4
  <2>9. \A t \in Server : Applied(t)' <=> Applied(t)
    BY <1>4, ForwardFacts
  <2>10. \A t \in Server : Applied(t) => req'[1][mutex'[1]] = req[1][mutex[1]]
    BY <2>1, <2>4, AppliedMeansBusy
  <2>11. QED
    BY <2>1, <2>8, <2>9, <2>10, SameAgreement
<1>5. ASSUME NEW s \in Server, NEW x \in Peer, ForwardDone(s, x) PROVE Replicas'
  <2>1. table' = table /\ req' = req
    BY <1>5, ForwardDoneFacts
  <2>2. \A t \in Server : mutex'[t] = IF t = s THEN None ELSE mutex[t]
    BY <1>5, ForwardDoneFacts
  <2>3. s > 1 => x = s - 1 /\ pc[s][s - 1] = "awaiting"
    BY <1>5, ForwardDoneFacts
  <2>4. \A t \in Server : t > 1 =>
           pc'[t][t - 1] = IF t = s THEN "retire" ELSE IF t > s THEN "idle" ELSE pc[t][t - 1]
    BY <1>5, ForwardDoneFacts
  <2>5. \A t \in Server : t # s /\ mutex[t] # None =>
           mutex'[t] = mutex[t] /\ pc'[t][mutex[t]] = pc[t][mutex[t]]
    BY <1>5, ForwardDoneFacts
  <2>6. Descent'
    <3>1. SUFFICES ASSUME NEW a \in Server, NEW t \in Server, a < t, pc'[t][t - 1] # "idle"
                   PROVE  Awaiting(a)' /\ req'[t][t - 1] = req'[a][mutex'[a]]
      BY DEF Descent
    <3>2. t > 1 /\ t <= s /\ a # s /\ pc[t][t - 1] # "idle"
      BY <2>3, <2>4, <3>1
    <3>3. Awaiting(a) /\ req[t][t - 1] = req[a][mutex[a]]
      BY <3>1, <3>2 DEF Descent
    <3>4. QED
      BY <2>1, <2>5, <3>2, <3>3 DEF Awaiting
  <2>7. \A t \in Server : Applied(t) /\ (Applied(t)' <=> s > 1)
    BY <1>5, ForwardDoneFacts
  <2>8. CASE s = 1
    <3>1. Agreement'
      BY <2>1, <2>7, <2>8 DEF Agreement
    <3>2. QED
      BY <2>6, <3>1
  <2>9. CASE s > 1
    <3>1. req'[1][mutex'[1]] = req[1][mutex[1]]
      BY <2>1, <2>2, <2>9
    <3>2. Agreement'
      BY <2>1, <2>7, <2>9, <3>1, SameAgreement
    <3>3. QED
      BY <2>6, <3>2
  <2>10. QED
    BY <2>8, <2>9
<1>6. ASSUME NEW s \in Server, NEW x \in Peer, UnlockTail(s, x) PROVE Replicas'
  <2>1. s = N /\ mutex[s] = x /\ pc[s][x] = "applied"
    BY <1>6, UnlockTailFacts
  <2>2. table' = table /\ req' = req
    BY <1>6, UnlockTailFacts
  <2>3. \A t \in Server : mutex'[t] = IF t = s THEN None ELSE mutex[t]
    BY <1>6, UnlockTailFacts
  <2>4. \A t \in Server, y \in Peer :
          pc'[t][y] = IF t = s /\ y = x THEN "retire" ELSE pc[t][y]
    BY <1>6, UnlockTailFacts
  <2>5. CASE N = 1
    BY <2>5 DEF Descent, Agreement
  <2>6. CASE N > 1
    <3>1. x = s - 1
      BY <1>6, <2>6, UnlockTailFacts
    <3>2. \A t \in Server : t > 1 =>
             pc'[t][t - 1] = IF t = s THEN "retire" ELSE pc[t][t - 1]
      BY <2>4, <3>1
    <3>3. \A t \in Server : t # s /\ mutex[t] # None =>
             mutex'[t] = mutex[t] /\ pc'[t][mutex[t]] = pc[t][mutex[t]]
      BY <2>3, <2>4
    <3>4. ~Awaiting(s)
      BY <2>1 DEF Awaiting
    <3>5. Descent'
      <4>1. \A t \in Server : t > 1 =>
               /\ pc'[t][t - 1] = "idle" <=> pc[t][t - 1] = "idle"
               /\ req'[t][t - 1] = req[t][t - 1]
        BY <2>1, <2>2, <3>1, <3>2
      <4>2. \A t \in Server : Awaiting(t) =>
               Awaiting(t)' /\ req'[t][mutex'[t]] = req[t][mutex[t]]
        BY <2>2, <3>3, <3>4 DEF Awaiting
      <4>3. QED
        BY <4>1, <4>2, SameDescent
    <3>6. \A t \in Server : Applied(t)' <=> Applied(t)
      BY <1>6, <2>6, UnlockTailFacts
    <3>7. req'[1][mutex'[1]] = req[1][mutex[1]]
      BY <2>1, <2>2, <2>3, <2>6
    <3>8. QED
      BY <2>2, <3>5, <3>6, <3>7, SameAgreement
  <2>7. QED
    BY <2>5, <2>6
<1>7. CASE UNCHANGED vars
  <2>1. Aside
    BY <1>7 DEF vars, Aside, AppliedHere
  <2>2. QED
    BY <2>1, AsideStep
<1>8. ASSUME NEW s \in Server, NEW x \in Peer, Handle(s, x) \/ SpuriousWake(s, x)
      PROVE  Replicas'
  <2>1. CASE Apply(s, x) \/ Forward(s, x) \/ ForwardDone(s, x) \/ UnlockTail(s, x)
    BY <1>3, <1>4, <1>5, <1>6, <2>1
  <2>2. CASE ~(Apply(s, x) \/ Forward(s, x) \/ ForwardDone(s, x) \/ UnlockTail(s, x))
    <3>1. Aside
      BY <1>8, <2>2, NextAside DEF Handle
    <3>2. QED
      BY <3>1, AsideStep
  <2>3. QED
    BY <2>1, <2>2
<1>9. ASSUME NEW c \in Client, SendWrite(c) \/ SendRead(c) PROVE Replicas'
  BY <1>1, <1>9, DataFacts DEF SendWrite, SendRead
<1>10. QED
  BY <1>2, <1>7, <1>8, <1>9 DEF Next
-----------------------------------------------------------------------------
(* The inductive invariant.                                                *)
IInv == Control /\ Counting /\ Replicas

LEMMA Invariance == Spec => []IInv
<1>1. Init => IInv
  BY InitControl, InitCounting, InitReplicas DEF IInv
<1>2. IInv /\ [Next]_vars => IInv'
  <2> SUFFICES ASSUME IInv, [Next]_vars PROVE IInv'
    OBVIOUS
  <2>1. Control'
    BY NextControl DEF IInv
  <2>2. Counting'
    BY NextCounting DEF IInv
  <2>3. Replicas'
    BY <2>1, NextReplicas DEF IInv
  <2>4. QED
    BY <2>1, <2>2, <2>3 DEF IInv
<1>3. QED
  BY <1>1, <1>2, PTL DEF Spec

(* Every variable keeps its type; in particular the counter of writers of  *)
(* table_skel.c never falls below zero.                                    *)
THEOREM TypeCorrect == Spec => []TypeOK
<1>1. IInv => TypeOK
  BY ConstantFacts, WritingFacts DEF IInv, Control, TypeBase, NextFixed, Counting, TypeOK
<1>2. QED
  BY <1>1, Invariance, PTL

(* While the head executes no write, all tables of the chain are equal: the*)
(* head holds write_mutex across send_next(), and so does every server     *)
(* down the chain.                                                         *)
THEOREM ReplicasAgree == Spec => []NoDivergence
<1>1. IInv => NoDivergence
  <2>1. SUFFICES ASSUME Control, Descent, Agreement, mutex[1] = None,
                        NEW s \in Server, NEW t \in Server
                 PROVE  table[s] = table[t]
    BY DEF IInv, Replicas, NoDivergence
  <2>2. ~Applied(s) /\ ~Applied(t)
    BY <2>1, AppliedMeansBusy
  <2>3. s < t \/ t < s \/ s = t
    BY ConstantFacts
  <2>4. QED
    BY <2>1, <2>2, <2>3 DEF Agreement
<1>2. QED
  BY <1>1, Invariance, PTL

(* A server behind the head executes only the write its predecessor is     *)
(* waiting for.                                                            *)
THEOREM WritesFollowTheChain == Spec => []WritesDescend
<1>1. IInv => WritesDescend
  <2>1. SUFFICES ASSUME Control, Descent, NEW s \in Server, s > 1, mutex[s] # None
                 PROVE  /\ mutex[s] = s - 1 /\ target[s - 1] = s
                        /\ mutex[s - 1] # None
                        /\ req[s][s - 1] = req[s - 1][mutex[s - 1]]
    BY DEF IInv, Replicas, WritesDescend
  <2>2. mutex[s] = s - 1 /\ s - 1 \in Server /\ pc[s][s - 1] # "idle" /\ s - 1 < s
    BY <2>1, HolderFacts, ConstantFacts DEF Holding
  <2>3. Awaiting(s - 1) /\ req[s][s - 1] = req[s - 1][mutex[s - 1]]
    BY <2>1, <2>2 DEF Descent
  <2>4. target[s - 1] = (s - 1) + 1
    BY <2>1, <2>2, <2>3 DEF Control, Link
  <2>5. QED
    BY <2>2, <2>3, <2>4, ConstantFacts DEF Awaiting
<1>2. QED
  BY <1>1, Invariance, PTL

(* No reader sleeps in wait_all_clients_done_writing() without a writer    *)
(* that will broadcast.                                                    *)
THEOREM WakeupsReachReaders == Spec => []NoLostWakeup
<1>1. IInv => NoLostWakeup
  <2>1. SUFFICES ASSUME Counting, NEW s \in Server, NEW x \in Peer, pc[s][x] = "waiting"
                 PROVE  Writing(s) # {}
    BY DEF IInv, NoLostWakeup
  <2>2. Cardinality(Writing(s)) > 0
    BY <2>1 DEF Counting
  <2>3. QED
    BY <2>2, FS_EmptySet
<1>2. QED
  BY <1>1, Invariance, PTL
-----------------------------------------------------------------------------
(* The proof that Chain implements KVStore: to its clients the chain is    *)
(* one table.                                                              *)

(* A client has one request, at one server.                                *)
OneSite ==
    \A c \in Client, s, t \in Server :
        pc[s][c] # "idle" /\ pc[t][c] # "idle" => s = t

(* What the head will answer to a write is what the tail would answer, as  *)
(* long as the write is not there.                                         *)
Promise ==
    \A c \in Client : mutex[1] = c /\ AppliedHere(1) /\ ~Applied(N) =>
        res[1][c] = Answer(req[1][c], table[N])

RInv == IInv /\ OneSite /\ Promise

LEMMA InitRInv == Init => RInv
BY InitControl, InitCounting, InitReplicas, ConstantFacts
   DEF Init, RInv, IInv, OneSite, Promise, AppliedHere

LEMMA OneSiteStep == ASSUME Control, OneSite, [Next]_vars PROVE OneSite'
<1>1. ASSUME \A c \in Client, t \in Server : pc'[t][c] # "idle" => pc[t][c] # "idle"
      PROVE  OneSite'
  BY <1>1 DEF OneSite
<1> USE ConstantFacts DEF Control, TypeBase, OneSite
<1>2. ASSUME NEW c \in Client, NEW r \in Request, NEW s \in Server, Send(c, s, r) PROVE OneSite'
  BY <1>2 DEF Send, Busy
<1>3. ASSUME NEW c \in Client, ReceiveReply(c) PROVE OneSite'
  BY <1>3 DEF ReceiveReply
<1>4. ASSUME NEW s \in Server, NEW x \in Peer, Handle(s, x) \/ SpuriousWake(s, x)
      PROVE  \A c \in Client, t \in Server : pc'[t][c] # "idle" => pc[t][c] # "idle"
  <2>1. CASE Forward(s, x)
    <3>1. next[s] \in Server /\ s \notin Client
      BY <2>1 DEF Forward, NextFixed
    <3>2. QED
      BY <2>1, <3>1 DEF Forward
  <2>2. CASE ForwardDone(s, x)
    BY <2>2 DEF ForwardDone
  <2>3. CASE IncrementWriters(s, x) \/ Lock(s, x) \/ Apply(s, x) \/ UnlockTail(s, x) \/ DecrementWriters(s, x)
    BY <2>3 DEF IncrementWriters, Lock, Apply, UnlockTail, DecrementWriters
  <2>4. CASE WaitWriters(s, x) \/ SpuriousWake(s, x) \/ IncrementReaders(s, x) \/ Read(s, x)
                \/ DecrementReaders(s, x) \/ AddTime(s, x)
    BY <2>4 DEF WaitWriters, SpuriousWake, IncrementReaders, Read, DecrementReaders, AddTime
  <2>5. QED
    BY <1>4, <2>1, <2>2, <2>3, <2>4 DEF Handle
<1>5. CASE \E s \in Server, x \in Peer : Handle(s, x) \/ SpuriousWake(s, x)
  <2>1. \A c \in Client, t \in Server : pc'[t][c] # "idle" => pc[t][c] # "idle"
    BY <1>4, <1>5
  <2>2. QED
    BY <1>1, <2>1
<1>6. CASE \E c \in Client : SendWrite(c) \/ SendRead(c) \/ ReceiveReply(c)
  <2>1. PICK c \in Client : SendWrite(c) \/ SendRead(c) \/ ReceiveReply(c)
    BY <1>6
  <2>2. SendWrite(c) \/ SendRead(c) => \E s \in Server, r \in Request : Send(c, s, r)
    BY DataFacts DEF SendWrite, SendRead
  <2>3. QED
    BY <1>2, <1>3, <2>1, <2>2
<1>7. CASE UNCHANGED vars
  BY <1>7 DEF vars
<1>8. QED
  BY <1>5, <1>6, <1>7 DEF Next
-----------------------------------------------------------------------------
(* The write that the head executes.                                       *)
LEMMA HeadFacts ==
    ASSUME Control, Descent
    PROVE  /\ 1 \in Server /\ N \in Server
           /\ mutex[1] # None => /\ mutex[1] \in Client /\ pc[1][mutex[1]] \in Holding
                                 /\ IsWrite(req[1][mutex[1]]) /\ req[1][mutex[1]] \in Request
           /\ Applied(N) /\ N > 1 => Awaiting(1)
           /\ ~Awaiting(N)
<1> USE ConstantFacts DEF Control
<1>1. 1 \in Server /\ N \in Server
  OBVIOUS
<1>2. ASSUME mutex[1] # None
      PROVE  /\ mutex[1] \in Client /\ pc[1][mutex[1]] \in Holding
             /\ IsWrite(req[1][mutex[1]]) /\ req[1][mutex[1]] \in Request
  <2>1. mutex[1] \in Peer /\ pc[1][mutex[1]] \in Holding
    BY <1>1, <1>2, HolderFacts
  <2>2. pc[1][mutex[1]] # "idle" /\ pc[1][mutex[1]] \in WriterStage
    BY <2>1 DEF Holding, WriterStage
  <2>3. IsWrite(req[1][mutex[1]]) /\ req[1][mutex[1]] \in Request
    BY <1>1, <2>1, <2>2 DEF Active
  <2>4. mutex[1] \in Client
    <3>1. PICK x \in Peer : x = mutex[1]
      BY <2>1
    <3>2. x \in Client \/ (1 > 1 /\ x = 1 - 1)
      BY <1>1, <2>2, <2>3, <3>1 DEF Active
    <3>3. QED
      BY <3>1, <3>2
  <2>5. QED
    BY <2>1, <2>3, <2>4
<1>3. ASSUME Applied(N), N > 1 PROVE Awaiting(1)
  <2>1. CASE AppliedHere(N)
    BY <1>1, <1>3, <2>1, HolderFacts DEF AppliedHere, Descent
  <2>2. CASE \E u \in 2 .. N : pc[u][u - 1] \in Written
    BY <1>1, <2>2 DEF Descent, Written
  <2>3. QED
    BY <1>3, <2>1, <2>2 DEF Applied
<1>4. ~Awaiting(N)
  BY <1>1 DEF Link
<1>5. QED
  BY <1>1, <1>2, <1>3, <1>4

(* The request of c at s has taken effect.                                 *)
DoneAt(s, c) ==
    IF IsWrite(req[s][c]) THEN pc[s][c] \in Written \/ (mutex[1] = c /\ Applied(N))
                          ELSE pc[s][c] \in {"leaving", "timing", "replied"}

LEMMA CommittedIs ==
    ASSUME Control, Descent, NEW c \in Client, NEW s \in Server, pc[s][c] # "idle", Site(c) = s
    PROVE  Committed(c) <=> DoneAt(s, c)
<1> USE ConstantFacts DEF Control
<1>1. CASE ~IsWrite(req[s][c])
  BY <1>1 DEF Committed, DoneAt
<1>2. CASE IsWrite(req[s][c])
  <2>1. s = 1 /\ c \in Peer
    <3>1. c \in Peer /\ (s > 1 => s - 1 \in Server)
      OBVIOUS
    <3>2. s = 1 \/ (s > 1 /\ c = s - 1)
      BY <1>2, <3>1 DEF Active
    <3>3. QED
      BY <3>1, <3>2
  <2>2. pc[1][c] \in Holding <=> mutex[1] = c
    BY <2>1 DEF MutexHeld
  <2>3. pc[1][c] = "awaiting" => N > 1
    BY <2>1, <2>2, HeadFacts DEF Awaiting, Holding
  <2>4. next[1] = None <=> N = 1
    BY <2>1 DEF NextFixed, None
  <2>5. CASE N = 1
    <3>1. Applied(N) <=> AppliedHere(1)
      BY <2>5 DEF Applied
    <3>2. mutex[1] = c /\ Applied(N) <=> pc[1][c] = "applied"
      BY <2>2, <2>3, <2>5, <3>1 DEF AppliedHere, Holding
    <3>3. QED
      BY <1>2, <2>1, <2>3, <2>4, <2>5, <3>2 DEF Committed, DoneAt, Settled
  <2>6. CASE N > 1
    <3>1. ASSUME pc[1][c] = "awaiting", NEW u \in Server, NEW t \in Server, Settled(u, t)
          PROVE  mutex[1] = c /\ Applied(N)
      <4>1. t \in Peer /\ t \notin Client /\ pc[u][t] # "idle"
        BY <3>1 DEF Settled, Written
      <4>2. u > 1 /\ t = u - 1
        BY <4>1 DEF Active
      <4>3. CASE pc[u][t] \in Written
        BY <2>2, <3>1, <4>2, <4>3 DEF Applied, Holding
      <4>4. CASE pc[u][t] = "applied" /\ next[u] = None
        <5>1. u = N
          BY <4>4 DEF NextFixed, None
        <5>2. mutex[u] = t
          BY <4>1, <4>4 DEF MutexHeld, Holding
        <5>3. QED
          BY <2>2, <3>1, <4>1, <4>4, <5>1, <5>2 DEF Applied, AppliedHere, Holding
      <4>5. QED
        BY <3>1, <4>3, <4>4 DEF Settled
    <3>2. ASSUME mutex[1] = c, Applied(N)
          PROVE  pc[1][c] = "awaiting" /\ \E u, t \in Server : Settled(u, t)
      <4>1. pc[1][c] = "awaiting"
        BY <2>6, <3>2, HeadFacts DEF Awaiting
      <4>2. CASE AppliedHere(N)
        <5>1. mutex[N] = N - 1 /\ N - 1 \in Server /\ pc[N][N - 1] \in {"applied", "awaiting"}
          BY <2>6, <4>2, HeadFacts, HolderFacts DEF AppliedHere
        <5>2. pc[N][N - 1] = "applied"
          BY <2>6, <5>1, HeadFacts DEF Awaiting
        <5>3. next[N] = None
          BY HeadFacts DEF NextFixed
        <5>4. QED
          BY <4>1, <5>1, <5>2, <5>3, HeadFacts DEF Settled
      <4>3. CASE \E u \in 2 .. N : pc[u][u - 1] \in Written
        BY <4>1, <4>3 DEF Settled
      <4>4. QED
        BY <3>2, <4>2, <4>3 DEF Applied
    <3>3. QED
      BY <1>2, <2>1, <2>4, <2>6, <3>1, <3>2 DEF Committed, DoneAt, Settled
  <2>7. QED
    BY <2>1, <2>5, <2>6
<1>3. QED
  BY <1>1, <1>2
-----------------------------------------------------------------------------
(* What the refinement mapping shows of each client.                       *)
Shown(c, status, arg, ret) ==
    StatusMap[c] = status /\ ArgMap[c] = arg /\ RetMap[c] = ret

Views ==
    /\ \A c \in Client :
          (\A s \in Server : pc[s][c] = "idle") => Shown(c, "ready", NoRequest, NoResult)
    /\ \A c \in Client, s \in Server : pc[s][c] # "idle" =>
          IF DoneAt(s, c) THEN Shown(c, "done", req[s][c], res[s][c])
                          ELSE Shown(c, "invoked", req[s][c], NoResult)

LEMMA RInvViews == RInv => Views
<1> SUFFICES ASSUME RInv PROVE Views
  OBVIOUS
<1>1. ASSUME NEW c \in Client, \A s \in Server : pc[s][c] = "idle"
      PROVE  Shown(c, "ready", NoRequest, NoResult)
  BY <1>1 DEF Shown, StatusMap, ArgMap, RetMap, Busy
<1>2. ASSUME NEW c \in Client, NEW s \in Server, pc[s][c] # "idle"
      PROVE  IF DoneAt(s, c) THEN Shown(c, "done", req[s][c], res[s][c])
                             ELSE Shown(c, "invoked", req[s][c], NoResult)
  <2>1. Busy(c)
    BY <1>2 DEF Busy
  <2>2. Site(c) = s
    <3>1. Site(c) \in Server /\ pc[Site(c)][c] # "idle"
      BY <1>2 DEF Site
    <3>2. QED
      BY <1>2, <3>1 DEF RInv, OneSite
  <2>3. Committed(c) <=> DoneAt(s, c)
    BY <1>2, <2>2, CommittedIs DEF RInv, IInv, Replicas
  <2>4. QED
    BY <2>1, <2>2, <2>3 DEF Shown, StatusMap, ArgMap, RetMap
<1>3. QED
  BY <1>1, <1>2 DEF Views

Abstract == <<table[N], StatusMap, ArgMap, RetMap, DisturbedMap>>

(* A step that the clients cannot see.                                     *)
Hidden ==
    /\ table'[N] = table[N]
    /\ \A c \in Client, s \in Server :
          /\ pc'[s][c] = "idle" <=> pc[s][c] = "idle"
          /\ pc'[s][c] = "disturbed" <=> pc[s][c] = "disturbed"
          /\ pc[s][c] # "idle" => /\ req'[s][c] = req[s][c]
                                  /\ DoneAt(s, c)' <=> DoneAt(s, c)
                                  /\ DoneAt(s, c) => res'[s][c] = res[s][c]

(* A client that a step does not concern is shown as before.               *)
LEMMA SameShown ==
    ASSUME Views, Views', NEW c \in Client,
           \A s \in Server :
              /\ pc'[s][c] = "idle" <=> pc[s][c] = "idle"
              /\ pc[s][c] # "idle" => /\ req'[s][c] = req[s][c]
                                      /\ DoneAt(s, c)' <=> DoneAt(s, c)
                                      /\ DoneAt(s, c) => res'[s][c] = res[s][c]
    PROVE  StatusMap'[c] = StatusMap[c] /\ ArgMap'[c] = ArgMap[c] /\ RetMap'[c] = RetMap[c]
<1>1. CASE \A s \in Server : pc[s][c] = "idle"
  BY <1>1 DEF Views, Shown
<1>2. CASE \E s \in Server : pc[s][c] # "idle"
  <2>1. PICK s \in Server : pc[s][c] # "idle"
    BY <1>2
  <2>2. pc'[s][c] # "idle" /\ req'[s][c] = req[s][c]
    BY <2>1
  <2>3. CASE DoneAt(s, c)
    BY <2>1, <2>2, <2>3 DEF Views, Shown
  <2>4. CASE ~DoneAt(s, c)
    BY <2>1, <2>2, <2>4 DEF Views, Shown
  <2>5. QED
    BY <2>3, <2>4
<1>3. QED
  BY <1>1, <1>2

LEMMA Stutter == ASSUME Views, Views', Hidden PROVE UNCHANGED Abstract
<1>1. \A c \in Client : StatusMap'[c] = StatusMap[c] /\ ArgMap'[c] = ArgMap[c] /\ RetMap'[c] = RetMap[c]
  BY SameShown DEF Hidden
<1>2. StatusMap' = StatusMap /\ ArgMap' = ArgMap /\ RetMap' = RetMap
  BY <1>1 DEF StatusMap, ArgMap, RetMap
<1>3. DisturbedMap' = DisturbedMap
  BY DEF Hidden, DisturbedMap
<1>4. QED
  BY <1>2, <1>3 DEF Hidden, Abstract
-----------------------------------------------------------------------------
(* Which write is done, in steps that are not about one.                   *)
LEMMA AsideApplied ==
    ASSUME Control, Replicas, Aside
    PROVE  /\ \A t \in Server : Applied(t)' <=> Applied(t)
           /\ AppliedHere(1)' <=> AppliedHere(1)
           /\ AppliedHere(1) => /\ mutex'[1] = mutex[1]
                                /\ req'[1][mutex[1]] = req[1][mutex[1]]
           /\ \A c \in Client :
                 mutex'[1] = c /\ Applied(N)' <=> mutex[1] = c /\ Applied(N)
<1>1. \A t \in Server : AppliedHere(t)' <=> AppliedHere(t)
  BY DEF Aside, AppliedHere
<1>2. \A t \in Server : Applied(t)' <=> Applied(t)
  BY <1>1, SameApplied DEF Aside
<1>3. 1 \in Server /\ N \in Server
  BY ConstantFacts
<1>4. Applied(N) => mutex[1] # None
  BY <1>3, AppliedMeansBusy DEF Replicas
<1>5. mutex[1] # None => mutex'[1] = mutex[1] /\ req'[1][mutex[1]] = req[1][mutex[1]]
  BY <1>3 DEF Aside
<1>6. \A c \in Client : mutex'[1] = c /\ Applied(N)' <=> mutex[1] = c /\ Applied(N)
  BY <1>2, <1>3, <1>4, <1>5
<1>7. QED
  BY <1>1, <1>2, <1>3, <1>5, <1>6 DEF AppliedHere

LEMMA PromiseKept ==
    ASSUME Promise, table'[N] = table[N],
           \A c \in Client : mutex'[1] = c /\ AppliedHere(1)' /\ ~Applied(N)' =>
               /\ mutex[1] = c /\ AppliedHere(1) /\ ~Applied(N)
               /\ res'[1][c] = res[1][c] /\ req'[1][c] = req[1][c]
    PROVE  Promise'
BY DEF Promise

LEMMA PromiseStep == ASSUME Control, Replicas, Promise, [Next]_vars PROVE Promise'
<1> USE ConstantFacts
<1>1. ASSUME Aside, \A c \in Client : AppliedHere(1) /\ mutex[1] = c => res'[1][c] = res[1][c]
      PROVE  Promise'
  <2>1. table'[N] = table[N]
    BY <1>1 DEF Aside
  <2>2. \A c \in Client : mutex'[1] = c /\ AppliedHere(1)' /\ ~Applied(N)' =>
               /\ mutex[1] = c /\ AppliedHere(1) /\ ~Applied(N)
               /\ res'[1][c] = res[1][c] /\ req'[1][c] = req[1][c]
    BY <1>1, AsideApplied
  <2>3. QED
    BY <2>1, <2>2, PromiseKept
<1>2. ASSUME NEW c \in Client, SendWrite(c) \/ SendRead(c) \/ ReceiveReply(c) PROVE Promise'
  <2>1. (\E s \in Server, r \in Request : Send(c, s, r)) \/ ReceiveReply(c)
    BY <1>2, DataFacts DEF SendWrite, SendRead
  <2>2. Aside /\ res' = res
    BY <2>1, ClientAside DEF Send, ReceiveReply
  <2>3. QED
    BY <1>1, <2>2
<1>3. ASSUME NEW s \in Server, NEW x \in Peer, Read(s, x) PROVE Promise'
  <2>1. Aside
    BY <1>3, NextAside
  <2>2. ASSUME NEW c \in Client, AppliedHere(1), mutex[1] = c PROVE res'[1][c] = res[1][c]
    <3>1. ~(s = 1 /\ x = c)
      BY <1>3, <2>2 DEF Read, AppliedHere
    <3>2. QED
      BY <1>3, <3>1 DEF Read, Control, TypeBase
  <2>3. QED
    BY <1>1, <2>1, <2>2
<1>4. ASSUME NEW s \in Server, NEW x \in Peer,
             \/ IncrementWriters(s, x) \/ Lock(s, x) \/ DecrementWriters(s, x)
             \/ WaitWriters(s, x) \/ SpuriousWake(s, x) \/ IncrementReaders(s, x)
             \/ DecrementReaders(s, x) \/ AddTime(s, x)
      PROVE  Promise'
  <2>1. Aside
    BY <1>4, NextAside
  <2>2. res' = res
    BY <1>4 DEF IncrementWriters, Lock, DecrementWriters, WaitWriters, SpuriousWake,
                IncrementReaders, DecrementReaders, AddTime
  <2>3. QED
    BY <1>1, <2>1, <2>2
<1>5. ASSUME NEW s \in Server, NEW x \in Peer, Apply(s, x) PROVE Promise'
  <2>1. /\ mutex[s] = x /\ mutex' = mutex /\ req' = req
        /\ \A t \in Server : table'[t] = IF t = s THEN Effect(req[s][x], table[s]) ELSE table[t]
        /\ \A t \in Server : (Applied(t) <=> t < s) /\ (Applied(t)' <=> t <= s)
    BY <1>5, ApplyFacts
  <2>2. CASE s = N
    BY <2>1, <2>2 DEF Promise
  <2>3. CASE s # N
    <3>1. table'[N] = table[N] /\ s < N /\ N > 1
      BY <2>1, <2>3
    <3>2. CASE s = 1
      <4>1. ~Applied(1)
        BY <2>1, <3>2
      <4>2. table[1] = table[N]
        BY <3>1, <4>1 DEF Replicas, Agreement
      <4>3. res'[1][x] = Answer(req[1][x], table[N])
        BY <1>5, <3>2, <4>2 DEF Apply, Control, TypeBase
      <4>4. QED
        BY <2>1, <3>1, <3>2, <4>3 DEF Promise
    <3>3. CASE s # 1
      <4>1. Awaiting(1)
        <5>1. 1 \in Server /\ 1 < s
          BY <3>3
        <5>2. \A t \in Server : t < s => Awaiting(t)
          BY <1>5, ApplyFacts
        <5>3. QED
          BY <5>1, <5>2
      <4>2. ~Applied(N)
        BY <2>1, <3>1
      <4>3. \A c \in Client : res'[1][c] = res[1][c]
        BY <1>5, <3>3 DEF Apply, Control, TypeBase
      <4>4. QED
        BY <2>1, <3>1, <4>1, <4>2, <4>3, PromiseKept DEF Awaiting, AppliedHere
    <3>4. QED
      BY <3>2, <3>3
  <2>4. QED
    BY <2>2, <2>3
<1>6. ASSUME NEW s \in Server, NEW x \in Peer, Forward(s, x) PROVE Promise'
  <2>1. /\ mutex[s] = x /\ mutex' = mutex /\ table' = table /\ (Applied(N)' <=> Applied(N))
        /\ mutex[1] # None => req'[1][mutex[1]] = req[1][mutex[1]]
        /\ mutex[1] # None => pc'[1][mutex[1]] = IF 1 = s THEN "awaiting" ELSE pc[1][mutex[1]]
    BY <1>6, ForwardFacts
  <2>2. pc[s][x] = "applied" /\ res' = res
    BY <1>6 DEF Forward
  <2>3. QED
    BY <2>1, <2>2, PromiseKept DEF AppliedHere
<1>7. ASSUME NEW s \in Server, NEW x \in Peer, ForwardDone(s, x) PROVE Promise'
  <2>1. /\ \A t \in Server : mutex'[t] = IF t = s THEN None ELSE mutex[t]
        /\ Applied(N)' <=> s > 1
    BY <1>7, ForwardDoneFacts
  <2>2. QED
    BY <2>1 DEF Promise
<1>8. ASSUME NEW s \in Server, NEW x \in Peer, UnlockTail(s, x) PROVE Promise'
  <2>1. /\ s = N /\ \A t \in Server : mutex'[t] = IF t = s THEN None ELSE mutex[t]
        /\ Applied(N) /\ (N > 1 => (Applied(N)' <=> Applied(N)))
    BY <1>8, UnlockTailFacts
  <2>2. QED
    BY <2>1 DEF Promise
<1>9. CASE UNCHANGED vars
  BY <1>9 DEF vars, Promise, Applied, AppliedHere
<1>10. QED
  BY <1>2, <1>3, <1>4, <1>5, <1>6, <1>7, <1>8, <1>9 DEF Next, Handle

LEMMA RInvariance == Spec => []RInv
<1>1. RInv /\ [Next]_vars => OneSite' /\ Promise'
  BY OneSiteStep, PromiseStep DEF RInv, IInv
<1>2. IInv /\ OneSite /\ Promise <=> RInv
  BY DEF RInv
<1>3. QED
  BY <1>1, <1>2, InitRInv, Invariance, PTL DEF Spec
-----------------------------------------------------------------------------
(* Steps that no client sees.                                              *)
LEMMA HiddenAside ==
    ASSUME RInv, Aside, req' = req, res' = res,
           \A s \in Server, c \in Client : pc'[s][c] # pc[s][c] =>
              /\ {pc[s][c], pc'[s][c]} \cap {"idle", "disturbed"} = {}
              /\ IF IsWrite(req[s][c])
                   THEN pc'[s][c] \in Written <=> pc[s][c] \in Written
                   ELSE pc'[s][c] \in {"leaving", "timing", "replied"}
                          <=> pc[s][c] \in {"leaving", "timing", "replied"}
    PROVE  Hidden
<1>1. table'[N] = table[N]
  BY DEF Aside
<1>2. \A s \in Server, c \in Client :
         /\ pc'[s][c] = "idle" <=> pc[s][c] = "idle"
         /\ pc'[s][c] = "disturbed" <=> pc[s][c] = "disturbed"
  OBVIOUS
<1>3. \A c \in Client : mutex'[1] = c /\ Applied(N)' <=> mutex[1] = c /\ Applied(N)
  BY AsideApplied DEF RInv, IInv
<1>4. \A s \in Server, c \in Client : DoneAt(s, c)' <=> DoneAt(s, c)
  BY <1>3 DEF DoneAt
<1>5. QED
  BY <1>1, <1>2, <1>4 DEF Hidden

LEMMA HandlerHidden ==
    ASSUME RInv, NEW s \in Server, NEW x \in Peer,
           \/ IncrementWriters(s, x) \/ Lock(s, x) \/ DecrementWriters(s, x)
           \/ WaitWriters(s, x) \/ SpuriousWake(s, x) \/ IncrementReaders(s, x)
           \/ DecrementReaders(s, x) \/ AddTime(s, x)
    PROVE  Hidden
<1> USE ConstantFacts DEF RInv, IInv, Control, TypeBase
<1>1. Aside
  BY NextAside
<1>2. CASE IncrementWriters(s, x)
  BY <1>1, <1>2, HiddenAside DEF IncrementWriters, Written
<1>3. CASE Lock(s, x)
  BY <1>1, <1>3, HiddenAside DEF Lock, Written
<1>4. CASE DecrementWriters(s, x)
  <2>1. IsWrite(req[s][x])
    BY <1>4 DEF DecrementWriters, Active, WriterStage
  <2>2. QED
    BY <1>1, <1>4, <2>1, HiddenAside DEF DecrementWriters, Written
<1>5. CASE WaitWriters(s, x)
  BY <1>1, <1>5, HiddenAside DEF WaitWriters, Written
<1>6. CASE SpuriousWake(s, x)
  BY <1>1, <1>6, HiddenAside DEF SpuriousWake, Written
<1>7. CASE IncrementReaders(s, x)
  BY <1>1, <1>7, HiddenAside DEF IncrementReaders, Written
<1>8. CASE DecrementReaders(s, x)
  <2>1. ~IsWrite(req[s][x])
    BY <1>8 DEF DecrementReaders, Active, ReaderStage
  <2>2. QED
    BY <1>1, <1>8, <2>1, HiddenAside DEF DecrementReaders, Written
<1>9. CASE AddTime(s, x)
  BY <1>1, <1>9, HiddenAside DEF AddTime, Written
<1>10. QED
  BY <1>2, <1>3, <1>4, <1>5, <1>6, <1>7, <1>8, <1>9

(* A write on its way down, and the answers on their way up.               *)
LEMMA ApplyHidden ==
    ASSUME RInv, NEW s \in Server, NEW x \in Peer, Apply(s, x), s # N
    PROVE  Hidden
<1> USE ConstantFacts DEF RInv, IInv
<1>1. /\ mutex[s] = x /\ mutex' = mutex /\ req' = req
      /\ \A t \in Server : table'[t] = IF t = s THEN Effect(req[s][x], table[s]) ELSE table[t]
      /\ \A t \in Server, y \in Peer :
            pc'[t][y] = IF t = s /\ y = x THEN "applied"
                        ELSE IF t = s /\ pc[t][y] = "reading" THEN "disturbed" ELSE pc[t][y]
      /\ ~Applied(N) /\ ~Applied(N)'
  BY ApplyFacts
<1>2. pc[s][x] = "locked" /\ \A y \in Peer : pc[s][y] # "reading"
  BY DEF Apply, Control, Active, ReaderStage
<1>3. \A t \in Server, y \in Peer : res'[t][y] = IF t = s /\ y = x THEN res'[t][y] ELSE res[t][y]
  BY DEF Apply, Control, TypeBase
<1>4. \A t \in Server, y \in Peer : pc'[t][y] = IF t = s /\ y = x THEN "applied" ELSE pc[t][y]
  BY <1>1, <1>2
<1>5. \A t \in Server, c \in Client :
         /\ DoneAt(t, c)' <=> DoneAt(t, c)
         /\ DoneAt(t, c) => ~(t = s /\ c = x)
  BY <1>1, <1>2, <1>4 DEF DoneAt, Written
<1>6. QED
  BY <1>1, <1>2, <1>3, <1>4, <1>5 DEF Hidden

LEMMA ForwardHidden ==
    ASSUME RInv, NEW s \in Server, NEW x \in Peer, Forward(s, x)
    PROVE  Hidden
<1> USE ConstantFacts DEF RInv, IInv
<1>1. /\ s \in Server /\ s + 1 \in Server /\ mutex' = mutex /\ table' = table
      /\ \A t \in Server, y \in Peer :
            /\ pc'[t][y] = IF t = s /\ y = x THEN "awaiting"
                           ELSE IF t = s + 1 /\ y = s THEN "received" ELSE pc[t][y]
            /\ req'[t][y] = IF t = s + 1 /\ y = s THEN req[s][x] ELSE req[t][y]
      /\ Applied(N)' <=> Applied(N)
  BY ForwardFacts
<1>2. pc[s][x] = "applied" /\ res' = res
  BY DEF Forward
<1>3. \A t \in Server, c \in Client :
         /\ pc'[t][c] = IF t = s /\ c = x THEN "awaiting" ELSE pc[t][c]
         /\ req'[t][c] = req[t][c]
  BY <1>1
<1>4. \A t \in Server, c \in Client : DoneAt(t, c)' <=> DoneAt(t, c)
  BY <1>1, <1>2, <1>3 DEF DoneAt, Written
<1>5. QED
  BY <1>1, <1>2, <1>3, <1>4 DEF Hidden

LEMMA ForwardDoneHidden ==
    ASSUME RInv, NEW s \in Server, NEW x \in Peer, ForwardDone(s, x)
    PROVE  Hidden
<1>1. /\ mutex[s] = x /\ pc[s][x] = "awaiting" /\ table' = table /\ req' = req
      /\ \A t \in Server : mutex'[t] = IF t = s THEN None ELSE mutex[t]
      /\ \A t \in Server, y \in Peer :
            pc'[t][y] = IF t = s /\ y = x THEN "retire"
                        ELSE IF t = s + 1 /\ y = s THEN "idle" ELSE pc[t][y]
      /\ s > 1 => x = s - 1
  BY ForwardDoneFacts DEF RInv, IInv
<1> USE ConstantFacts DEF RInv, IInv
<1>2. res' = res /\ Applied(N) /\ (Applied(N)' <=> s > 1)
  <2>1. \A t \in Server : Applied(t) /\ (Applied(t)' <=> s > 1)
    BY ForwardDoneFacts
  <2>2. QED
    BY <2>1 DEF ForwardDone
<1>3. \A t \in Server, c \in Client : pc'[t][c] = IF t = s /\ c = x THEN "retire" ELSE pc[t][c]
  BY <1>1
<1>4. CASE s > 1
  <2>1. x \in Server /\ mutex'[1] = mutex[1]
    BY <1>1, <1>4
  <2>2. \A t \in Server, c \in Client : pc'[t][c] = pc[t][c] /\ (DoneAt(t, c)' <=> DoneAt(t, c))
    BY <1>1, <1>2, <1>3, <1>4, <2>1 DEF DoneAt
  <2>3. QED
    BY <1>1, <1>2, <2>2 DEF Hidden
<1>5. CASE s = 1
  <2>1. mutex[1] = x /\ mutex'[1] = None
    BY <1>1, <1>5
  <2>2. \A t \in Server, c \in Client : c # x => pc'[t][c] = pc[t][c] /\ (DoneAt(t, c)' <=> DoneAt(t, c))
    BY <1>1, <1>3, <2>1 DEF DoneAt
  <2>3. \A t \in Server : x \in Client /\ pc[t][x] # "idle" => t = 1
    BY <1>1, <1>5 DEF OneSite
  <2>4. x \in Client => (DoneAt(1, x)' <=> DoneAt(1, x))
    BY <1>1, <1>2, <1>3, <1>5, <2>1 DEF DoneAt, Written
  <2>5. QED
    BY <1>1, <1>2, <1>3, <2>2, <2>3, <2>4 DEF Hidden
<1>6. QED
  BY <1>4, <1>5

LEMMA UnlockTailHidden ==
    ASSUME RInv, NEW s \in Server, NEW x \in Peer, UnlockTail(s, x)
    PROVE  Hidden
<1> USE ConstantFacts DEF RInv, IInv
<1>1. /\ s = N /\ mutex[s] = x /\ pc[s][x] = "applied" /\ table' = table /\ req' = req
      /\ \A t \in Server : mutex'[t] = IF t = s THEN None ELSE mutex[t]
      /\ \A t \in Server, y \in Peer :
            pc'[t][y] = IF t = s /\ y = x THEN "retire" ELSE pc[t][y]
      /\ N > 1 => x = s - 1
      /\ Applied(N) /\ (N > 1 => (Applied(N)' <=> Applied(N)))
  BY UnlockTailFacts
<1>2. res' = res
  BY DEF UnlockTail
<1>3. CASE N > 1
  <2>1. x \in Server /\ mutex'[1] = mutex[1]
    BY <1>1, <1>3
  <2>2. \A t \in Server, c \in Client : pc'[t][c] = pc[t][c]
    BY <1>1, <2>1
  <2>3. Applied(N)' <=> Applied(N)
    BY <1>1, <1>3
  <2>4. ASSUME NEW t \in Server, NEW c \in Client PROVE DoneAt(t, c)' <=> DoneAt(t, c)
    <3>1. pc'[t][c] = pc[t][c] /\ req'[t][c] = req[t][c]
      BY <1>1, <2>2
    <3>2. QED
      BY <2>1, <2>3, <3>1 DEF DoneAt
  <2>5. QED
    BY <1>1, <1>2, <2>2, <2>4 DEF Hidden
<1>4. CASE N = 1
  <2>1. mutex[1] = x /\ mutex'[1] = None /\ \A t \in Server : t = 1
    BY <1>1, <1>4
  <2>2. \A t \in Server, c \in Client : c # x => pc'[t][c] = pc[t][c]
    BY <1>1
  <2>3. ASSUME NEW t \in Server, NEW c \in Client, c # x PROVE DoneAt(t, c)' <=> DoneAt(t, c)
    <3>1. pc'[t][c] = pc[t][c] /\ req'[t][c] = req[t][c] /\ mutex[1] # c /\ mutex'[1] # c
      BY <1>1, <2>1, <2>2, <2>3
    <3>2. QED
      BY <3>1 DEF DoneAt
  <2>4. x \in Client => (DoneAt(1, x)' <=> DoneAt(1, x))
    BY <1>1, <1>4, <2>1 DEF DoneAt, Written
  <2>5. QED
    BY <1>1, <1>2, <2>1, <2>2, <2>3, <2>4 DEF Hidden
<1>5. QED
  BY <1>3, <1>4
-----------------------------------------------------------------------------
(* Steps that a client sees: each is one of KVStore.                       *)
LEMMA SameData ==
    \A r, t : /\ KV!IsWrite(r) = IsWrite(r)
              /\ KV!Effect(r, t) = Effect(r, t)
              /\ KV!Answer(r, t) = Answer(r, t)
              /\ KV!Request = Request /\ KV!NoRequest = NoRequest
              /\ KV!NoResult = NoResult /\ KV!Garbled = Garbled /\ KV!EmptyTable = EmptyTable
BY DEF KV!IsWrite, IsWrite, KV!Effect, Effect, KV!Answer, Answer, KV!Request, Request,
       KV!WriteRequest, WriteRequest, KV!ReadRequest, ReadRequest, KV!NoRequest, NoRequest,
       KV!NoResult, NoResult, KV!Garbled, Garbled, KV!EmptyTable, EmptyTable

(* A step that concerns one client changes the maps there.                 *)
LEMMA OneShown ==
    ASSUME NEW c \in Client,
           \A d \in Client : d # c => /\ StatusMap'[d] = StatusMap[d] /\ ArgMap'[d] = ArgMap[d]
                                      /\ RetMap'[d] = RetMap[d]
    PROVE  /\ StatusMap' = [StatusMap EXCEPT ![c] = StatusMap'[c]]
           /\ ArgMap' = [ArgMap EXCEPT ![c] = ArgMap'[c]]
           /\ RetMap' = [RetMap EXCEPT ![c] = RetMap'[c]]
           /\ ArgMap'[c] = ArgMap[c] => ArgMap' = ArgMap
           /\ RetMap'[c] = RetMap[c] => RetMap' = RetMap
<1>1. /\ StatusMap' = [StatusMap EXCEPT ![c] = StatusMap'[c]]
      /\ ArgMap' = [ArgMap EXCEPT ![c] = ArgMap'[c]]
      /\ RetMap' = [RetMap EXCEPT ![c] = RetMap'[c]]
  <2>1. StatusMap' = [StatusMap EXCEPT ![c] = StatusMap'[c]]
    BY DEF StatusMap
  <2>2. ArgMap' = [ArgMap EXCEPT ![c] = ArgMap'[c]]
    BY DEF ArgMap
  <2>3. RetMap' = [RetMap EXCEPT ![c] = RetMap'[c]]
    BY DEF RetMap
  <2>4. QED
    BY <2>1, <2>2, <2>3
<1>2. ArgMap'[c] = ArgMap[c] => ArgMap' = ArgMap
  BY DEF ArgMap
<1>3. RetMap'[c] = RetMap[c] => RetMap' = RetMap
  BY DEF RetMap
<1>4. QED
  BY <1>1, <1>2, <1>3

(* The other clients, in a step that is about one of them.                 *)
LEMMA OthersShown ==
    ASSUME Control, Replicas, Aside, Views, Views', NEW c \in Client,
           \A t \in Server, d \in Client : d # c =>
              pc'[t][d] = pc[t][d] /\ req'[t][d] = req[t][d] /\ res'[t][d] = res[t][d]
    PROVE  /\ \A d \in Client : d # c => /\ StatusMap'[d] = StatusMap[d] /\ ArgMap'[d] = ArgMap[d]
                                         /\ RetMap'[d] = RetMap[d]
           /\ c \notin DisturbedMap' => DisturbedMap' = DisturbedMap \ {c}
           /\ c \notin DisturbedMap /\ c \notin DisturbedMap' => DisturbedMap' = DisturbedMap
<1>1. ASSUME NEW d \in Client, d # c
      PROVE  /\ StatusMap'[d] = StatusMap[d] /\ ArgMap'[d] = ArgMap[d] /\ RetMap'[d] = RetMap[d]
             /\ d \in DisturbedMap' <=> d \in DisturbedMap
  <2>1. \A t \in Server : pc'[t][d] = pc[t][d] /\ req'[t][d] = req[t][d] /\ res'[t][d] = res[t][d]
    BY <1>1
  <2>2. mutex'[1] = d /\ Applied(N)' <=> mutex[1] = d /\ Applied(N)
    BY AsideApplied
  <2>3. \A t \in Server : DoneAt(t, d)' <=> DoneAt(t, d)
    BY <2>1, <2>2 DEF DoneAt
  <2>4. StatusMap'[d] = StatusMap[d] /\ ArgMap'[d] = ArgMap[d] /\ RetMap'[d] = RetMap[d]
    BY <2>1, <2>3, SameShown
  <2>5. d \in DisturbedMap' <=> d \in DisturbedMap
    BY <2>1 DEF DisturbedMap
  <2>6. QED
    BY <2>4, <2>5
<1>2. DisturbedMap \subseteq Client /\ DisturbedMap' \subseteq Client
  BY DEF DisturbedMap
<1>3. c \notin DisturbedMap' => DisturbedMap' = DisturbedMap \ {c}
  BY <1>1, <1>2
<1>4. c \notin DisturbedMap => DisturbedMap \ {c} = DisturbedMap
  OBVIOUS
<1>5. QED
  BY <1>1, <1>3, <1>4

LEMMA SendShown ==
    ASSUME RInv, Views, Views', NEW c \in Client, NEW s \in Server, NEW r \in Request,
           s = IF IsWrite(r) THEN 1 ELSE N, Send(c, s, r)
    PROVE  KV!Invoke(c)
<1> USE ConstantFacts DEF RInv, IInv, Control, TypeBase
<1>1. (\A t \in Server : pc[t][c] = "idle") /\ table' = table /\ mutex' = mutex /\ res' = res
  BY DEF Send, Busy
<1>2. \A t \in Server, y \in Peer :
         /\ pc'[t][y] = IF t = s /\ y = c THEN "received" ELSE pc[t][y]
         /\ req'[t][y] = IF t = s /\ y = c THEN r ELSE req[t][y]
  BY DEF Send
<1>3. Aside /\ Replicas
  BY ClientAside
<1>4. mutex[1] # c
  BY <1>1 DEF MutexHeld, Holding
<1>5. \A t \in Server, d \in Client : d # c =>
         pc'[t][d] = pc[t][d] /\ req'[t][d] = req[t][d] /\ res'[t][d] = res[t][d]
  BY <1>1, <1>2
<1>6. /\ \A d \in Client : d # c => /\ StatusMap'[d] = StatusMap[d] /\ ArgMap'[d] = ArgMap[d]
                                    /\ RetMap'[d] = RetMap[d]
      /\ c \notin DisturbedMap' => DisturbedMap' = DisturbedMap \ {c}
      /\ c \notin DisturbedMap /\ c \notin DisturbedMap' => DisturbedMap' = DisturbedMap
  BY <1>3, <1>5, OthersShown
<1>7. Shown(c, "ready", NoRequest, NoResult)
  BY <1>1 DEF Views
<1>8. pc'[s][c] = "received" /\ req'[s][c] = r /\ ~DoneAt(s, c)'
  BY <1>1, <1>2, <1>4 DEF DoneAt, Written
<1>9. StatusMap'[c] = "invoked" /\ ArgMap'[c] = r /\ RetMap'[c] = NoResult
  BY <1>8 DEF Views, Shown
<1>10. DisturbedMap' = DisturbedMap
  <2>1. c \notin DisturbedMap /\ c \notin DisturbedMap'
    BY <1>1, <1>2 DEF DisturbedMap
  <2>2. QED
    BY <1>6, <2>1
<1>11. StatusMap[c] = "ready" /\ RetMap'[c] = RetMap[c]
  BY <1>7, <1>9 DEF Shown
<1>12. /\ StatusMap' = [StatusMap EXCEPT ![c] = "invoked"] /\ ArgMap' = [ArgMap EXCEPT ![c] = r]
       /\ RetMap' = RetMap
  BY <1>6, <1>9, <1>11, OneShown
<1>13. QED
  BY <1>1, <1>10, <1>11, <1>12, SameData DEF KV!Invoke

LEMMA ReplyShown ==
    ASSUME RInv, Views, Views', NEW c \in Client, ReceiveReply(c)
    PROVE  KV!Respond(c)
<1> USE ConstantFacts DEF RInv, IInv, Control, TypeBase
<1>1. PICK s \in Server : pc[s][c] = "replied" /\ pc' = [pc EXCEPT ![s][c] = "idle"]
  BY DEF ReceiveReply
<1>2. table' = table /\ mutex' = mutex /\ res' = res /\ req' = req
  BY DEF ReceiveReply
<1>3. \A t \in Server, y \in Peer : pc'[t][y] = IF t = s /\ y = c THEN "idle" ELSE pc[t][y]
  BY <1>1
<1>4. Aside /\ Replicas
  BY ClientAside
<1>5. \A t \in Server, d \in Client : d # c =>
         pc'[t][d] = pc[t][d] /\ req'[t][d] = req[t][d] /\ res'[t][d] = res[t][d]
  BY <1>2, <1>3
<1>6. /\ \A d \in Client : d # c => /\ StatusMap'[d] = StatusMap[d] /\ ArgMap'[d] = ArgMap[d]
                                    /\ RetMap'[d] = RetMap[d]
      /\ c \notin DisturbedMap' => DisturbedMap' = DisturbedMap \ {c}
      /\ c \notin DisturbedMap /\ c \notin DisturbedMap' => DisturbedMap' = DisturbedMap
  BY <1>4, <1>5, OthersShown
<1>7. StatusMap[c] = "done"
  <2>1. DoneAt(s, c)
    BY <1>1 DEF DoneAt, Written
  <2>2. QED
    BY <1>1, <2>1 DEF Views, Shown
<1>8. \A t \in Server : pc'[t][c] = "idle"
  BY <1>1, <1>3 DEF OneSite
<1>9. StatusMap'[c] = "ready" /\ ArgMap'[c] = NoRequest /\ RetMap'[c] = NoResult
  BY <1>8 DEF Views, Shown
<1>10. DisturbedMap' = DisturbedMap
  <2>1. \A t \in Server : pc[t][c] # "disturbed" /\ pc'[t][c] # "disturbed"
    BY <1>1, <1>8 DEF OneSite
  <2>2. c \notin DisturbedMap /\ c \notin DisturbedMap'
    BY <2>1 DEF DisturbedMap
  <2>3. QED
    BY <1>6, <2>2
<1>11. /\ StatusMap' = [StatusMap EXCEPT ![c] = "ready"] /\ ArgMap' = [ArgMap EXCEPT ![c] = NoRequest]
       /\ RetMap' = [RetMap EXCEPT ![c] = NoResult]
  BY <1>6, <1>9, OneShown
<1>12. QED
  BY <1>2, <1>7, <1>10, <1>11, SameData DEF KV!Respond

LEMMA ReadShown ==
    ASSUME RInv, Views, Views', NEW s \in Server, NEW c \in Peer, Read(s, c)
    PROVE  c \in Client /\ KV!CommitRead(c)
<1> USE ConstantFacts DEF RInv, IInv, Control, TypeBase
<1>1. pc[s][c] \in {"reading", "disturbed"} /\ table' = table /\ mutex' = mutex /\ req' = req
  BY DEF Read
<1>2. ~IsWrite(req[s][c]) /\ s = N /\ c \in Client
  BY <1>1 DEF Active, ReaderStage
<1>3. \A t \in Server, y \in Peer :
         /\ pc'[t][y] = IF t = s /\ y = c THEN "leaving" ELSE pc[t][y]
         /\ ~(t = s /\ y = c) => res'[t][y] = res[t][y]
  BY DEF Read
<1>4. Aside /\ Replicas
  BY NextAside
<1>5. \A t \in Server, d \in Client : d # c =>
         pc'[t][d] = pc[t][d] /\ req'[t][d] = req[t][d] /\ res'[t][d] = res[t][d]
  BY <1>1, <1>3
<1>6. /\ \A d \in Client : d # c => /\ StatusMap'[d] = StatusMap[d] /\ ArgMap'[d] = ArgMap[d]
                                    /\ RetMap'[d] = RetMap[d]
      /\ c \notin DisturbedMap' => DisturbedMap' = DisturbedMap \ {c}
      /\ c \notin DisturbedMap /\ c \notin DisturbedMap' => DisturbedMap' = DisturbedMap
  BY <1>2, <1>4, <1>5, OthersShown
<1>7. ~DoneAt(s, c) /\ DoneAt(s, c)'
  BY <1>1, <1>2, <1>3 DEF DoneAt
<1>8. StatusMap[c] = "invoked" /\ ArgMap[c] = req[s][c]
  BY <1>1, <1>2, <1>7 DEF Views, Shown
<1>9. StatusMap'[c] = "done" /\ ArgMap'[c] = req[s][c] /\ RetMap'[c] = res'[s][c]
  <2>1. pc'[s][c] # "idle" /\ req'[s][c] = req[s][c] /\ c \in Client
    BY <1>1, <1>2, <1>3
  <2>2. QED
    BY <1>7, <2>1 DEF Views, Shown
<1>10. \A t \in Server : t # s => pc[t][c] = "idle"
  BY <1>1, <1>2 DEF OneSite
<1>11. c \in DisturbedMap <=> pc[s][c] = "disturbed"
  BY <1>2, <1>10 DEF DisturbedMap
<1>12. DisturbedMap' = DisturbedMap \ {c}
  <2>1. \A t \in Server : pc'[t][c] # "disturbed"
    BY <1>2, <1>3, <1>10
  <2>2. c \notin DisturbedMap'
    BY <2>1 DEF DisturbedMap
  <2>3. QED
    BY <1>6, <2>2
<1>13. \/ res'[s][c] = Answer(req[s][c], table[s])
       \/ pc[s][c] = "disturbed" /\ res'[s][c] = Garbled
  BY DEF Read
<1>14. /\ StatusMap' = [StatusMap EXCEPT ![c] = "done"] /\ ArgMap' = ArgMap
       /\ RetMap' = [RetMap EXCEPT ![c] = res'[s][c]]
  BY <1>2, <1>6, <1>8, <1>9, OneShown
<1>15. QED
  BY <1>1, <1>2, <1>8, <1>11, <1>12, <1>13, <1>14, SameData DEF KV!CommitRead

(* The tail applies a write.  The write is that of the client c for which  *)
(* the head holds its mutex; the gets inside table_get() are disturbed.    *)
LEMMA WriteAtTail ==
    ASSUME RInv, NEW s \in Server, s = N, NEW x \in Peer, Apply(s, x)
    PROVE  \E c \in Client :
           /\ c = mutex[1] /\ pc[1][c] \in Holding /\ pc'[1][c] # "idle"
           /\ IsWrite(req[1][c]) /\ req'[1][c] = req[1][c]
           /\ ~DoneAt(1, c) /\ DoneAt(1, c)'
           /\ table'[N] = Effect(req[1][c], table[N])
           /\ res'[1][c] = Answer(req[1][c], table[N])
<1> USE ConstantFacts DEF RInv, IInv
<1>1. /\ mutex[s] = x /\ mutex' = mutex /\ req' = req
      /\ table'[s] = Effect(req[s][x], table[s])
      /\ \A y \in Peer : pc'[1][y] = IF s = 1 /\ y = x THEN "applied"
                                     ELSE IF s = 1 /\ pc[1][y] = "reading" THEN "disturbed" ELSE pc[1][y]
      /\ req[s][x] = req[1][mutex[1]] /\ (s > 1 => Awaiting(1))
      /\ ~Applied(s) /\ Applied(s)'
  BY ApplyFacts
<1>2. mutex[1] # None
  BY <1>1 DEF Awaiting
<1>3. PICK c \in Client : c = mutex[1]
  BY <1>2, HeadFacts DEF Replicas
<1>4. pc[1][c] \in Holding /\ IsWrite(req[1][c])
  BY <1>2, <1>3, HeadFacts DEF Replicas
<1>5. pc'[1][c] # "idle"
  BY <1>1, <1>4 DEF Holding
<1>6. pc[1][c] \notin Written
  BY <1>4 DEF Holding, Written
<1>7. ~DoneAt(1, c) /\ DoneAt(1, c)'
  BY <1>1, <1>3, <1>4, <1>6 DEF DoneAt
<1>8. res'[1][c] = Answer(req[1][c], table[N])
  <2>1. CASE N = 1
    BY <1>1, <1>3, <2>1 DEF Apply, Control, TypeBase
  <2>2. CASE N > 1
    <3>1. AppliedHere(1)
      BY <1>1, <2>2 DEF Awaiting, AppliedHere
    <3>2. res[1][c] = Answer(req[1][c], table[N])
      BY <1>1, <1>3, <3>1 DEF Promise
    <3>3. res'[1][c] = res[1][c]
      BY <2>2 DEF Apply, Control, TypeBase
    <3>4. QED
      BY <3>2, <3>3
  <2>3. QED
    BY <2>1, <2>2
<1>9. QED
  BY <1>1, <1>3, <1>4, <1>5, <1>7, <1>8

LEMMA OthersAtTail ==
    ASSUME RInv, Views, Views', NEW s \in Server, s = N,
           NEW x \in Peer, Apply(s, x)
    PROVE  /\ \A d \in Client : d # mutex[1] =>
                 /\ StatusMap'[d] = StatusMap[d] /\ ArgMap'[d] = ArgMap[d]
                 /\ RetMap'[d] = RetMap[d]
           /\ DisturbedMap' = DisturbedMap \cup {d \in Client : pc[N][d] = "reading"}
<1> USE ConstantFacts DEF RInv, IInv
<1>1. /\ mutex[s] = x /\ mutex' = mutex /\ req' = req /\ pc[s][x] = "locked"
      /\ \A t \in Server, y \in Peer :
            pc'[t][y] = IF t = s /\ y = x THEN "applied"
                        ELSE IF t = s /\ pc[t][y] = "reading" THEN "disturbed" ELSE pc[t][y]
      /\ s > 1 => x = s - 1
  <2>1. pc[s][x] = "locked"
    BY DEF Apply
  <2>2. QED
    BY <2>1, ApplyFacts
<1>2. \A t \in Server, d \in Client : ~(t = s /\ d = x) => res'[t][d] = res[t][d]
  BY DEF Apply, Control, TypeBase
<1>3. \A d \in Client : d # mutex[1] => d # x
  BY <1>1
<1>4. ASSUME NEW d \in Client, d # mutex[1]
      PROVE  StatusMap'[d] = StatusMap[d] /\ ArgMap'[d] = ArgMap[d] /\ RetMap'[d] = RetMap[d]
  <2>1. \A t \in Server :
           /\ pc'[t][d] = IF t = s /\ pc[t][d] = "reading" THEN "disturbed" ELSE pc[t][d]
           /\ req'[t][d] = req[t][d] /\ res'[t][d] = res[t][d]
    BY <1>1, <1>2, <1>3, <1>4
  <2>2. \A t \in Server : DoneAt(t, d)' <=> DoneAt(t, d)
    BY <1>1, <1>4, <2>1 DEF DoneAt, Written
  <2>3. QED
    BY <2>1, <2>2, SameShown
<1>5. \A t \in Server, d \in Client :
         pc'[t][d] = "disturbed" <=> pc[t][d] = "disturbed" \/ (t = s /\ pc[t][d] = "reading")
  BY <1>1
<1>6. ASSUME NEW d \in Client
      PROVE  d \in DisturbedMap' <=> d \in DisturbedMap \/ pc[N][d] = "reading"
  BY <1>5 DEF DisturbedMap
<1>7. DisturbedMap \subseteq Client /\ DisturbedMap' \subseteq Client
  BY DEF DisturbedMap
<1>8. QED
  BY <1>4, <1>6, <1>7

LEMMA WriteShown ==
    ASSUME RInv, Views, Views', NEW s \in Server, s = N,
           NEW x \in Peer, Apply(s, x)
    PROVE  \E c \in Client : KV!CommitWrite(c)
<1>1. PICK c \in Client :
      /\ c = mutex[1] /\ pc[1][c] \in Holding /\ pc'[1][c] # "idle"
      /\ IsWrite(req[1][c]) /\ req'[1][c] = req[1][c]
      /\ ~DoneAt(1, c) /\ DoneAt(1, c)'
      /\ table'[N] = Effect(req[1][c], table[N])
      /\ res'[1][c] = Answer(req[1][c], table[N])
  BY WriteAtTail
<1>2. 1 \in Server /\ N \in Server /\ pc[1][c] # "idle"
  BY <1>1, ConstantFacts DEF Holding
<1>3. StatusMap[c] = "invoked" /\ ArgMap[c] = req[1][c]
  BY <1>1, <1>2 DEF Views, Shown
<1>4. StatusMap'[c] = "done" /\ ArgMap'[c] = req[1][c] /\ RetMap'[c] = Answer(req[1][c], table[N])
  BY <1>1, <1>2 DEF Views, Shown
<1>5. /\ StatusMap' = [StatusMap EXCEPT ![c] = "done"] /\ ArgMap' = ArgMap
      /\ RetMap' = [RetMap EXCEPT ![c] = Answer(req[1][c], table[N])]
  BY <1>1, <1>3, <1>4, OthersAtTail, OneShown
<1>6. DisturbedMap' = DisturbedMap \cup {d \in Client : pc[N][d] = "reading"}
  BY OthersAtTail
<1>7. {d \in Client : pc[N][d] = "reading"} \subseteq KV!Reading
  <2>1. ASSUME NEW d \in Client, pc[N][d] = "reading"
        PROVE  StatusMap[d] = "invoked" /\ ~IsWrite(ArgMap[d])
    <3>1. ~IsWrite(req[N][d])
      BY <1>2, <2>1, ConstantFacts DEF RInv, IInv, Control, Active, ReaderStage
    <3>2. ~DoneAt(N, d)
      BY <2>1, <3>1 DEF DoneAt
    <3>3. Shown(d, "invoked", req[N][d], NoResult)
      BY <1>2, <2>1, <3>2 DEF Views
    <3>4. QED
      BY <3>1, <3>3 DEF Shown
  <2>2. QED
    BY <2>1, SameData DEF KV!Reading
<1>8. QED
  BY <1>1, <1>3, <1>5, <1>6, <1>7, SameData DEF KV!CommitWrite
-----------------------------------------------------------------------------
LEMMA InitShown == ASSUME Init, Views PROVE KV!KVInit
<1>1. \A c \in Client : Shown(c, "ready", NoRequest, NoResult)
  <2>1. \A c \in Client, s \in Server : pc[s][c] = "idle"
    BY ConstantFacts DEF Init
  <2>2. QED
    BY <2>1 DEF Views
<1>2. StatusMap = [c \in Client |-> "ready"]
  BY <1>1 DEF Shown, StatusMap
<1>3. ArgMap = [c \in Client |-> NoRequest]
  BY <1>1 DEF Shown, ArgMap
<1>4. RetMap = [c \in Client |-> NoResult]
  BY <1>1 DEF Shown, RetMap
<1>5. DisturbedMap = {} /\ table[N] = EmptyTable
  <2>1. \A c \in Client, s \in Server : pc[s][c] # "disturbed"
    BY ConstantFacts DEF Init
  <2>2. N \in Server
    BY ConstantFacts
  <2>3. table[N] = EmptyTable
    BY <2>2 DEF Init, EmptyTable
  <2>4. QED
    BY <2>1, <2>3 DEF DisturbedMap
<1>6. QED
  BY <1>2, <1>3, <1>4, <1>5, SameData DEF KV!KVInit

(* Every step of the chain is a step of KVStore, or hidden.                *)
LEMMA StepShown ==
    ASSUME RInv, Views, Views', [Next]_vars PROVE [KV!KVNext]_(KV!kvvars)
<1>1. ASSUME UNCHANGED Abstract PROVE [KV!KVNext]_(KV!kvvars)
  BY <1>1 DEF Abstract, KV!kvvars
<1>2. CASE UNCHANGED vars
  <2>1. UNCHANGED Abstract
    BY <1>2 DEF vars, Abstract, StatusMap, ArgMap, RetMap, DisturbedMap, Busy, Committed, Settled, Site
  <2>2. QED
    BY <1>1, <2>1
<1>3. ASSUME NEW c \in Client, SendWrite(c) \/ SendRead(c) PROVE KV!Invoke(c)
  <2>1. CASE SendWrite(c)
    <3>1. PICK r \in Request : IsWrite(r) /\ Send(c, 1, r)
      BY <2>1, DataFacts DEF SendWrite
    <3>2. QED
      BY <3>1, SendShown, ConstantFacts
  <2>2. CASE SendRead(c)
    <3>1. PICK r \in Request : ~IsWrite(r) /\ Send(c, N, r)
      BY <2>2, DataFacts DEF SendRead
    <3>2. QED
      BY <3>1, SendShown, ConstantFacts
  <2>3. QED
    BY <1>3, <2>1, <2>2
<1>4. ASSUME NEW c \in Client, ReceiveReply(c) PROVE KV!Respond(c)
  BY <1>4, ReplyShown
<1>5. ASSUME NEW s \in Server, NEW x \in Peer, Handle(s, x) \/ SpuriousWake(s, x)
      PROVE  [KV!KVNext]_(KV!kvvars)
  <2>1. CASE Read(s, x)
    BY <2>1, ReadShown DEF KV!KVNext
  <2>2. CASE Apply(s, x) /\ s = N
    BY <2>2, WriteShown DEF KV!KVNext
  <2>3. CASE Apply(s, x) /\ s # N
    BY <1>1, <2>3, ApplyHidden, Stutter
  <2>4. CASE Forward(s, x)
    BY <1>1, <2>4, ForwardHidden, Stutter
  <2>5. CASE ForwardDone(s, x)
    BY <1>1, <2>5, ForwardDoneHidden, Stutter
  <2>6. CASE UnlockTail(s, x)
    BY <1>1, <2>6, UnlockTailHidden, Stutter
  <2>7. CASE \/ IncrementWriters(s, x) \/ Lock(s, x) \/ DecrementWriters(s, x)
             \/ WaitWriters(s, x) \/ SpuriousWake(s, x) \/ IncrementReaders(s, x)
             \/ DecrementReaders(s, x) \/ AddTime(s, x)
    BY <1>1, <2>7, HandlerHidden, Stutter
  <2>8. QED
    BY <1>5, <2>1, <2>2, <2>3, <2>4, <2>5, <2>6, <2>7 DEF Handle
<1>6. QED
  BY <1>2, <1>3, <1>4, <1>5 DEF Next, KV!KVNext

(* For any number of servers, clients, keys and values, the behaviours of  *)
(* the request path (invoke() and send_next() at every server) are those   *)
(* of one table on which every request takes effect at one instant.        *)
THEOREM ImplementsKVStore == Spec => Linearizable
<1>1. RInv => Views
  BY RInvViews
<1>2. Init /\ RInv => KV!KVInit
  BY RInvViews, InitShown
<1>3. RInv /\ RInv' /\ [Next]_vars => [KV!KVNext]_(KV!kvvars)
  <2>1. RInv' => Views'
    BY <1>1, PTL
  <2>2. QED
    BY <1>1, <2>1, StepShown
<1>4. QED
  BY <1>2, <1>3, RInvariance, PTL DEF Spec, Linearizable, KV!KVSpec
=============================================================================
